----------------------------- MODULE MCPhyPoll -----------------------------
(* The instance TLC checks: a card of four PHYs in two packages, each of     *)
(* which has its temperature read through its first PHY.                     *)
EXTENDS PhyPoll

TempPair == <<0, 2>>
=============================================================================
