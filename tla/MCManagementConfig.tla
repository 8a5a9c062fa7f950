------------------------- MODULE MCManagementConfig -------------------------
(* Instances of ManagementConfig for TLC.                                   *)
EXTENDS ManagementConfig

TwoValues == {0, 1}
SomeRemovable == {"hostname", "ip.gateway"}
=============================================================================
