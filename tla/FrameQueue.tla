------------------------------ MODULE FrameQueue ------------------------------
(***************************************************************************)
(* What a port's ingress FIFO promises its reader: a queue of 64-bit words *)
(* that grows by a whole frame at a time (header word, then every data     *)
(* word of that frame), shrinks by one word from its head, or is emptied   *)
(* when the link goes down.  A clock edge may do the first two together.   *)
(***************************************************************************)
EXTENDS Sequences

CONSTANT WholeFrames    \* the word sequences of the frames that may be published

VARIABLE q

Init == q = <<>>

Publish == \E w \in WholeFrames : q' = q \o w
Fetch   == q # <<>> /\ \E w \in {<<>>} \cup WholeFrames : q' = Tail(q) \o w
Flush   == q' = <<>>

Next == Publish \/ Fetch \/ Flush

Spec == Init /\ [][Next]_q
=============================================================================
