------------------------------ MODULE MCMACTable ------------------------------
(* Instances of MACTable for TLC: two rows of two ways.                    *)
EXTENDS MACTable

CONSTANTS A, B, M    \* stations; M is a group address

Packet(src, dst, port, tid) == [valid |-> TRUE, src |-> src, dst |-> dst, port |-> port, tid |-> tid]

\* All of them hash to row 1, so that a row address lost to 0 shows.
AllStations == {A, B, M}
SmallHash == [s \in AllStations |-> 1]
GroupAddresses == {M}
TwoPorts == {1, 2}

\* A and B talk to each other; some packet claims to come from the group.
Talk == {Packet(A, B, 1, 0), Packet(B, A, 2, 5), Packet(M, A, 1, 0)}
Pair == {Packet(A, B, 1, 0), Packet(B, A, 2, 5)}
NoOps == {}
ReadAndDelete == {[op |-> "read", row |-> 1, way |-> 0], [op |-> "delete", row |-> 1, way |-> 0]}
=============================================================================
