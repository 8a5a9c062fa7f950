------------------------ MODULE MCLineCardSupervisor ----------------------
(* The supervisor with small bounds; there is nothing to instantiate but   *)
(* the bounds, the rails, reset lines and interrupts being the code's.     *)
EXTENDS LineCardSupervisor

=============================================================================
