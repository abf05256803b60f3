------------------------------- MODULE MCTrap -------------------------------
(* Instances of Trap for TLC. *)
EXTENDS Trap

CONSTANTS u1, u2, k

TwoUsers == {u1, u2}
OneTask  == {k}
Both     == {"timer", "external"}
=============================================================================
