------------------------------- MODULE MCBuddy -------------------------------
(* Instances of Buddy for TLC. *)
EXTENDS Buddy, TLC

\* The smallest region that init() takes.
RealRegion == {[base |-> 0, pages |-> 64]}

PageOrder  == {0}
=============================================================================
