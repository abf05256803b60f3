----------------------------- MODULE MCSpinLock -----------------------------
(* Instances of SpinLock for TLC.  CPUs are interchangeable. *)
EXTENDS SpinLock, TLC

CONSTANTS c1, c2, c3

MCCpus3  == {c1, c2, c3}
MCLocks2 == 1..2

Symmetry3 == Permutations(MCCpus3)
=============================================================================
