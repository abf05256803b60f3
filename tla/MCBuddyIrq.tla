----------------------------- MODULE MCBuddyIrq -----------------------------
(* BuddyIrq for TLC, with interrupts on everywhere. *)
EXTENDS BuddyIrq
=============================================================================
