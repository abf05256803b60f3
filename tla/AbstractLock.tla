---------------------------- MODULE AbstractLock ----------------------------
(***************************************************************************)
(* What the kernel's spin locks promise to the code that uses them: a lock *)
(* has at most one owner, only its owner gives it up, and a CPU takes no   *)
(* interrupt while it owns a lock.  Module SpinLock is the implementation. *)
(***************************************************************************)
EXTENDS Integers

CONSTANTS Cpus, Locks, NoCpu

VARIABLES owner,  \* owner[l]: the CPU that owns lock l, or NoCpu
          irq     \* irq[c]: 1 when CPU c takes interrupts, else 0

vars == <<owner, irq>>

OwnsNothing(c) == \A l \in Locks : owner[l] # c

Init ==
  /\ owner = [l \in Locks |-> NoCpu]
  /\ irq \in [Cpus -> {0, 1}]

Take(c, l) ==
  /\ owner[l] = NoCpu
  /\ irq[c] = 0
  /\ owner' = [owner EXCEPT ![l] = c]
  /\ UNCHANGED irq

Give(c, l) ==
  /\ owner[l] = c
  /\ owner' = [owner EXCEPT ![l] = NoCpu]
  /\ UNCHANGED irq

Mask(c) ==
  /\ irq' = [irq EXCEPT ![c] = 0]
  /\ UNCHANGED owner

Unmask(c) ==
  /\ OwnsNothing(c)
  /\ irq' = [irq EXCEPT ![c] = 1]
  /\ UNCHANGED owner

Next ==
  \E c \in Cpus :
    \/ \E l \in Locks : Take(c, l) \/ Give(c, l)
    \/ Mask(c)
    \/ Unmask(c)

Spec == Init /\ [][Next]_vars
=============================================================================
