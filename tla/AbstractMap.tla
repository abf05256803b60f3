----------------------------- MODULE AbstractMap -----------------------------
(***************************************************************************)
(* What page tables promise: an address space is a function from the slots *)
(* of a virtual address to pages, and a call changes one slot of one space *)
(* at a time.  Tables and their levels cannot be seen.                     *)
(***************************************************************************)
CONSTANTS
  Roots,    \* what an address space may be named by
  Slots,    \* what the hardware makes of a virtual page number
  Pages,    \* what a slot may be mapped to
  Nothing,  \* what an unmapped slot holds
  NoSpace   \* no address space

VARIABLE space

Empty == [s \in Slots |-> Nothing]

Init == space = [r \in Roots |-> NoSpace]

\* A new address space maps nothing.
Create(r) ==
  /\ space[r] = NoSpace
  /\ space' = [space EXCEPT ![r] = Empty]

Destroy(r) ==
  /\ space[r] # NoSpace
  /\ space' = [space EXCEPT ![r] = NoSpace]

\* A mapping replaces an older one of its slot, and touches nothing else.
Map(r, s) ==
  /\ space[r] # NoSpace
  /\ space'[r][s] \in Pages
  /\ space' = [space EXCEPT ![r] = [@ EXCEPT ![s] = space'[r][s]]]

Unmap(r, s) ==
  /\ space[r] # NoSpace
  /\ space[r][s] # Nothing
  /\ space' = [space EXCEPT ![r] = [@ EXCEPT ![s] = Nothing]]

Next ==
  \E r \in Roots :
    \/ Create(r)
    \/ Destroy(r)
    \/ \E s \in Slots : Unmap(r, s) \/ Map(r, s)

Spec == Init /\ [][Next]_space
=============================================================================
