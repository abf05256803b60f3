--------------------------- MODULE AbstractMemory ---------------------------
(***************************************************************************)
(* What the memory calls of proc.c promise: a process has an image of so   *)
(* many pages, which changes only when the process writes, grows (with     *)
(* clear pages), shrinks, ends, or begins as a program or as the copy of    *)
(* another one.  A call that fails is not seen.                                    *)
(***************************************************************************)
EXTENDS Naturals

CONSTANTS Procs, Data, Clear, Program, NoImage

VARIABLE image

Pages(p) == DOMAIN image[p]
Lives(p) == image[p] # NoImage

Init == image = [p \in Procs |-> NoImage]

Become(p, i) == image' = [image EXCEPT ![p] = i]

Birth(p) ==
  /\ ~Lives(p)
  /\ image'[p] # NoImage
  /\ \A a \in DOMAIN image'[p] : image'[p][a] \in Program
  /\ Become(p, image'[p])

Fork(p, child) ==
  /\ Lives(p) /\ ~Lives(child)
  /\ Become(child, image[p])

Write(p) ==
  /\ Lives(p)
  /\ \E written \in SUBSET Pages(p), v \in Data :
       Become(p, [a \in Pages(p) |-> IF a \in written THEN v ELSE image[p][a]])

Resize(p) ==
  /\ Lives(p) /\ image'[p] # NoImage
  /\ Become(p, [a \in DOMAIN image'[p] |->
                  IF a \in Pages(p) THEN image[p][a] ELSE Clear])

Death(p) == Lives(p) /\ Become(p, NoImage)

Next ==
  \E p \in Procs :
    Birth(p) \/ Write(p) \/ Resize(p) \/ Death(p)
      \/ \E child \in Procs : Fork(p, child)

Step == [Next]_image
Spec == Init /\ [][Next]_image
=============================================================================
