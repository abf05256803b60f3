--------------------------- MODULE AbstractEvents ---------------------------
(***************************************************************************)
(* What an event queue promises: the events it takes, in the order they    *)
(* happen, are handled in that order and once each.  It may drop an event, *)
(* and it holds no more than Size of them.                                 *)
(***************************************************************************)
EXTENDS Integers, Sequences

CONSTANT Size

VARIABLES queue, last, got   \* events that wait, the last one that came, that was handled

Init == queue = <<>> /\ last = -1 /\ got = -1

Put ==
  /\ Len(queue) < Size
  /\ last' > last
  /\ queue' = Append(queue, last')
  /\ got' = got

Get ==
  /\ queue # <<>>
  /\ got' = Head(queue)
  /\ queue' = Tail(queue)
  /\ last' = last

Next == Put \/ Get

Step == [Next]_<<queue, last, got>>

Spec == Init /\ [][Step]_<<queue, last, got>>
=============================================================================
