--------------------------- MODULE AbstractRanges ---------------------------
(***************************************************************************)
(* What the table of memory-mapped ranges promises: a set of ranges of     *)
(* which no two have the same base, and a call that adds or removes one.   *)
(***************************************************************************)
EXTENDS FiniteSets, Integers

CONSTANTS Ranges, Most   \* what an entry may be, how many there may be

VARIABLE ranges

Init == ranges = {}

Add(r) ==
  /\ Cardinality(ranges) < Most
  /\ \A other \in ranges : other.base # r.base
  /\ ranges' = ranges \cup {r}

Remove(r) ==
  /\ r \in ranges
  /\ ranges' = ranges \ {r}

Next == \E r \in Ranges : Add(r) \/ Remove(r)

Step == [Next]_ranges
Spec == Init /\ [][Next]_ranges
=============================================================================
