-------------------------- MODULE AbstractVectors --------------------------
(***************************************************************************)
(* What dynamic arrays promise: each that is made is a sequence of values  *)
(* no longer than Most, and a call changes one of them.                    *)
(***************************************************************************)
EXTENDS Sequences, Integers

CONSTANTS Vectors, Values, Most

VARIABLES made, vector

Init == made = {} /\ vector = [a \in Vectors |-> <<>>]

\* Made anew, or emptied.
Make(a) ==
  /\ made' = made \cup {a}
  /\ vector' = [vector EXCEPT ![a] = <<>>]

Free(a) ==
  /\ made' = made \ {a}
  /\ vector' = [vector EXCEPT ![a] = <<>>]

Push(a, v) ==
  /\ a \in made
  /\ Len(vector[a]) < Most
  /\ vector' = [vector EXCEPT ![a] = Append(@, v)]
  /\ UNCHANGED made

Next == \E a \in Vectors : Make(a) \/ Free(a) \/ \E v \in Values : Push(a, v)

Step == [Next]_<<made, vector>>
Spec == Init /\ [][Next]_<<made, vector>>
=============================================================================
