------------------------------ MODULE DynArray ------------------------------
(***************************************************************************)
(* Dynamic arrays (lib/dyn_array.c) and the mailbox that owns one          *)
(* (lib/mailbox.c), in pages that they share with the rest of the kernel.  *)
(* An element's size is given by how many fit into a page.                 *)
(***************************************************************************)
EXTENDS Integers, Sequences, FiniteSets

CONSTANTS
  Arrays,    \* structures dyn_array_t
  Pages,
  Values,
  MaxElems,  \* max_elems_in_page()
  Caps,      \* initial capacities that callers ask for
  Junk,      \* what a cell of a fresh page may hold
  mb,        \* the structure of the mailbox, which nobody else names
  None       \* no page

\* What every instance assumes of the constants (the MC modules state it).
SizeAssumption == MaxElems \in Nat \ {0} /\ Caps \subseteq Nat /\ Junk \notin Values
NameAssumption == None \notin Pages /\ mb \in Arrays

VARIABLES
  arr,    \* the structures, and the page a heap-allocated one is in
  mem,    \* the cells of a page
  use,    \* what a page is for: "free", "data", "header", "mailbox", "other"
  mailbox \* page of the mailbox

vars == <<arr, mem, use, mailbox>>

NoArray == [data |-> None, len |-> 0, cap |-> 0, is_initialized |-> FALSE, header |-> None]
Free == {p \in Pages : use[p] = "free"}

Init ==
  /\ arr = [a \in Arrays |-> NoArray]
  /\ mem = [p \in Pages |-> [i \in 1..MaxElems |-> Junk]]
  /\ use = [p \in Pages |-> "free"]
  /\ mailbox = None

-----------------------------------------------------------------------------
(***************************************************************************)
(* Making and freeing                                                      *)
(***************************************************************************)
Fits(cap) == cap > 0 /\ cap <= MaxElems

Made(a, p, cap, header) ==
  arr' = [arr EXCEPT ![a] = [data |-> p, len |-> 0, cap |-> cap, is_initialized |-> TRUE,
                             header |-> header]]

\* Callers set up a structure that is not set up already: the call does not look, and
\* would lose the page it had.
dyn_array_init(a, cap) ==
  /\ arr[a] = NoArray
  /\ Fits(cap)
  /\ \E p \in Free :
       /\ use' = [use EXCEPT ![p] = "data"]
       /\ Made(a, p, cap, None)
  /\ UNCHANGED <<mem, mailbox>>

\* When the second page cannot be had, or the capacity is wrong, the first is given back.
make_dyn_array(a, cap) ==
  /\ arr[a] = NoArray
  /\ Fits(cap)
  /\ \E h, p \in Free :
       /\ h # p
       /\ use' = [use EXCEPT ![h] = "header", ![p] = "data"]
       /\ Made(a, p, cap, h)
  /\ UNCHANGED <<mem, mailbox>>

\* A caller that has the structure on the heap frees it next.
dyn_array_free(a) ==
  /\ arr[a].is_initialized /\ a # mb
  /\ use' = [p \in Pages |-> IF p \in {arr[a].data, arr[a].header} THEN "free" ELSE use[p]]
  /\ arr' = [arr EXCEPT ![a] = NoArray]
  /\ UNCHANGED <<mem, mailbox>>

\* Three pages, or none.
make_mailbox ==
  /\ mailbox = None
  /\ \E m, h, p \in Free :
       /\ Cardinality({m, h, p}) = 3
       /\ use' = [use EXCEPT ![m] = "mailbox", ![h] = "header", ![p] = "data"]
       /\ mailbox' = m
       /\ \E cap \in Caps : Fits(cap) /\ Made(mb, p, cap, h)
  /\ UNCHANGED mem

-----------------------------------------------------------------------------
(***************************************************************************)
(* Elements                                                                *)
(***************************************************************************)
Push(a, p, v) == mem' = [mem EXCEPT ![p][arr[a].len + 1] = v]

PushInPlace(a, v) ==
  /\ arr[a].is_initialized /\ arr[a].len < arr[a].cap
  /\ Push(a, arr[a].data, v)
  /\ arr' = [arr EXCEPT ![a].len = @ + 1]
  /\ UNCHANGED <<use, mailbox>>

\* Mutant: the elements are not copied.
M_grow_forgets(a, p, v) == [mem[p] EXCEPT ![arr[a].len + 1] = v]

\* What the new page holds: the old elements, then the new one.
Grown(a, p, v) ==
  [i \in 1..MaxElems |-> IF i <= arr[a].len THEN mem[arr[a].data][i]
                         ELSE IF i = arr[a].len + 1 THEN v ELSE mem[p][i]]

\* Mutant: the old page is not freed.
M_push_leaks(a, v) ==
  /\ arr[a].is_initialized /\ arr[a].len = arr[a].cap
  /\ Fits(2 * arr[a].cap)
  /\ \E p \in Free :
       /\ mem' = [mem EXCEPT ![p] = Grown(a, p, v)]
       /\ use' = [use EXCEPT ![p] = "data"]
       /\ arr' = [arr EXCEPT ![a].data = p, ![a].cap = 2 * @, ![a].len = @ + 1]
  /\ UNCHANGED mailbox

\* Without a page, or past the page, nothing changes.
PushGrows(a, v) ==
  /\ arr[a].is_initialized /\ arr[a].len = arr[a].cap
  /\ Fits(2 * arr[a].cap)
  /\ \E p \in Free :
       /\ mem' = [mem EXCEPT ![p] = Grown(a, p, v)]
       /\ use' = [use EXCEPT ![p] = "data", ![arr[a].data] = "free"]
       /\ arr' = [arr EXCEPT ![a].data = p, ![a].cap = 2 * @, ![a].len = @ + 1]
  /\ UNCHANGED mailbox

dyn_array_push(a, v) == PushInPlace(a, v) \/ PushGrows(a, v)

dyn_array_get(a, i) == IF i < arr[a].len THEN mem[arr[a].data][i + 1] ELSE Junk

dyn_array_clear(a) ==
  /\ arr[a].is_initialized
  /\ arr' = [arr EXCEPT ![a].len = 0]
  /\ UNCHANGED <<mem, use, mailbox>>

\* The rest of the kernel takes a page, writes into it, or gives it back.
Other ==
  /\ \E p \in Pages :
       /\ use[p] \in {"free", "other"}
       /\ use' = [use EXCEPT ![p] = IF @ = "free" THEN "other" ELSE "free"]
       /\ mem' = [mem EXCEPT ![p] = [i \in 1..MaxElems |-> Junk]]
  /\ UNCHANGED <<arr, mailbox>>

-----------------------------------------------------------------------------
Call(a, values) ==
  \/ \E cap \in Caps : a # mb /\ (dyn_array_init(a, cap) \/ make_dyn_array(a, cap))
  \/ dyn_array_free(a) \/ dyn_array_clear(a)
  \/ \E v \in values : dyn_array_push(a, v)

\* A mix of calls may have only some of the values.
NextOf(values) == make_mailbox \/ Other \/ \E a \in Arrays : Call(a, values)

Next == NextOf(Values)

Spec == Init /\ [][Next]_vars

-----------------------------------------------------------------------------
(***************************************************************************)
(* Properties                                                              *)
(***************************************************************************)
TypeOK ==
  /\ \A a \in Arrays :
       /\ arr[a].data \in Pages \cup {None} /\ arr[a].header \in Pages \cup {None}
       /\ arr[a].cap \in 0..MaxElems /\ arr[a].len \in 0..arr[a].cap
       /\ arr[a].is_initialized = (arr[a].data # None)
  /\ use \in [Pages -> {"free", "data", "header", "mailbox", "other"}]
  /\ mem \in [Pages -> [1..MaxElems -> Values \cup {Junk}]]
  /\ mailbox \in Pages \cup {None}

\* Every page that is not free or somebody else's belongs to one structure, and no
\* structure has a page that is free: growing neither leaks nor frees twice, and a call
\* that fails keeps what it had.
PagesHaveOneOwner ==
  /\ \A p \in Pages : use[p] = "data"   <=> Cardinality({a \in Arrays : arr[a].data = p}) = 1
  /\ \A p \in Pages : use[p] = "header" <=> Cardinality({a \in Arrays : arr[a].header = p}) = 1
  /\ \A p \in Pages : use[p] = "mailbox" <=> p = mailbox

Contents(a) == [i \in 1..arr[a].len |-> dyn_array_get(a, i - 1)]

vector == [a \in Arrays |-> Contents(a)]
made   == {a \in Arrays : arr[a].is_initialized}

Vector == INSTANCE AbstractVectors WITH Vectors <- Arrays, Most <- MaxElems

\* The arrays are sequences that keep what was pushed, in order, whatever happens to the
\* pages they once had.
ImplementsAbstractVectors == Vector!Spec

\* Every array has a length within its capacity, and pages of its own.
ArraysAreSound == TypeOK /\ PagesHaveOneOwner
=============================================================================
