---------------------------- MODULE SpaceProofs ----------------------------
(***************************************************************************)
(* Proofs about the parts of MCSpaces.  PageTable, for any number of       *)
(* entries, pages and callers' addresses: what is below a root stays a     *)
(* tree of tables whatever fails and whatever becomes of other pages, so   *)
(* that a call changes one slot of one address space, and the answers of   *)
(* calls are right.  And Mmio (here Ranges), for any ranges at page        *)
(* boundaries and any page size: the pages of the ranges, the set they     *)
(* are, and where accesses go.                                             *)
(***************************************************************************)
EXTENDS MCSpaces, SequenceTheorems, FunctionTheorems, FiniteSetTheorems, TLAPS

Ops == {"map", "unmap", "find", "mapped"}

(***************************************************************************)
(* The invariant of PageTable                                              *)
(***************************************************************************)
\* What is below a root, as the properties say it.
Tree == TypeOK /\ TablesPointDown /\ TablesAreNotShared

\* The tables on the way from root r to slot s, and whether they are there.
Middle(r, s)    == mem[r][s[2]].ppn
Lowest(r, s)    == mem[Middle(r, s)][s[1]].ppn
HasMiddle(r, s) == mem[r][s[2]].kind # "none"
HasLowest(r, s) == HasMiddle(r, s) /\ mem[Middle(r, s)][s[1]].kind # "none"

\* A call stands at the table of its level on the way to its page.
CallInv ==
  ~Ready =>
    /\ use[call.root] = 2 /\ use[call.table] = call.level
    /\ call.op \in {"find", "mapped"} => call.n = 0
    /\ call.level = 2 => call.table = call.root
    /\ call.level = 1 => HasMiddle(call.root, Vpn) /\ call.table = Middle(call.root, Vpn)
    /\ call.level = 0 => HasLowest(call.root, Vpn) /\ call.table = Lowest(call.root, Vpn)

\* A result is forgotten when the next call begins.
LastInv == last # Idle => Ready /\ use[last.root] = 2

IInv == Tree /\ CallInv /\ LastInv /\ LookupsAreRight

(***************************************************************************)
(* Addresses and records                                                   *)
(***************************************************************************)
\* Every page number has a slot.
LEMMA VpnType == ASSUME NEW va \in Nat PROVE get_vpn_indices(va) \in Slots
<1>1. ASSUME NEW x \in Int PROVE x % ENTRIES \in Index
  BY <1>1, EntriesAssumption DEF Index
<1>2. va \div ENTRIES \in Int
  BY EntriesAssumption
<1>3. ENTRIES * ENTRIES \in Nat \ {0}
  BY EntriesAssumption
<1>4. va \div (ENTRIES * ENTRIES) \in Int
  BY <1>3
<1> QED
  BY <1>1, <1>2, <1>4 DEF get_vpn_indices, Slots

LEMMA EntryTypes ==
  /\ NoPTE \in PTE
  /\ Table \in [Index -> PTE]
  /\ \A pa \in Nat : Leaf(pa) \in PTE
  /\ \A f \in Frames : Pointer(f) \in PTE
BY DEF NoPTE, Table, Leaf, Pointer, PTE

\* A call one level further down, and at the root again for another page.
Down(c, t, l) == [c EXCEPT !.table = t, !.level = l]
Again(c, n)   == [c EXCEPT !.n = n, !.level = 2, !.table = c.root]

LEMMA DownIs ==
  ASSUME NEW c \in Calls, NEW t \in Frames, NEW l \in Levels, NEW d, d = Down(c, t, l)
  PROVE  /\ d \in Calls
         /\ d.op = c.op /\ d.root = c.root /\ d.va = c.va /\ d.pa = c.pa
         /\ d.pages = c.pages /\ d.n = c.n /\ d.level = l /\ d.table = t
<1>1. d \in Calls
  BY DEF Calls, Down
<1> QED
  BY <1>1 DEF Calls, Down

LEMMA AgainIs ==
  ASSUME NEW c \in Calls, NEW n \in Nat, NEW d, d = Again(c, n)
  PROVE  /\ d \in Calls
         /\ d.op = c.op /\ d.root = c.root /\ d.va = c.va /\ d.pa = c.pa
         /\ d.pages = c.pages /\ d.n = n /\ d.level = 2 /\ d.table = c.root
<1>0. c.root \in Frames /\ 2 \in Levels
  BY DEF Calls, Levels
<1>1. d \in Calls
  BY <1>0 DEF Calls, Again
<1> QED
  BY <1>1 DEF Calls, Again

LEMMA CallOrIdle ==
  ASSUME TypeOK
  PROVE  /\ ~Ready => call \in Calls /\ call.op \in Ops
         /\ last # Idle => last \in Results /\ last.op \in Ops
BY DEF TypeOK, Ready, Calls, Results, Idle, Ops

\* A lookup follows the way to the slot.
LEMMA WalkIs ==
  ASSUME NEW r, NEW s
  PROVE  Walk(r, s) = IF HasLowest(r, s) /\ mem[Lowest(r, s)][s[0]].kind # "none"
                      THEN mem[Lowest(r, s)][s[0]] ELSE NoPTE
BY DEF Walk, HasLowest, HasMiddle, Lowest, Middle

LEMMA WalkNext ==
  ASSUME NEW r, NEW s
  PROVE  Walk(r, s)' = IF HasLowest(r, s)' /\ mem'[Lowest(r, s)'][s[0]].kind # "none"
                       THEN mem'[Lowest(r, s)'][s[0]] ELSE NoPTE
BY DEF Walk, HasLowest, HasMiddle, Lowest, Middle

-----------------------------------------------------------------------------
(***************************************************************************)
(* The tree                                                                *)
(***************************************************************************)
\* The way leads down by one level with each step.
LEMMA Way ==
  ASSUME Tree, NEW r \in Frames, use[r] = 2, NEW s \in Slots
  PROVE  /\ HasMiddle(r, s) => Middle(r, s) \in Frames /\ use[Middle(r, s)] = 1
         /\ HasLowest(r, s) => Lowest(r, s) \in Frames /\ use[Lowest(r, s)] = 0
<1>1. s[2] \in Index /\ s[1] \in Index
  BY DEF Slots, Levels
<1>2. HasMiddle(r, s) => Middle(r, s) \in Frames /\ use[Middle(r, s)] = 1
  <2>1. r \in Inner
    BY DEF Inner
  <2>2. HasMiddle(r, s) => s[2] \in Entries(r)
    BY <1>1 DEF HasMiddle, Entries
  <2> QED
    BY <2>1, <2>2 DEF Tree, TablesPointDown, Middle
<1>3. HasLowest(r, s) => Lowest(r, s) \in Frames /\ use[Lowest(r, s)] = 0
  <2> SUFFICES ASSUME HasLowest(r, s)
               PROVE  Lowest(r, s) \in Frames /\ use[Lowest(r, s)] = 0
    OBVIOUS
  <2>1. Middle(r, s) \in Inner
    BY <1>2 DEF Inner, HasLowest
  <2>2. s[1] \in Entries(Middle(r, s))
    BY <1>1 DEF HasLowest, Entries
  <2> QED
    BY <2>1, <2>2, <1>2 DEF Tree, TablesPointDown, Lowest, HasLowest
<1> QED
  BY <1>2, <1>3

\* Two ways to the same table are one.
LEMMA OneWay ==
  ASSUME Tree, NEW q \in Frames, NEW r \in Frames, use[q] = 2, use[r] = 2,
         NEW s \in Slots, NEW t \in Slots
  PROVE  /\ HasMiddle(q, s) /\ HasMiddle(r, t) /\ Middle(q, s) = Middle(r, t)
              => q = r /\ s[2] = t[2]
         /\ HasLowest(q, s) /\ HasLowest(r, t) /\ Lowest(q, s) = Lowest(r, t)
              => q = r /\ s[2] = t[2] /\ s[1] = t[1]
<1>1. /\ s[2] \in Index /\ s[1] \in Index
      /\ t[2] \in Index /\ t[1] \in Index
  BY DEF Slots, Levels
<1>2. HasMiddle(q, s) /\ HasMiddle(r, t) /\ Middle(q, s) = Middle(r, t)
        => q = r /\ s[2] = t[2]
  <2>1. q \in Inner /\ r \in Inner
    BY DEF Inner
  <2>2. /\ HasMiddle(q, s) => s[2] \in Entries(q)
        /\ HasMiddle(r, t) => t[2] \in Entries(r)
    BY <1>1 DEF HasMiddle, Entries
  <2> QED
    BY <2>1, <2>2 DEF Tree, TablesAreNotShared, Middle
<1>3. HasLowest(q, s) /\ HasLowest(r, t) /\ Lowest(q, s) = Lowest(r, t)
        => q = r /\ s[2] = t[2] /\ s[1] = t[1]
  <2> SUFFICES ASSUME HasLowest(q, s), HasLowest(r, t), Lowest(q, s) = Lowest(r, t)
               PROVE  q = r /\ s[2] = t[2] /\ s[1] = t[1]
    OBVIOUS
  <2>1. Middle(q, s) \in Inner /\ Middle(r, t) \in Inner
    BY Way DEF Inner, HasLowest
  <2>2. s[1] \in Entries(Middle(q, s)) /\ t[1] \in Entries(Middle(r, t))
    BY <1>1 DEF HasLowest, Entries
  <2>3. Middle(q, s) = Middle(r, t) /\ s[1] = t[1]
    BY <2>1, <2>2 DEF Tree, TablesAreNotShared, Lowest
  <2> QED
    BY <1>2, <2>3 DEF HasLowest
<1> QED
  BY <1>2, <1>3

LEMMA CallFacts ==
  ASSUME Tree, CallInv, ~Ready
  PROVE  /\ call \in Calls /\ call.op \in Ops
         /\ call.root \in Frames /\ use[call.root] = 2
         /\ call.table \in Frames /\ use[call.table] = call.level
         /\ call.level \in Levels
         /\ call.va \in VirtPages /\ call.va \in Nat /\ call.n \in Nat /\ call.pa \in Nat
         /\ Vpn \in Slots
         /\ Vpn[call.level] \in Index
         /\ mem[call.table] \in [Index -> PTE]
         /\ Entry \in PTE
<1>1. call \in Calls /\ call.op \in Ops
  BY CallOrIdle DEF Tree
<1>2. /\ call.root \in Frames /\ call.table \in Frames
      /\ call.level \in Levels
      /\ call.va \in VirtPages /\ call.n \in Nat /\ call.pa \in Nat
  BY <1>1 DEF Calls
<1>3. call.va \in Nat
  BY <1>2, VirtAssumption
<1>4. call.va + call.n \in Nat
  BY <1>2, <1>3
<1>5. Vpn \in Slots
  BY <1>4, VpnType DEF Vpn
<1>6. Vpn[call.level] \in Index
  BY <1>2, <1>5 DEF Slots
<1>7. mem[call.table] \in [Index -> PTE]
  BY <1>2 DEF Tree, TypeOK
<1> QED
  BY <1>1, <1>2, <1>3, <1>5, <1>6, <1>7 DEF CallInv, Entry

\* A new entry of a lowest table shows in the slot of the call and nowhere else.
LEMMA OneSlot ==
  ASSUME Tree, CallInv, ~Ready, call.level = 0, NEW e \in PTE, Put(e), use' = use
  PROVE  /\ mem' \in [Frames -> [Index -> PTE]]
         /\ TablesPointDown' /\ TablesAreNotShared'
         /\ \A r \in Frames, s \in Slots : use[r] = 2 =>
              Walk(r, s)' = IF r = call.root /\ s = Vpn
                            THEN IF e.kind # "none" THEN e ELSE NoPTE
                            ELSE Walk(r, s)
<1> DEFINE at == call.table
           i  == Vpn[0]
<1>1. at \in Frames /\ use[at] = 0 /\ i \in Index
  BY CallFacts
<1>2. /\ mem \in [Frames -> [Index -> PTE]]
      /\ mem' = [mem EXCEPT ![at] = [mem[at] EXCEPT ![i] = e]]
  BY DEF Put, Tree, TypeOK
<1> HIDE DEF at, i
<1>3. /\ \A t \in Frames : t # at => mem'[t] = mem[t]
      /\ mem'[at][i] = e
      /\ \A j \in Index : j # i => mem'[at][j] = mem[at][j]
      /\ mem' \in [Frames -> [Index -> PTE]]
  BY <1>1, <1>2
<1>4. Inner' = Inner /\ \A t \in Inner : mem'[t] = mem[t]
  BY <1>1, <1>3 DEF Inner
<1>5. TablesPointDown' /\ TablesAreNotShared'
  BY <1>4 DEF Tree, TablesPointDown, TablesAreNotShared, Entries
<1>6. ASSUME NEW r \in Frames, NEW s \in Slots, use[r] = 2
      PROVE  Walk(r, s)' = IF r = call.root /\ s = Vpn
                           THEN IF e.kind # "none" THEN e ELSE NoPTE
                           ELSE Walk(r, s)
  <2>1. mem'[r] = mem[r] /\ (HasMiddle(r, s) => mem'[Middle(r, s)] = mem[Middle(r, s)])
    BY <1>1, <1>3, <1>6, Way
  <2>2. Walk(r, s)' = IF HasLowest(r, s) /\ mem'[Lowest(r, s)][s[0]].kind # "none"
                      THEN mem'[Lowest(r, s)][s[0]] ELSE NoPTE
    <3>1. Walk(r, s)' = IF HasLowest(r, s)' /\ mem'[Lowest(r, s)'][s[0]].kind # "none"
                        THEN mem'[Lowest(r, s)'][s[0]] ELSE NoPTE
      BY WalkNext
    <3> QED
      BY <2>1, <3>1 DEF HasLowest, HasMiddle, Lowest, Middle
  <2>3. s[0] \in Index
    BY DEF Slots, Levels
  <2>4. HasLowest(call.root, Vpn) /\ at = Lowest(call.root, Vpn)
    BY DEF CallInv, at
  <2>5. CASE r = call.root /\ s = Vpn
    BY <1>3, <2>2, <2>4, <2>5 DEF i
  <2>6. CASE ~(r = call.root /\ s = Vpn)
    <3>1. HasLowest(r, s) => Lowest(r, s) # at \/ s[0] # i
      <4> SUFFICES ASSUME HasLowest(r, s), Lowest(r, s) = at, s[0] = i
                   PROVE  FALSE
        OBVIOUS
      <4>1. r = call.root /\ s[2] = Vpn[2] /\ s[1] = Vpn[1]
        BY <1>6, <2>4, OneWay, CallFacts
      <4>2. s = Vpn
        BY <4>1, CallFacts DEF Slots, Levels, i
      <4> QED
        BY <2>6, <4>1, <4>2
    <3>2. HasLowest(r, s) => mem'[Lowest(r, s)][s[0]] = mem[Lowest(r, s)][s[0]]
      BY <1>1, <1>3, <1>6, <2>3, <3>1, Way
    <3> QED
      BY <2>2, <2>6, <3>2, WalkIs
  <2> QED
    BY <2>5, <2>6
<1> QED
  BY <1>3, <1>5, <1>6

\* A table that is added shows nowhere.
LEMMA NewTable ==
  ASSUME Tree, CallInv, NEW f \in Frames, MapAllocate(f)
  PROVE  /\ use' \in [Frames -> {FREE, DATA} \cup Levels]
         /\ mem' \in [Frames -> [Index -> PTE]]
         /\ TablesPointDown' /\ TablesAreNotShared'
         /\ \A r \in Frames : use'[r] = 2 <=> use[r] = 2
         /\ \A r \in Frames, s \in Slots : use[r] = 2 => Walk(r, s)' = Walk(r, s)
<1>a. PICK at \in Frames, l \in Levels, i \in Index :
        at = call.table /\ l = call.level /\ i = Vpn[l]
  BY CallFacts DEF MapAllocate
<1>1. /\ at \in Frames /\ use[at] = l /\ i \in Index /\ l \in {1, 2}
      /\ use[f] = FREE /\ at # f /\ mem[at][i].kind = "none"
  BY <1>a, CallFacts DEF MapAllocate, Levels, FREE, Entry
<1>2. /\ mem \in [Frames -> [Index -> PTE]]
      /\ use \in [Frames -> {FREE, DATA} \cup Levels]
      /\ mem' = [[mem EXCEPT ![f] = Table] EXCEPT ![at] = [@ EXCEPT ![i] = Pointer(f)]]
      /\ use' = [use EXCEPT ![f] = l - 1]
  BY <1>a DEF MapAllocate, Cleared, Tree, TypeOK
<1>3. mem' \in [Frames -> [Index -> PTE]] /\ use' \in [Frames -> {FREE, DATA} \cup Levels]
  BY <1>1, <1>2, EntryTypes DEF Levels
<1>4. /\ \A t \in Frames : t # at /\ t # f => mem'[t] = mem[t]
      /\ mem'[f] = Table
      /\ mem'[at][i] = Pointer(f)
      /\ \A j \in Index : j # i => mem'[at][j] = mem[at][j]
      /\ \A t \in Frames : t # f => use'[t] = use[t]
      /\ use'[f] = l - 1
  BY <1>1, <1>2
<1>5. /\ \A j \in Index : Table[j] = NoPTE
      /\ NoPTE.kind = "none" /\ Pointer(f).kind = "table" /\ Pointer(f).ppn = f
  BY DEF Table, NoPTE, Pointer
<1>6. /\ Inner' \subseteq Inner \cup {f} /\ at \in Inner /\ f \notin Inner
      /\ Entries(f)' = {}
      /\ Entries(at)' = Entries(at) \cup {i}
      /\ \A t \in Inner : t # at => Entries(t)' = Entries(t)
  <2>1. Inner' \subseteq Inner \cup {f} /\ at \in Inner /\ f \notin Inner
    BY <1>1, <1>4 DEF Inner, FREE
  <2>2. Entries(f)' = {}
    BY <1>4, <1>5 DEF Entries
  <2>3. Entries(at)' = Entries(at) \cup {i}
    BY <1>1, <1>4, <1>5 DEF Entries
  <2>4. \A t \in Inner : t # at => Entries(t)' = Entries(t)
    BY <1>1, <1>4, <2>1 DEF Entries, Inner
  <2> QED
    BY <2>1, <2>2, <2>3, <2>4
<1>7. \A t \in Inner : \A j \in Entries(t) :
        /\ mem[t][j].kind = "table" /\ mem[t][j].ppn \in Frames /\ mem[t][j].ppn # f
        /\ use[mem[t][j].ppn] = use[t] - 1
        /\ mem'[t][j] = mem[t][j]
  <2> SUFFICES ASSUME NEW t \in Inner, NEW j \in Entries(t)
               PROVE  /\ mem[t][j].kind = "table" /\ mem[t][j].ppn \in Frames /\ mem[t][j].ppn # f
                      /\ use[mem[t][j].ppn] = use[t] - 1
                      /\ mem'[t][j] = mem[t][j]
    OBVIOUS
  <2>1. /\ mem[t][j].kind = "table" /\ mem[t][j].ppn \in Frames
        /\ use[mem[t][j].ppn] = use[t] - 1
    BY DEF Tree, TablesPointDown
  <2>2. use[t] \in {1, 2} /\ t \in Frames
    BY DEF Inner
  <2>3. j \in Index /\ mem[t][j].kind # "none"
    BY DEF Entries
  <2> QED
    BY <1>1, <1>4, <1>6, <2>1, <2>2, <2>3 DEF FREE
<1>8. TablesPointDown'
  <2> SUFFICES ASSUME NEW t \in Inner', NEW j \in Entries(t)'
               PROVE  /\ mem'[t][j].kind = "table"
                      /\ mem'[t][j].ppn \in Frames
                      /\ use'[mem'[t][j].ppn] = use'[t] - 1
    BY DEF TablesPointDown
  <2>1. t \in Inner /\ t # f
    BY <1>6
  <2>2. CASE t = at /\ j = i
    BY <1>1, <1>4, <1>5, <2>2
  <2>3. CASE ~(t = at /\ j = i)
    <3>1. j \in Entries(t) /\ t \in Frames
      BY <1>6, <2>1, <2>3 DEF Inner
    <3> QED
      BY <1>4, <1>7, <2>1, <3>1
  <2> QED
    BY <2>2, <2>3
<1>9. TablesAreNotShared'
  <2> SUFFICES ASSUME NEW t \in Inner', NEW u \in Inner', NEW j \in Entries(t)', NEW k \in Entries(u)',
                      mem'[t][j].ppn = mem'[u][k].ppn
               PROVE  t = u /\ j = k
    BY DEF TablesAreNotShared
  <2>1. t \in Inner /\ u \in Inner
    BY <1>6
  <2>2. /\ (t = at /\ j = i) \/ j \in Entries(t)
        /\ (u = at /\ k = i) \/ k \in Entries(u)
    BY <1>6, <2>1
  <2> QED
    BY <1>4, <1>5, <1>7, <2>1, <2>2 DEF Tree, TablesAreNotShared
<1>10. \A r \in Frames : use'[r] = 2 <=> use[r] = 2
  BY <1>1, <1>4 DEF FREE
<1>11. ASSUME NEW r \in Frames, NEW s \in Slots, use[r] = 2
       PROVE  Walk(r, s)' = Walk(r, s)
  <2>1. /\ s[2] \in Index /\ s[1] \in Index /\ s[0] \in Index
        /\ r # f
    BY <1>1, <1>11 DEF Slots, Levels, FREE
  <2>2. Walk(r, s)' = IF HasLowest(r, s)' /\ mem'[Lowest(r, s)'][s[0]].kind # "none"
                      THEN mem'[Lowest(r, s)'][s[0]] ELSE NoPTE
    BY WalkNext
  <2>3. CASE r = at /\ s[2] = i
    <3>1. ~HasMiddle(r, s) /\ Middle(r, s)' = f
      BY <1>1, <1>4, <1>5, <2>3 DEF HasMiddle, Middle
    <3>2. ~HasLowest(r, s)' /\ ~HasLowest(r, s)
      BY <1>4, <1>5, <2>1, <3>1 DEF HasLowest
    <3> QED
      BY <2>2, <3>2, WalkIs
  <2>4. CASE ~(r = at /\ s[2] = i)
    <3>1. mem'[r][s[2]] = mem[r][s[2]]
      BY <1>1, <1>4, <2>1, <2>4
    <3>2. (HasMiddle(r, s)' <=> HasMiddle(r, s)) /\ Middle(r, s)' = Middle(r, s)
      BY <3>1 DEF HasMiddle, Middle
    <3>3. CASE ~HasMiddle(r, s)
      BY <2>2, <3>2, <3>3, WalkIs DEF HasLowest
    <3>4. CASE HasMiddle(r, s) /\ Middle(r, s) = at /\ s[1] = i
      <4>1. ~HasLowest(r, s) /\ HasLowest(r, s)' /\ Lowest(r, s)' = f
        BY <1>1, <1>4, <1>5, <3>2, <3>4 DEF HasLowest, Lowest
      <4>2. mem'[Lowest(r, s)'][s[0]].kind = "none"
        BY <1>4, <1>5, <2>1, <4>1
      <4> QED
        BY <2>2, <4>1, <4>2, WalkIs
    <3>5. CASE HasMiddle(r, s) /\ ~(Middle(r, s) = at /\ s[1] = i)
      <4>1. Middle(r, s) \in Frames /\ Middle(r, s) # f
        BY <1>1, <1>11, <3>5, Way DEF FREE
      <4>2. mem'[Middle(r, s)][s[1]] = mem[Middle(r, s)][s[1]]
        BY <1>1, <1>4, <2>1, <3>5, <4>1
      <4>3. /\ HasLowest(r, s)' <=> HasLowest(r, s)
            /\ Lowest(r, s)' = Lowest(r, s)
        BY <3>2, <4>2 DEF HasLowest, Lowest
      <4>4. HasLowest(r, s) => mem'[Lowest(r, s)] = mem[Lowest(r, s)]
        BY <1>1, <1>4, <1>11, Way DEF FREE
      <4> QED
        BY <2>2, <4>3, <4>4, WalkIs
    <3> QED
      BY <3>3, <3>4, <3>5
  <2> QED
    BY <2>3, <2>4
<1> QED
  BY <1>3, <1>8, <1>9, <1>10, <1>11

\* A page that is no table but perhaps a root becomes another such page.
LEMMA OtherPage ==
  ASSUME Tree, NEW f \in Frames, NEW u \in {FREE, DATA, 2}, NEW j \in [Index -> PTE],
         use[f] \in {FREE, DATA, 2}, u = 2 => j = Table,
         use' = [use EXCEPT ![f] = u], mem' = [mem EXCEPT ![f] = j]
  PROVE  /\ use' \in [Frames -> {FREE, DATA} \cup Levels]
         /\ mem' \in [Frames -> [Index -> PTE]]
         /\ TablesPointDown' /\ TablesAreNotShared'
         /\ \A r \in Frames, s \in Slots : r # f /\ use[r] = 2 =>
              /\ HasMiddle(r, s)' <=> HasMiddle(r, s)
              /\ Middle(r, s)' = Middle(r, s)
              /\ HasLowest(r, s)' <=> HasLowest(r, s)
              /\ HasLowest(r, s) => Lowest(r, s)' = Lowest(r, s)
              /\ Walk(r, s)' = Walk(r, s)
<1>1. /\ mem \in [Frames -> [Index -> PTE]] /\ use \in [Frames -> {FREE, DATA} \cup Levels]
      /\ use' \in [Frames -> {FREE, DATA} \cup Levels]
      /\ mem' \in [Frames -> [Index -> PTE]]
  BY DEF Tree, TypeOK, Levels
<1>2. \A t \in Frames : t # f => mem'[t] = mem[t] /\ use'[t] = use[t]
  BY <1>1
<1>3. mem'[f] = j /\ use'[f] = u
  BY <1>1
<1>4. Inner' \subseteq Inner \cup {f}
  BY <1>2 DEF Inner
<1>5. f \in Inner' => Entries(f)' = {}
  BY <1>3 DEF Inner, Entries, Table, NoPTE, FREE, DATA
<1>6. \A t \in Inner' : t # f => t \in Inner /\ Entries(t)' = Entries(t) /\ use'[t] = use[t]
  BY <1>2 DEF Inner, Entries
<1>7. \A t \in Inner : \A i \in Entries(t) :
        /\ mem[t][i].kind = "table" /\ mem[t][i].ppn \in Frames
        /\ use[mem[t][i].ppn] = use[t] - 1 /\ mem[t][i].ppn # f
  BY DEF Tree, TablesPointDown, Inner, FREE, DATA
<1>8. TablesPointDown'
  <2> SUFFICES ASSUME NEW t \in Inner', NEW i \in Entries(t)'
               PROVE  /\ mem'[t][i].kind = "table"
                      /\ mem'[t][i].ppn \in Frames
                      /\ use'[mem'[t][i].ppn] = use'[t] - 1
    BY DEF TablesPointDown
  <2>1. t # f /\ t \in Inner /\ i \in Entries(t) /\ use'[t] = use[t] /\ t \in Frames
    BY <1>5, <1>6 DEF Inner
  <2> QED
    BY <1>2, <1>7, <2>1
<1>9. TablesAreNotShared'
  <2> SUFFICES ASSUME NEW t \in Inner', NEW v \in Inner', NEW i \in Entries(t)', NEW k \in Entries(v)',
                      mem'[t][i].ppn = mem'[v][k].ppn
               PROVE  t = v /\ i = k
    BY DEF TablesAreNotShared
  <2>1. /\ t # f /\ t \in Inner /\ i \in Entries(t) /\ t \in Frames
        /\ v # f /\ v \in Inner /\ k \in Entries(v) /\ v \in Frames
    BY <1>5, <1>6 DEF Inner
  <2> QED
    BY <1>2, <2>1 DEF Tree, TablesAreNotShared
<1>10. ASSUME NEW r \in Frames, NEW s \in Slots, r # f, use[r] = 2
       PROVE  /\ HasMiddle(r, s)' <=> HasMiddle(r, s)
              /\ Middle(r, s)' = Middle(r, s)
              /\ HasLowest(r, s)' <=> HasLowest(r, s)
              /\ HasLowest(r, s) => Lowest(r, s)' = Lowest(r, s)
              /\ Walk(r, s)' = Walk(r, s)
  <2>1. mem'[r] = mem[r]
    BY <1>2, <1>10
  <2>2. /\ HasMiddle(r, s)' <=> HasMiddle(r, s)
        /\ Middle(r, s)' = Middle(r, s)
    BY <2>1 DEF HasMiddle, Middle
  <2>3. HasMiddle(r, s) => mem'[Middle(r, s)] = mem[Middle(r, s)]
    BY <1>2, <1>10, Way DEF FREE, DATA
  <2>4. /\ HasLowest(r, s)' <=> HasLowest(r, s)
        /\ HasLowest(r, s) => Lowest(r, s)' = Lowest(r, s)
    BY <2>2, <2>3 DEF HasLowest, Lowest
  <2>5. HasLowest(r, s) => mem'[Lowest(r, s)] = mem[Lowest(r, s)]
    BY <1>2, <1>10, Way DEF FREE, DATA
  <2>6. Walk(r, s)' = IF HasLowest(r, s)' /\ mem'[Lowest(r, s)'][s[0]].kind # "none"
                      THEN mem'[Lowest(r, s)'][s[0]] ELSE NoPTE
    BY WalkNext
  <2> QED
    BY <2>2, <2>4, <2>5, <2>6, WalkIs
<1> QED
  BY <1>1, <1>8, <1>9, <1>10

-----------------------------------------------------------------------------
(***************************************************************************)
(* The steps                                                               *)
(***************************************************************************)
LEMMA Returned ==
  ASSUME Tree, CallInv, ~Ready, NEW ok \in BOOLEAN, NEW ppn \in Nat \cup Frames,
         Return(ok, ppn)
  PROVE  /\ call' = Idle /\ last' \in Results /\ last' # Idle
         /\ last'.op = call.op /\ last'.root = call.root /\ last'.va = call.va
         /\ last'.pa = call.pa /\ last'.pages = call.pages
         /\ last'.ok = ok /\ last'.ppn = ppn
<1>1. last' = [op |-> call.op, root |-> call.root, va |-> call.va,
               pa |-> call.pa, pages |-> call.pages, ok |-> ok, ppn |-> ppn]
  BY DEF Return
<1>2. call \in Calls
  BY CallFacts
<1>3. /\ call.op \in {"map", "unmap", "find", "mapped"} /\ call.root \in Frames
      /\ call.va \in VirtPages /\ call.pa \in Nat /\ call.pages \in Nat
  BY <1>2 DEF Calls
<1>4. last' \in Results
  BY <1>1, <1>3 DEF Results
<1>5. call' = Idle
  BY DEF Return
<1> QED
  BY <1>1, <1>3, <1>4, <1>5 DEF Idle

LEMMA NextPageStep ==
  ASSUME Tree, CallInv, LastInv, ~Ready, NextPage, use' = use, call.op \in {"map", "unmap"}
  PROVE  /\ call' \in Calls \cup {Idle} /\ last' \in Results \cup {Idle}
         /\ CallInv' /\ LastInv' /\ LookupsAreRight'
<1>1. /\ call \in Calls /\ call.n \in Nat /\ call.root \in Frames /\ use[call.root] = 2
      /\ last = Idle
  BY CallFacts DEF LastInv
<1>2. CASE call.n + 1 < call.pages
  <2>1. call' = Again(call, call.n + 1) /\ last' = last
    BY <1>2 DEF NextPage, Again
  <2>2. /\ call' \in Calls /\ call'.op = call.op /\ call'.root = call.root
        /\ call'.level = 2 /\ call'.table = call.root
    <3>1. call \in Calls /\ call.n + 1 \in Nat
      BY <1>1
    <3>2. call' = Again(call, call.n + 1)
      BY <2>1
    <3>3. call' \in Calls
      BY <3>1, <3>2, AgainIs
    <3>4. call'.op = call.op /\ call'.root = call.root
      BY <3>1, <3>2, AgainIs
    <3>5. call'.level = 2 /\ call'.table = call.root
      BY <3>1, <3>2, AgainIs
    <3> QED
      BY <3>3, <3>4, <3>5
  <2> QED
    BY <1>1, <2>1, <2>2 DEF CallInv, LastInv, LookupsAreRight
<1>3. CASE ~(call.n + 1 < call.pages)
  <2>1. Return(TRUE, 0)
    BY <1>3 DEF NextPage
  <2>2. /\ call' = Idle /\ last' \in Results /\ last'.op = call.op /\ last'.root = call.root
    BY <2>1, Returned
  <2> QED
    BY <1>1, <2>2 DEF CallInv, LastInv, LookupsAreRight, Ready
<1> QED
  BY <1>2, <1>3

LEMMA Initially == Init => IInv
<1> SUFFICES ASSUME Init PROVE IInv
  OBVIOUS
<1>1. TypeOK
  BY JunkAssumption DEF Init, TypeOK
<1>2. Inner = {}
  BY DEF Init, Inner, FREE
<1> QED
  BY <1>1, <1>2 DEF Init, IInv, Tree, TablesPointDown, TablesAreNotShared, CallInv, LastInv,
                    LookupsAreRight, Ready

LEMMA Inductive == IInv /\ [Next]_vars => IInv'
<1> SUFFICES ASSUME IInv, [Next]_vars PROVE IInv'
  OBVIOUS
<1>t. Tree /\ CallInv /\ LastInv /\ LookupsAreRight /\ TypeOK
  BY DEF IInv, Tree
<1>l. last # Idle => /\ last \in Results /\ last.root \in Frames /\ use[last.root] = 2
                     /\ get_vpn_indices(last.va) \in Slots
  <2>1. last # Idle => last \in Results
    BY <1>t, CallOrIdle
  <2>2. last # Idle => last.root \in Frames /\ last.va \in VirtPages
    BY <2>1 DEF Results
  <2>3. last # Idle => last.va \in Nat
    BY <2>2, VirtAssumption
  <2> QED
    BY <1>t, <2>1, <2>2, <2>3, VpnType DEF LastInv
<1>1. ASSUME NEW f \in Frames, AllocPage(f) \/ FreePage(f) PROVE IInv'
  <2>1. PICK u \in {FREE, DATA}, j \in [Index -> PTE] :
          /\ use[f] \in {FREE, DATA} /\ use' = [use EXCEPT ![f] = u]
          /\ mem' = [mem EXCEPT ![f] = j] /\ call' = call /\ last' = last
    BY <1>1, JunkAssumption DEF AllocPage, FreePage, Scribbled
  <2>2. /\ use' \in [Frames -> {FREE, DATA} \cup Levels]
        /\ mem' \in [Frames -> [Index -> PTE]]
        /\ TablesPointDown' /\ TablesAreNotShared'
        /\ \A r \in Frames, s \in Slots : r # f /\ use[r] = 2 =>
             /\ HasMiddle(r, s)' <=> HasMiddle(r, s)
             /\ Middle(r, s)' = Middle(r, s)
             /\ HasLowest(r, s)' <=> HasLowest(r, s)
             /\ HasLowest(r, s) => Lowest(r, s)' = Lowest(r, s)
             /\ Walk(r, s)' = Walk(r, s)
    <3>1. u \in {FREE, DATA, 2} /\ use[f] \in {FREE, DATA, 2} /\ u # 2
      BY <2>1 DEF FREE, DATA
    <3> QED
      BY <1>t, <2>1, <3>1, OtherPage
  <2>3. \A t \in Frames : use[t] \in Levels => t # f /\ use'[t] = use[t]
    BY <1>t, <2>1 DEF TypeOK, FREE, DATA, Levels
  <2>4. Tree'
    BY <1>t, <2>1, <2>2 DEF Tree, TypeOK
  <2>5. CallInv'
    <3> SUFFICES ASSUME ~Ready PROVE CallInv'
      BY <2>1 DEF CallInv, Ready
    <3>1. Vpn' = Vpn
      BY <2>1 DEF Vpn
    <3>2. /\ call.root # f /\ use'[call.root] = 2 /\ use'[call.table] = call.level
      BY <1>t, <2>3, CallFacts DEF Levels
    <3> QED
      BY <1>t, <2>1, <2>2, <3>1, <3>2, CallFacts DEF CallInv, Ready
  <2>6. last # Idle => last.root # f /\ use'[last.root] = 2
    BY <1>l, <2>3 DEF Levels
  <2>7. LastInv' /\ LookupsAreRight'
    BY <1>t, <1>l, <2>1, <2>2, <2>6 DEF LastInv, LookupsAreRight, Ready
  <2> QED
    BY <2>4, <2>5, <2>7 DEF IInv
<1>2. ASSUME NEW f \in Frames, create_page_table(f) \/ FreeRoot(f) PROVE IInv'
  <2>1. PICK u \in {FREE, 2}, j \in [Index -> PTE] :
          /\ use[f] \in {FREE, 2} /\ use' = [use EXCEPT ![f] = u] /\ (u = 2 => j = Table)
          /\ mem' = [mem EXCEPT ![f] = j] /\ call = Idle /\ call' = call /\ last' = Idle
    BY <1>2, JunkAssumption, EntryTypes DEF create_page_table, FreeRoot, Scribbled, Cleared, FREE, Ready
  <2>2. /\ use' \in [Frames -> {FREE, DATA} \cup Levels]
        /\ mem' \in [Frames -> [Index -> PTE]]
        /\ TablesPointDown' /\ TablesAreNotShared'
    BY <1>t, <2>1, OtherPage
  <2> QED
    BY <2>1, <2>2 DEF IInv, Tree, TypeOK, CallInv, LastInv, LookupsAreRight, Ready
<1>3. ASSUME NEW op \in Ops, NEW r \in Frames, NEW va \in VirtPages, NEW pa \in Nat,
             NEW pages \in Nat, Call(op, r, va, pa, pages)
      PROVE  IInv'
  <2>1. /\ call' = [op |-> op, root |-> r, va |-> va, pa |-> pa, pages |-> pages,
                    n |-> 0, level |-> 2, table |-> r]
        /\ last' = Idle /\ use' = use /\ mem' = mem /\ use[r] = 2
    BY <1>3 DEF Call
  <2>2. call' \in Calls
    BY <2>1 DEF Calls, Levels, Ops
  <2>3. Tree'
    BY <1>t, <2>1, <2>2 DEF Tree, TypeOK, TablesPointDown, TablesAreNotShared, Inner, Entries
  <2> QED
    BY <2>1, <2>3 DEF IInv, CallInv, LastInv, LookupsAreRight
<1>4. ASSUME Descend PROVE IInv'
  <2>1. /\ ~Ready /\ call.level \in {1, 2} /\ Entry.kind # "none"
        /\ call' = Down(call, Entry.ppn, call.level - 1)
        /\ use' = use /\ mem' = mem /\ last' = last
    BY <1>4, <1>t, CallFacts DEF Descend, Levels, Down
  <2>2. /\ call.level = 2 => /\ HasMiddle(call.root, Vpn) /\ Entry.ppn = Middle(call.root, Vpn)
                             /\ use[Entry.ppn] = 1
        /\ call.level = 1 => /\ HasLowest(call.root, Vpn) /\ Entry.ppn = Lowest(call.root, Vpn)
                             /\ use[Entry.ppn] = 0
        /\ Entry.ppn \in Frames
    <3>1. call.level = 2 => HasMiddle(call.root, Vpn) /\ Entry.ppn = Middle(call.root, Vpn)
      BY <1>t, <2>1 DEF CallInv, Entry, HasMiddle, Middle
    <3>2. call.level = 1 => HasLowest(call.root, Vpn) /\ Entry.ppn = Lowest(call.root, Vpn)
      BY <1>t, <2>1 DEF CallInv, Entry, HasLowest, Lowest
    <3> QED
      BY <1>t, <2>1, <3>1, <3>2, Way, CallFacts
  <2>3. call.level - 1 \in Levels
    BY <2>1 DEF Levels
  <2>4. /\ call' \in Calls /\ call'.op = call.op /\ call'.root = call.root /\ call'.va = call.va
        /\ call'.n = call.n /\ call'.level = call.level - 1 /\ call'.table = Entry.ppn
    <3>1. call \in Calls /\ Entry.ppn \in Frames
      BY <1>t, <2>1, <2>2, CallFacts
    <3>2. call' = Down(call, Entry.ppn, call.level - 1)
      BY <2>1
    <3> QED
      BY <2>3, <3>1, <3>2, DownIs
  <2>5. Vpn' = Vpn
    BY <2>4 DEF Vpn
  <2>6. CallInv'
    <3>1. call.op \in {"find", "mapped"} => call.n = 0
      BY <1>t, <2>1 DEF CallInv
    <3>2. /\ HasMiddle(call.root, Vpn)' <=> HasMiddle(call.root, Vpn)
          /\ HasLowest(call.root, Vpn)' <=> HasLowest(call.root, Vpn)
          /\ Middle(call.root, Vpn)' = Middle(call.root, Vpn)
          /\ Lowest(call.root, Vpn)' = Lowest(call.root, Vpn)
      BY <2>1, <2>4, <2>5 DEF HasMiddle, HasLowest, Middle, Lowest
    <3>3. use'[call.root] = 2 /\ call'.level \in {0, 1} /\ use'[call'.table] = call'.level
      BY <1>t, <2>1, <2>2, <2>4, CallFacts
    <3> QED
      BY <2>1, <2>2, <2>4, <3>1, <3>2, <3>3 DEF CallInv
  <2>7. Tree'
    BY <1>t, <2>1, <2>4 DEF Tree, TypeOK, TablesPointDown, TablesAreNotShared, Inner, Entries
  <2>8. LastInv' /\ LookupsAreRight'
    BY <1>t, <2>1 DEF LastInv, LookupsAreRight
  <2> QED
    BY <2>6, <2>7, <2>8 DEF IInv
<1>5. ASSUME NEW f \in Frames, MapAllocate(f) PROVE IInv'
  <2>1. /\ ~Ready /\ call.level \in {1, 2} /\ use[f] = FREE
        /\ call' = Down(call, f, call.level - 1)
        /\ mem' = [Cleared(mem, f) EXCEPT ![call.table] = [@ EXCEPT ![Vpn[call.level]] = Pointer(f)]]
        /\ use' = [use EXCEPT ![f] = call.level - 1]
        /\ last' = last
    BY <1>5, <1>t, CallFacts DEF MapAllocate, Levels, Down
  <2>2. call.level - 1 \in Levels
    BY <2>1 DEF Levels
  <2>3. /\ call' \in Calls /\ call'.op = call.op /\ call'.root = call.root /\ call'.va = call.va
        /\ call'.n = call.n /\ call'.level = call.level - 1 /\ call'.table = f
    <3>1. call \in Calls
      BY <1>t, <2>1, CallFacts
    <3>2. call' = Down(call, f, call.level - 1)
      BY <2>1
    <3> QED
      BY <2>2, <3>1, <3>2, DownIs
  <2>4. Tree'
    BY <1>t, <1>5, <2>1, <2>3, NewTable DEF Tree, TypeOK
  <2>5. Vpn' = Vpn
    BY <2>3 DEF Vpn
  <2>6. /\ use'[call.root] = 2 /\ use'[f] = call.level - 1
        /\ mem'[call.table][Vpn[call.level]] = Pointer(f)
        /\ call.level = 1 => mem'[call.root] = mem[call.root]
    <3>1. use[call.root] = 2 /\ use[call.table] = call.level
      BY <1>t, <2>1 DEF CallInv
    <3>a. call.root # f /\ call.table # f
      BY <2>1, <3>1 DEF FREE
    <3>2. call.level = 1 => call.root # call.table
      BY <3>1
    <3>3. mem \in [Frames -> [Index -> PTE]] /\ use \in [Frames -> {FREE, DATA} \cup Levels]
      BY <1>t DEF TypeOK
    <3> QED
      BY <1>t, <2>1, <3>1, <3>a, <3>2, <3>3, CallFacts DEF Cleared
  <2>7. Pointer(f).kind = "table" /\ Pointer(f).ppn = f
    BY DEF Pointer
  <2>8. call.op = "map"
    BY <1>5 DEF MapAllocate
  <2>9. CallInv'
    <3>1. CASE call.level = 2
      <4>1. call.table = call.root
        BY <1>t, <2>1, <3>1 DEF CallInv
      <4>2. HasMiddle(call.root, Vpn)' /\ Middle(call.root, Vpn)' = f
        BY <2>3, <2>5, <2>6, <2>7, <3>1, <4>1 DEF HasMiddle, Middle
      <4> QED
        BY <2>3, <2>6, <2>8, <3>1, <4>2 DEF CallInv
    <3>2. CASE call.level = 1
      <4>1. HasMiddle(call.root, Vpn) /\ call.table = Middle(call.root, Vpn)
        BY <1>t, <2>1, <3>2 DEF CallInv
      <4>2. HasLowest(call.root, Vpn)' /\ Lowest(call.root, Vpn)' = f
        BY <2>3, <2>5, <2>6, <2>7, <3>2, <4>1 DEF HasMiddle, Middle, HasLowest, Lowest
      <4> QED
        BY <2>3, <2>6, <2>8, <3>2, <4>2 DEF CallInv
    <3> QED
      BY <2>1, <3>1, <3>2
  <2>10. last = Idle
    BY <1>t, <2>1 DEF LastInv
  <2> QED
    BY <2>1, <2>4, <2>9, <2>10 DEF IInv, LastInv, LookupsAreRight
<1>6. ASSUME MapFails \/ Missing \/ Found \/ Mapped PROVE IInv'
  <2>1. ~Ready /\ use' = use /\ mem' = mem /\ Entry \in PTE /\ Entry.ppn \in Nat \cup Frames
    BY <1>6, <1>t, CallFacts DEF MapFails, Missing, Found, Mapped, PTE
  <2>2. PICK ok \in BOOLEAN, ppn \in Nat \cup Frames : Return(ok, ppn) /\
          \/ MapFails
          \/ Missing /\ ~ok
          \/ Found /\ ok /\ ppn = Entry.ppn
          \/ Mapped /\ ok = (Entry.kind = "leaf") /\ ppn = Entry.ppn
    BY <1>6, <2>1 DEF MapFails, Missing, Found, Mapped
  <2>3. /\ call' = Idle /\ last' \in Results /\ last' # Idle
        /\ last'.op = call.op /\ last'.root = call.root /\ last'.va = call.va
        /\ last'.ok = ok /\ last'.ppn = ppn
    BY <1>t, <2>1, <2>2, Returned
  <2>4. Tree'
    BY <1>t, <2>1, <2>3 DEF Tree, TypeOK, TablesPointDown, TablesAreNotShared, Inner, Entries
  <2>5. CallInv' /\ LastInv'
    BY <1>t, <2>1, <2>3, CallFacts DEF CallInv, LastInv, Ready
  <2>6. LookupsAreRight'
    <3> SUFFICES ASSUME call.op \in {"find", "mapped"}
                 PROVE  LET e == Walk(call.root, get_vpn_indices(call.va))
                        IN ok = (e.kind = "leaf") /\ (ok => ppn = e.ppn)
      <4>1. Walk(last.root, get_vpn_indices(last.va))' = Walk(call.root, get_vpn_indices(call.va))
        BY <2>1, <2>3 DEF Walk
      <4> QED
        BY <2>3, <4>1 DEF LookupsAreRight
    <3>1. get_vpn_indices(call.va) = Vpn
      BY <1>t, <2>1, CallFacts DEF CallInv, Vpn
    <3>2. Entry.kind = "none" => Walk(call.root, Vpn) = NoPTE
      <4> SUFFICES ASSUME Entry.kind = "none" PROVE Walk(call.root, Vpn) = NoPTE
        OBVIOUS
      <4>1. call.level = 2 => ~HasMiddle(call.root, Vpn)
        BY <1>t, <2>1 DEF CallInv, Entry, HasMiddle
      <4>2. call.level = 1 => ~HasLowest(call.root, Vpn)
        BY <1>t, <2>1 DEF CallInv, Entry, HasLowest
      <4>3. call.level = 0 => mem[Lowest(call.root, Vpn)][Vpn[0]].kind = "none"
        BY <1>t, <2>1 DEF CallInv, Entry
      <4> QED
        BY <1>t, <2>1, <4>1, <4>2, <4>3, CallFacts, WalkIs DEF HasLowest, Levels
    <3>3. call.level = 0 /\ Entry.kind # "none" => Walk(call.root, Vpn) = Entry
      BY <1>t, <2>1, CallFacts, WalkIs DEF CallInv, Entry
    <3>4. call.level # 0 /\ Entry.kind # "none" => Entry.kind = "table"
      <4>1. call.level # 0 => call.table \in Inner
        BY <1>t, <2>1, CallFacts DEF Inner, Levels
      <4>2. Entry.kind # "none" => Vpn[call.level] \in Entries(call.table)
        BY <1>t, <2>1, CallFacts DEF Entries, Entry
      <4> QED
        BY <1>t, <4>1, <4>2 DEF Tree, TablesPointDown, Entry
    <3>5. NoPTE.kind = "none"
      BY DEF NoPTE
    <3> QED
      BY <2>2, <3>1, <3>2, <3>3, <3>4, <3>5 DEF MapFails, Missing, Found, Mapped
  <2> QED
    BY <2>4, <2>5, <2>6 DEF IInv
<1>7. ASSUME MapSet \/ UnmapClear PROVE IInv'
  <2>1. /\ ~Ready /\ call.level = 0 /\ call.op \in {"map", "unmap"} /\ NextPage /\ use' = use
    BY <1>7 DEF MapSet, UnmapClear
  <2>2. PICK e \in PTE : Put(e)
    <3>1. Leaf(call.pa + call.n) \in PTE /\ NoPTE \in PTE
      BY <1>t, <2>1, CallFacts, EntryTypes
    <3> QED
      BY <1>7, <3>1 DEF MapSet, UnmapClear
  <2>3. /\ mem' \in [Frames -> [Index -> PTE]]
        /\ TablesPointDown' /\ TablesAreNotShared'
    BY <1>t, <2>1, <2>2, OneSlot
  <2>4. /\ call' \in Calls \cup {Idle} /\ last' \in Results \cup {Idle}
        /\ CallInv' /\ LastInv' /\ LookupsAreRight'
    BY <1>t, <2>1, NextPageStep
  <2> QED
    BY <1>t, <2>1, <2>3, <2>4 DEF IInv, Tree, TypeOK
<1>8. ASSUME UNCHANGED vars PROVE IInv'
  <2>1. use' = use /\ mem' = mem /\ call' = call /\ last' = last
    BY <1>8 DEF vars
  <2>2. Tree'
    BY <1>t, <2>1 DEF Tree, TypeOK, TablesPointDown, TablesAreNotShared, Inner, Entries
  <2>3. CallInv'
    BY <1>t, <2>1 DEF CallInv, Ready, Vpn, HasMiddle, HasLowest, Middle, Lowest
  <2>4. LastInv'
    BY <1>t, <2>1 DEF LastInv, Ready
  <2>5. LookupsAreRight'
    <3>1. Walk(last.root, get_vpn_indices(last.va))' = Walk(last.root, get_vpn_indices(last.va))
      BY <2>1 DEF Walk
    <3> QED
      BY <1>t, <2>1, <3>1 DEF LookupsAreRight
  <2> QED
    BY <2>2, <2>3, <2>4, <2>5 DEF IInv
<1>9. ASSUME NEW r \in Frames, map_range(r) \/ unmap_range(r) \/ get_physical_address(r) \/ is_addr_mapped(r)
      PROVE  IInv'
  BY <1>3, <1>9, PhysAssumption, RangeAssumption
     DEF map_range, unmap_range, get_physical_address, is_addr_mapped, Ops
<1> QED
  BY <1>1, <1>2, <1>4, <1>5, <1>6, <1>7, <1>8, <1>9 DEF Next

(***************************************************************************)
(* Theorems                                                                *)
(***************************************************************************)
LEMMA Invariant == Spec => []IInv
<1> QED
  BY Initially, Inductive, PTL DEF Spec

\* What is below a root is a tree: an entry leads to a table of the next level that no
\* other entry leads to, and never to a page that was freed or holds data (page_table.c).
THEOREM TreeCorrect == Spec => []TablesAreATree
<1>1. IInv => TablesAreATree
  BY DEF IInv, Tree, TablesAreATree
<1> QED
  BY <1>1, Invariant, PTL

\* get_physical_address() and is_addr_mapped() answer what the tables say when they return.
THEOREM LookupsCorrect == Spec => []LookupsAreRight
<1>1. IInv => LookupsAreRight
  BY DEF IInv
<1> QED
  BY <1>1, Invariant, PTL

-----------------------------------------------------------------------------
(***************************************************************************)
(* Address spaces                                                          *)
(***************************************************************************)
LEMMA SpaceFacts ==
  ASSUME NEW r \in Frames
  PROVE  /\ use[r] = 2 => SpaceOf(r) = [s \in Slots |-> Walk(r, s)] /\ SpaceOf(r) # NoSpace
         /\ use[r] # 2 => SpaceOf(r) = NoSpace
<1>1. [l \in Levels |-> 0] \in Slots
  BY EntriesAssumption DEF Slots, Index
<1>2. DOMAIN [s \in Slots |-> Walk(r, s)] = Slots
  OBVIOUS
<1>3. DOMAIN NoSpace = {}
  BY DEF NoSpace
<1>4. [s \in Slots |-> Walk(r, s)] # NoSpace
  BY <1>1, <1>2, <1>3
<1> QED
  BY <1>4 DEF SpaceOf

LEMMA SpaceNext ==
  ASSUME NEW r \in Frames
  PROVE  /\ use'[r] = 2 => SpaceOf(r)' = [s \in Slots |-> Walk(r, s)']
         /\ use'[r] # 2 => SpaceOf(r)' = NoSpace
BY DEF SpaceOf, NoSpace

\* No slot changes.
LEMMA SpaceStays ==
  ASSUME NEW r \in Frames, use'[r] = 2 <=> use[r] = 2,
         \A s \in Slots : use[r] = 2 => Walk(r, s)' = Walk(r, s)
  PROVE  SpaceOf(r)' = SpaceOf(r)
BY SpaceFacts, SpaceNext

Spaces == [r \in Frames |-> SpaceOf(r)]

LEMMA Stutter ==
  ASSUME \A r \in Frames : SpaceOf(r)' = SpaceOf(r)
  PROVE  Spaces' = Spaces
BY DEF Spaces

\* Every step is one of AbstractMap, or changes no address space.
LEMMA SpaceSteps == IInv /\ [Next]_vars => [Abstract!Next]_Spaces
<1> SUFFICES ASSUME IInv, [Next]_vars PROVE Abstract!Next \/ Spaces' = Spaces
  OBVIOUS
<1>t. Tree /\ CallInv /\ LastInv /\ TypeOK
  BY DEF IInv, Tree
<1>1. ASSUME NEW f \in Frames, AllocPage(f) \/ FreePage(f) PROVE Spaces' = Spaces
  <2>1. PICK u \in {FREE, DATA}, j \in [Index -> PTE] :
          /\ use[f] \in {FREE, DATA} /\ use' = [use EXCEPT ![f] = u]
          /\ mem' = [mem EXCEPT ![f] = j]
    BY <1>1, JunkAssumption DEF AllocPage, FreePage, Scribbled
  <2>2. u \in {FREE, DATA, 2} /\ use[f] \in {FREE, DATA, 2} /\ u # 2 /\ use[f] # 2
    BY <2>1 DEF FREE, DATA
  <2>3. \A r \in Frames, s \in Slots : r # f /\ use[r] = 2 => Walk(r, s)' = Walk(r, s)
    BY <1>t, <2>1, <2>2, OtherPage
  <2>4. \A r \in Frames : use'[r] = 2 <=> use[r] = 2
    BY <1>t, <2>1, <2>2 DEF TypeOK
  <2> QED
    BY <2>2, <2>3, <2>4, SpaceStays, Stutter
<1>2. ASSUME NEW f \in Frames, create_page_table(f) PROVE Abstract!Next
  <2>1. /\ use[f] = FREE /\ use' = [use EXCEPT ![f] = 2] /\ mem' = [mem EXCEPT ![f] = Table]
    BY <1>2 DEF create_page_table, Cleared
  <2>2. \A r \in Frames, s \in Slots : r # f /\ use[r] = 2 => Walk(r, s)' = Walk(r, s)
    BY <1>t, <2>1, OtherPage, EntryTypes
  <2>3. /\ \A r \in Frames : r # f => use'[r] = use[r]
        /\ use'[f] = 2 /\ use[f] # 2
        /\ mem'[f] = Table
    BY <1>t, <2>1 DEF TypeOK, FREE
  <2>4. \A r \in Frames : r # f => SpaceOf(r)' = SpaceOf(r)
    BY <2>2, <2>3, SpaceStays
  <2>5. \A s \in Slots : Walk(f, s)' = NoPTE
    BY <2>3 DEF Walk, Table, Slots, Levels, NoPTE
  <2>6. SpaceOf(f) = NoSpace /\ SpaceOf(f)' = [s \in Slots |-> NoPTE]
    BY <2>3, <2>5, SpaceFacts, SpaceNext
  <2>7. Abstract!Create(f)
    BY <2>4, <2>6 DEF Abstract!Create, Abstract!Empty
  <2> QED
    BY <2>7 DEF Abstract!Next
<1>3. ASSUME NEW f \in Frames, FreeRoot(f) PROVE Abstract!Next
  <2>1. PICK j \in [Index -> PTE] :
          use[f] = 2 /\ use' = [use EXCEPT ![f] = FREE] /\ mem' = [mem EXCEPT ![f] = j]
    BY <1>3, JunkAssumption DEF FreeRoot, Scribbled
  <2>2. \A r \in Frames, s \in Slots : r # f /\ use[r] = 2 => Walk(r, s)' = Walk(r, s)
    <3>1. FREE # 2
      BY DEF FREE
    <3> QED
      BY <1>t, <2>1, <3>1, OtherPage
  <2>3. /\ \A r \in Frames : r # f => use'[r] = use[r]
        /\ use'[f] # 2
    BY <1>t, <2>1 DEF TypeOK, FREE
  <2>4. \A r \in Frames : r # f => SpaceOf(r)' = SpaceOf(r)
    BY <2>2, <2>3, SpaceStays
  <2>5. SpaceOf(f) # NoSpace /\ SpaceOf(f)' = NoSpace
    BY <2>1, <2>3, SpaceFacts, SpaceNext
  <2>6. Abstract!Destroy(f)
    BY <2>4, <2>5 DEF Abstract!Destroy
  <2> QED
    BY <2>6 DEF Abstract!Next
<1>4. ASSUME use' = use, mem' = mem PROVE Spaces' = Spaces
  <2>1. \A r \in Frames, s \in Slots : Walk(r, s)' = Walk(r, s)
    BY <1>4 DEF Walk
  <2> QED
    BY <1>4, <2>1, SpaceStays, Stutter
<1>5. ASSUME NEW f \in Frames, MapAllocate(f) PROVE Spaces' = Spaces
  BY <1>t, <1>5, NewTable, SpaceStays, Stutter
<1>6. ASSUME MapSet \/ UnmapClear PROVE Abstract!Next
  <2>1. /\ ~Ready /\ call.level = 0 /\ use' = use /\ call.root \in Frames /\ Vpn \in Slots
        /\ use[call.root] = 2
    BY <1>6, <1>t, CallFacts DEF MapSet, UnmapClear
  <2>2. PICK r \in Frames, s \in Slots : r = call.root /\ s = Vpn
    BY <2>1
  <2>3. ASSUME NEW e \in PTE, Put(e), e = NoPTE \/ e.kind # "none"
        PROVE  /\ SpaceOf(r)' = [SpaceOf(r) EXCEPT ![s] = e]
               /\ \A q \in Frames : q # r => SpaceOf(q)' = SpaceOf(q)
    <3>1. \A q \in Frames, t \in Slots : use[q] = 2 =>
            Walk(q, t)' = IF q = r /\ t = s THEN e ELSE Walk(q, t)
      BY <1>t, <2>1, <2>2, <2>3, OneSlot DEF NoPTE
    <3>2. \A q \in Frames : q # r => SpaceOf(q)' = SpaceOf(q)
      BY <2>1, <3>1, SpaceStays
    <3>3. /\ SpaceOf(r)' = [t \in Slots |-> Walk(r, t)']
          /\ SpaceOf(r) = [t \in Slots |-> Walk(r, t)]
      BY <2>1, <2>2, SpaceFacts, SpaceNext
    <3>4. \A t \in Slots : Walk(r, t)' = IF t = s THEN e ELSE Walk(r, t)
      BY <2>1, <2>2, <3>1
    <3> QED
      BY <3>2, <3>3, <3>4
  <2>4. SpaceOf(r) # NoSpace /\ SpaceOf(r) = [t \in Slots |-> Walk(r, t)]
    BY <2>1, <2>2, SpaceFacts
  <2>5. CASE MapSet
    <3>1. Put(Leaf(call.pa + call.n)) /\ call.pa + call.n \in Nat
      BY <1>t, <2>1, <2>5, CallFacts DEF MapSet
    <3>2. PICK e \in PTE : Put(e) /\ e \in [kind : {"leaf"}, ppn : Nat \cup Frames] /\ e.kind # "none"
      BY <3>1, EntryTypes DEF Leaf
    <3>3. /\ SpaceOf(r)' = [SpaceOf(r) EXCEPT ![s] = e]
          /\ \A q \in Frames : q # r => SpaceOf(q)' = SpaceOf(q)
      BY <2>3, <3>2
    <3>4. SpaceOf(r)'[s] = e
      BY <2>4, <3>3
    <3>5. Abstract!Map(r, s)
      BY <2>4, <3>2, <3>3, <3>4 DEF Abstract!Map
    <3> QED
      BY <3>5 DEF Abstract!Next
  <2>6. CASE UnmapClear
    <3>1. Put(NoPTE) /\ Entry.kind # "none" /\ NoPTE \in PTE
      BY <2>6, EntryTypes DEF UnmapClear
    <3>2. /\ SpaceOf(r)' = [SpaceOf(r) EXCEPT ![s] = NoPTE]
          /\ \A q \in Frames : q # r => SpaceOf(q)' = SpaceOf(q)
      BY <2>3, <3>1
    <3>3. Walk(r, s) # NoPTE
      <4>1. HasLowest(r, s) /\ Entry = mem[Lowest(r, s)][s[0]]
        BY <1>t, <2>1, <2>2 DEF CallInv, Entry
      <4> QED
        BY <3>1, <4>1, WalkIs DEF NoPTE
    <3>4. SpaceOf(r)[s] # NoPTE
      BY <2>4, <3>3
    <3>5. Abstract!Unmap(r, s)
      BY <2>4, <3>2, <3>4 DEF Abstract!Unmap
    <3> QED
      BY <3>5 DEF Abstract!Next
  <2> QED
    BY <1>6, <2>5, <2>6
<1>7. ASSUME NEW r \in Frames, map_range(r) \/ unmap_range(r) \/ get_physical_address(r) \/ is_addr_mapped(r)
      PROVE  Spaces' = Spaces
  BY <1>4, <1>7 DEF map_range, unmap_range, get_physical_address, is_addr_mapped, Call
<1>8. ASSUME Descend \/ MapFails \/ Missing \/ Found \/ Mapped PROVE Spaces' = Spaces
  BY <1>4, <1>8 DEF Descend, MapFails, Missing, Found, Mapped
<1>9. ASSUME UNCHANGED vars PROVE Spaces' = Spaces
  BY <1>4, <1>9 DEF vars
<1> QED
  BY <1>1, <1>2, <1>3, <1>5, <1>6, <1>7, <1>8, <1>9 DEF Next

\* map_page() and unmap_page() change one slot of one address space; whatever fails, and
\* whatever becomes of the pages that are no tables, changes none.
THEOREM Refinement == Spec => ImplementsAbstractMap
<1>1. Init => Abstract!Init
  BY SpaceFacts DEF Init, Abstract!Init, FREE
<1>2. Abstract!Spec <=> Abstract!Init /\ [][Abstract!Next]_Spaces
  BY PTL DEF Abstract!Spec, Spaces
<1> QED
  BY <1>1, <1>2, SpaceSteps, Invariant, PTL DEF Spec, ImplementsAbstractMap

-----------------------------------------------------------------------------
(***************************************************************************)
(* Ranges                                                                  *)
(***************************************************************************)
\* No range is so long that it comes around to one of its own slots.
RangesFit ==
  \A va \in VirtPages, m, n \in 0..(MaxRange - 1) :
    get_vpn_indices(va + m) = get_vpn_indices(va + n) => m = n

\* The first n pages of a range are done.
Done(op, r, va, pa, n) ==
  \A m \in 0..(n - 1) :
    /\ op = "map" => Walk(r, get_vpn_indices(va + m)) = Leaf(pa + m)
    /\ op = "unmap" => Walk(r, get_vpn_indices(va + m)) = NoPTE

RangeInv ==
  /\ ~Ready => /\ call.op \in {"map", "unmap"} => call.pages <= MaxRange
               /\ call.n < call.pages
               /\ Done(call.op, call.root, call.va, call.pa, call.n)
  /\ last # Idle /\ last.ok => Done(last.op, last.root, last.va, last.pa, last.pages)

LEMMA WholeIsDone == RangesAreWhole <=>
  (last # Idle /\ last.ok => Done(last.op, last.root, last.va, last.pa, last.pages))
BY DEF RangesAreWhole, Done

LEMMA SlotOf == ASSUME NEW va \in VirtPages, NEW m \in Nat PROVE get_vpn_indices(va + m) \in Slots
<1>1. va + m \in Nat
  BY VirtAssumption
<1> QED
  BY <1>1, VpnType

\* What is done stays done while no slot of its space changes.
LEMMA DoneStays ==
  ASSUME NEW op, NEW r, NEW va \in VirtPages, NEW pa, NEW n \in Nat,
         \A s \in Slots : Walk(r, s)' = Walk(r, s), Done(op, r, va, pa, n)
  PROVE  Done(op, r, va, pa, n)'
<1> SUFFICES ASSUME NEW m \in 0..(n - 1)
             PROVE  /\ op = "map" => Walk(r, get_vpn_indices(va + m))' = Leaf(pa + m)
                    /\ op = "unmap" => Walk(r, get_vpn_indices(va + m))' = NoPTE
  BY DEF Done
<1>1. Walk(r, get_vpn_indices(va + m))' = Walk(r, get_vpn_indices(va + m))
  BY SlotOf
<1> QED
  BY <1>1 DEF Done

LEMMA RangesStep ==
  ASSUME RangesFit, IInv, RangeInv, [Next]_vars
  PROVE  RangeInv'
<1>t. Tree /\ CallInv /\ LastInv /\ TypeOK
  BY DEF IInv, Tree
<1>c. ~Ready => /\ call \in Calls /\ call.root \in Frames /\ use[call.root] = 2
                /\ call.va \in VirtPages /\ call.n \in Nat /\ call.pages \in Nat
                /\ call.op \in Ops /\ call.pa \in Nat
  BY <1>t, CallFacts DEF Calls, Ops
<1>l. last # Idle => /\ last \in Results /\ last.root \in Frames /\ use[last.root] = 2
                     /\ last.va \in VirtPages /\ last.pages \in Nat /\ Ready
                     /\ last.op \in Ops /\ last.pa \in Nat
  BY <1>t, CallOrIdle DEF Results, LastInv, Ops
\* A step that changes neither call nor slots.
<1>1. ASSUME \A r \in Frames, s \in Slots : use[r] = 2 /\ use'[r] = 2 => Walk(r, s)' = Walk(r, s),
             ~Ready => use'[call.root] = 2, last # Idle => use'[last.root] = 2,
             call' = call, last' = last
      PROVE  RangeInv'
  <2>1. ~Ready => Done(call.op, call.root, call.va, call.pa, call.n)'
    <3> SUFFICES ASSUME ~Ready PROVE Done(call.op, call.root, call.va, call.pa, call.n)'
      OBVIOUS
    <3>1. PICK op \in Ops, r \in Frames, va \in VirtPages, pa \in Nat, n \in Nat :
            op = call.op /\ r = call.root /\ va = call.va /\ pa = call.pa /\ n = call.n
      BY <1>c
    <3>2. Done(op, r, va, pa, n)
      BY <3>1 DEF RangeInv
    <3>3. \A s \in Slots : Walk(r, s)' = Walk(r, s)
      BY <1>1, <1>c, <3>1
    <3>4. Done(op, r, va, pa, n)'
      BY <3>2, <3>3, DoneStays
    <3> QED
      BY <1>1, <3>1, <3>4 DEF Done
  <2>2. last # Idle /\ last.ok => Done(last.op, last.root, last.va, last.pa, last.pages)'
    <3> SUFFICES ASSUME last # Idle, last.ok
                 PROVE  Done(last.op, last.root, last.va, last.pa, last.pages)'
      OBVIOUS
    <3>1. PICK op \in Ops, r \in Frames, va \in VirtPages, pa \in Nat, n \in Nat :
            op = last.op /\ r = last.root /\ va = last.va /\ pa = last.pa /\ n = last.pages
      BY <1>l
    <3>2. Done(op, r, va, pa, n)
      BY <3>1 DEF RangeInv
    <3>3. \A s \in Slots : Walk(r, s)' = Walk(r, s)
      BY <1>1, <1>l, <3>1
    <3>4. Done(op, r, va, pa, n)'
      BY <3>2, <3>3, DoneStays
    <3> QED
      BY <1>1, <3>1, <3>4 DEF Done
  <2> QED
    BY <1>1, <2>1, <2>2 DEF RangeInv, Ready
\* A step of a walk goes on with the same page.
<1>2. ASSUME \A r \in Frames, s \in Slots : use[r] = 2 => Walk(r, s)' = Walk(r, s),
             ~Ready, last' = last, call' \in Calls, call'.op = call.op, call'.root = call.root,
             call'.va = call.va, call'.pa = call.pa, call'.n = call.n, call'.pages = call.pages
      PROVE  RangeInv'
  <2>1. PICK op \in Ops, r \in Frames, va \in VirtPages, pa \in Nat, n \in Nat :
          op = call.op /\ r = call.root /\ va = call.va /\ pa = call.pa /\ n = call.n
    BY <1>2, <1>c
  <2>2. Done(op, r, va, pa, n)
    BY <1>2, <2>1 DEF RangeInv
  <2>3. Done(op, r, va, pa, n)'
    BY <1>2, <1>c, <2>1, <2>2, DoneStays
  <2>4. Done(call.op, call.root, call.va, call.pa, call.n)'
    BY <1>2, <2>1, <2>3 DEF Done
  <2>5. last = Idle
    BY <1>2, <1>l
  <2> QED
    BY <1>2, <2>4, <2>5 DEF RangeInv
<1>3. ASSUME NEW f \in Frames, AllocPage(f) \/ FreePage(f) PROVE RangeInv'
  <2>1. PICK u \in {FREE, DATA}, j \in [Index -> PTE] :
          /\ use[f] \in {FREE, DATA} /\ use' = [use EXCEPT ![f] = u]
          /\ mem' = [mem EXCEPT ![f] = j] /\ call' = call /\ last' = last
    BY <1>3, JunkAssumption DEF AllocPage, FreePage, Scribbled
  <2>2. u \in {FREE, DATA, 2} /\ use[f] \in {FREE, DATA, 2} /\ u # 2 /\ use[f] # 2
    BY <2>1 DEF FREE, DATA
  <2>3. \A r \in Frames, s \in Slots : r # f /\ use[r] = 2 => Walk(r, s)' = Walk(r, s)
    BY <1>t, <2>1, <2>2, OtherPage
  <2>4. \A r \in Frames : use'[r] = 2 <=> use[r] = 2
    BY <1>t, <2>1, <2>2 DEF TypeOK
  <2> QED
    BY <1>1, <1>c, <1>l, <2>1, <2>2, <2>3, <2>4
<1>4. ASSUME NEW f \in Frames, create_page_table(f) \/ FreeRoot(f) PROVE RangeInv'
  BY <1>4 DEF create_page_table, FreeRoot, RangeInv, Ready
<1>5. ASSUME NEW op \in Ops, NEW r \in Frames, NEW va \in VirtPages, NEW pa \in Nat, NEW pages \in Nat,
             Call(op, r, va, pa, pages), 0 < pages, op \in {"map", "unmap"} => pages <= MaxRange
      PROVE  RangeInv'
  <2>1. /\ call'.op = op /\ call'.pages = pages /\ call'.n = 0 /\ last' = Idle
    BY <1>5 DEF Call
  <2> QED
    BY <1>5, <2>1 DEF RangeInv, Done
<1>6. ASSUME Descend PROVE RangeInv'
  <2>1. /\ ~Ready /\ call.level \in {1, 2} /\ Entry.ppn \in Frames
        /\ use' = use /\ mem' = mem /\ last' = last
    <3>1. /\ ~Ready /\ call.level \in {1, 2} /\ Entry.kind # "none"
          /\ use' = use /\ mem' = mem /\ last' = last
      BY <1>6, <1>t, CallFacts DEF Descend, Levels
    <3>2. call.table \in Inner /\ Vpn[call.level] \in Entries(call.table)
      BY <1>t, <3>1, CallFacts DEF Inner, Entries, Entry
    <3> QED
      BY <1>t, <3>1, <3>2 DEF Tree, TablesPointDown, Entry
  <2>2. call' = Down(call, Entry.ppn, call.level - 1)
    BY <1>6 DEF Descend, Down
  <2>3. call.level - 1 \in Levels
    BY <2>1 DEF Levels
  <2>4. call \in Calls /\ Entry.ppn \in Frames
    BY <1>c, <2>1
  <2>5. /\ call' \in Calls /\ call'.op = call.op /\ call'.root = call.root /\ call'.va = call.va
        /\ call'.pa = call.pa /\ call'.n = call.n /\ call'.pages = call.pages
    BY <2>2, <2>3, <2>4, DownIs
  <2>6. \A r \in Frames, s \in Slots : Walk(r, s)' = Walk(r, s)
    BY <2>1 DEF Walk
  <2> QED
    BY <1>2, <2>1, <2>5, <2>6
<1>7. ASSUME NEW f \in Frames, MapAllocate(f) PROVE RangeInv'
  <2>1. ~Ready /\ call.level \in {1, 2} /\ last' = last
    BY <1>7, <1>t, CallFacts DEF MapAllocate, Levels
  <2>2. call' = Down(call, f, call.level - 1)
    BY <1>7 DEF MapAllocate, Down
  <2>3. call.level - 1 \in Levels
    BY <2>1 DEF Levels
  <2>4. call \in Calls
    BY <1>c, <2>1
  <2>5. /\ call' \in Calls /\ call'.op = call.op /\ call'.root = call.root /\ call'.va = call.va
        /\ call'.pa = call.pa /\ call'.n = call.n /\ call'.pages = call.pages
    BY <2>2, <2>3, <2>4, DownIs
  <2>6. \A r \in Frames, s \in Slots : use[r] = 2 => Walk(r, s)' = Walk(r, s)
    BY <1>t, <1>7, NewTable
  <2> QED
    BY <1>2, <2>1, <2>5, <2>6
<1>8. ASSUME MapFails \/ Missing \/ Found \/ Mapped PROVE RangeInv'
  <2>1. ~Ready /\ Entry.ppn \in Nat \cup Frames
    BY <1>8, <1>t, CallFacts DEF MapFails, Missing, Found, Mapped, PTE
  <2>2. PICK ok \in BOOLEAN, ppn \in Nat \cup Frames :
          Return(ok, ppn) /\ (ok => call.op \in {"find", "mapped"})
    BY <1>8, <2>1 DEF MapFails, Missing, Found, Mapped
  <2>3. call' = Idle /\ last'.op = call.op /\ last'.ok = ok
    BY <1>t, <2>1, <2>2, Returned
  <2> QED
    BY <2>2, <2>3 DEF RangeInv, Done, Ready
<1>9. ASSUME MapSet \/ UnmapClear PROVE RangeInv'
  <2>1. /\ ~Ready /\ call.level = 0 /\ call.op \in {"map", "unmap"} /\ NextPage /\ use' = use
        /\ last = Idle
    BY <1>9, <1>l DEF MapSet, UnmapClear
  <2>2. PICK op \in {"map", "unmap"}, r \in Frames, va \in VirtPages, pa \in Nat, n \in Nat, pages \in Nat :
          /\ op = call.op /\ r = call.root /\ va = call.va /\ pa = call.pa /\ n = call.n
          /\ pages = call.pages
    BY <1>t, <1>c, <2>1, CallFacts
  <2>3. Done(op, r, va, pa, n) /\ n < pages /\ pages <= MaxRange
    BY <2>1, <2>2 DEF RangeInv
  <2>4. PICK e \in PTE : Put(e) /\ e = IF op = "map" THEN Leaf(pa + n) ELSE NoPTE
    <3>1. Leaf(call.pa + call.n) \in PTE /\ NoPTE \in PTE
      BY <1>t, <2>1, CallFacts, EntryTypes
    <3> QED
      BY <1>9, <2>2, <3>1 DEF MapSet, UnmapClear
  <2>5. Vpn = get_vpn_indices(va + n)
    BY <2>2 DEF Vpn
  <2>6. \A s \in Slots : Walk(r, s)' = IF s = get_vpn_indices(va + n) THEN e ELSE Walk(r, s)
    BY <1>t, <1>c, <2>1, <2>2, <2>4, <2>5, OneSlot DEF Leaf, NoPTE
  <2>7. Done(op, r, va, pa, n + 1)'
    <3> SUFFICES ASSUME NEW m \in 0..n
                 PROVE  /\ op = "map" => Walk(r, get_vpn_indices(va + m))' = Leaf(pa + m)
                        /\ op = "unmap" => Walk(r, get_vpn_indices(va + m))' = NoPTE
      BY DEF Done
    <3>1. get_vpn_indices(va + m) \in Slots
      BY SlotOf
    <3>2. CASE m = n
      BY <2>2, <2>4, <2>6, <3>1, <3>2
    <3>3. CASE m # n
      <4>1. get_vpn_indices(va + m) # get_vpn_indices(va + n)
        BY <2>3, <3>3, RangeAssumption DEF RangesFit
      <4>2. m \in 0..(n - 1)
        BY <3>3
      <4> QED
        BY <2>3, <2>6, <3>1, <4>1, <4>2 DEF Done
    <3> QED
      BY <3>2, <3>3
  <2>8. CASE call.n + 1 < call.pages
    <3>1. call' = Again(call, call.n + 1)
      BY <2>1, <2>8 DEF NextPage, Again
    <3>2. last' = last
      BY <2>1, <2>8 DEF NextPage
    <3>3. call \in Calls /\ call.n + 1 \in Nat
      BY <1>c, <2>1
    <3>a. /\ call'.op = call.op /\ call'.root = call.root /\ call'.va = call.va
          /\ call'.pa = call.pa /\ call'.n = call.n + 1 /\ call'.pages = call.pages
      <4>1. call \in Calls
        BY <3>3
      <4>2. call.n + 1 \in Nat
        BY <3>3
      <4> QED
        BY <3>1, <4>1, <4>2, AgainIs
    <3>4. call'.op = op /\ call'.root = r /\ call'.va = va
      BY <2>2, <3>a
    <3>5. call'.pa = pa /\ call'.n = n + 1 /\ call'.pages = pages
      BY <2>2, <3>a
    <3> QED
      BY <2>1, <2>2, <2>3, <2>7, <2>8, <3>2, <3>4, <3>5 DEF RangeInv, Done
  <2>9. CASE ~(call.n + 1 < call.pages)
    <3>1. Return(TRUE, 0)
      BY <2>1, <2>9 DEF NextPage
    <3>2. /\ call' = Idle /\ last'.op = op /\ last'.root = r /\ last'.va = va /\ last'.pa = pa
          /\ last'.pages = pages
      <4>1. /\ call' = Idle /\ last'.op = call.op /\ last'.root = call.root
            /\ last'.va = call.va /\ last'.pa = call.pa /\ last'.pages = call.pages
        <5>1. Tree /\ CallInv /\ ~Ready /\ TRUE \in BOOLEAN /\ 0 \in Nat \cup Frames
          BY <1>t, <2>1
        <5>2. Tree
          BY <5>1
        <5>3. CallInv
          BY <5>1
        <5>4. ~Ready
          BY <5>1
        <5> QED
          BY <3>1, <5>1, <5>2, <5>3, <5>4, Returned
      <4> QED
        BY <2>2, <4>1
    <3>3. pages = n + 1
      BY <2>2, <2>3, <2>9
    <3> QED
      BY <2>7, <3>2, <3>3 DEF RangeInv, Done, Ready
  <2> QED
    BY <2>8, <2>9
<1>10. ASSUME UNCHANGED vars PROVE RangeInv'
  <2>1. use' = use /\ mem' = mem /\ call' = call /\ last' = last
    BY <1>10 DEF vars
  <2>2. \A r \in Frames, s \in Slots : Walk(r, s)' = Walk(r, s)
    BY <2>1 DEF Walk
  <2> QED
    BY <1>1, <1>c, <1>l, <2>1, <2>2
<1>11. ASSUME NEW r \in Frames, map_range(r) \/ unmap_range(r) \/ get_physical_address(r) \/ is_addr_mapped(r)
       PROVE  RangeInv'
  BY <1>5, <1>11, PhysAssumption, RangeAssumption
     DEF map_range, unmap_range, get_physical_address, is_addr_mapped, Ops
<1> QED
  BY <1>3, <1>4, <1>6, <1>7, <1>8, <1>9, <1>10, <1>11 DEF Next

\* What a call returns is so when it returns: lookups find what is mapped, and a range
\* that has been mapped or unmapped is so page for page.
THEOREM CallsCorrect == ASSUME RangesFit PROVE Spec => []CallsAreRight
<1>1. Init => RangeInv
  BY DEF Init, RangeInv, Ready
<1>2. IInv /\ RangeInv /\ [Next]_vars => RangeInv'
  BY RangesFit, RangesStep
<1>3. IInv /\ RangeInv => CallsAreRight
  BY WholeIsDone DEF IInv, RangeInv, CallsAreRight
<1> QED
  BY <1>1, <1>2, <1>3, Invariant, PTL DEF Spec

-----------------------------------------------------------------------------
(***************************************************************************)
(* Pages and addresses.                                                    *)
(***************************************************************************)
Assumptions == Ranges!BasesAssumption /\ Ranges!EntryAssumption

\* Two remainders in one, and quotients.
LEMMA Quotients ==
  ASSUME NEW m \in Nat \ {0}, NEW x \in Int
  PROVE  \E q \in Int, r \in 0..(m - 1) : x = m * q + r /\ x % m = r /\ x \div m = q
<1>1. x % m \in 0..(m - 1)
  BY Z3
<1>2. x \div m \in Int
  BY Z3
<1>3. x = m * (x \div m) + (x % m)
  BY Z3
<1> QED
  BY <1>1, <1>2, <1>3

LEMMA QuotientIs ==
  ASSUME NEW m \in Nat \ {0}, NEW q \in Int, NEW r \in 0..(m - 1)
  PROVE  (m * q + r) \div m = q
BY Z3

LEMMA EntryIs ==
  ASSUME Assumptions, NEW e \in Ranges!Entry
  PROVE  /\ e.base \in Bases /\ e.size \in Sizes /\ e.id \in Ids
         /\ e.base \in Nat /\ e.size \in Nat /\ e.id \in Nat \ {0} /\ PAGE_SIZE \in Nat \ {0}
         /\ \E q \in Nat : e.base = PAGE_SIZE * q /\ Ranges!Page(e.base) = q
         /\ e.base % 4 = 0
<1>1. /\ e.base \in Bases /\ e.size \in Sizes /\ e.id \in Ids
      /\ e.base \in Nat /\ e.size \in Nat /\ e.id \in Nat \ {0} /\ PAGE_SIZE \in Nat \ {0}
      /\ e.base % PAGE_SIZE = 0 /\ PAGE_SIZE % 4 = 0
  <2>1. e.base \in Bases /\ e.size \in Sizes /\ e.id \in Ids
    BY DEF Ranges!Entry
  <2>2. e.base \in Nat /\ PAGE_SIZE \in Nat \ {0} /\ e.base % PAGE_SIZE = 0 /\ PAGE_SIZE % 4 = 0
    BY <2>1 DEF Assumptions, Ranges!BasesAssumption
  <2>3. e.size \in Nat /\ e.id \in Nat \ {0}
    BY <2>1 DEF Assumptions, Ranges!EntryAssumption
  <2> QED
    BY <2>1, <2>2, <2>3
<1>2. PICK q \in Int, r \in 0..(PAGE_SIZE - 1) :
        e.base = PAGE_SIZE * q + r /\ e.base % PAGE_SIZE = r /\ e.base \div PAGE_SIZE = q
  <2>1. e.base \in Int
    BY <1>1
  <2> QED
    BY <1>1, <2>1, Quotients, Zenon
<1>3. PICK t \in Int : PAGE_SIZE = 4 * t
  <2>1. PAGE_SIZE \in Int
    BY <1>1
  <2>2. PAGE_SIZE = 4 * (PAGE_SIZE \div 4) /\ (PAGE_SIZE \div 4) \in Int
    BY <1>1, <2>1
  <2> QED
    BY <2>2
<1>4. e.base = PAGE_SIZE * q /\ PAGE_SIZE = 4 * t
  BY <1>1, <1>2, <1>3
<1>5. PICK w \in Int : w = t * q
  BY <1>2, <1>3
<1>6. e.base = 4 * w
  BY <1>4, <1>5
<1>7. e.base % 4 = 0
  BY <1>6
<1>8. q \in Nat
  <2>1. ASSUME q < 0 PROVE PAGE_SIZE * q < 0
    BY <1>1, <2>1
  <2> QED
    BY <1>1, <1>4, <2>1
<1> QED
  BY <1>1, <1>2, <1>4, <1>7, <1>8 DEF Ranges!Page

\* The pages of a range: as many as its bytes need, and each of them has a byte of it.
LEMMA PagesIs ==
  ASSUME Assumptions, NEW e \in Ranges!Entry
  PROVE  /\ Ranges!Pages(e) \in Nat
         /\ \A k \in Nat : k < Ranges!Pages(e) <=> PAGE_SIZE * k < e.size
<1>1. PICK s \in Nat, m \in Nat \ {0} : s = e.size /\ m = PAGE_SIZE
  BY EntryIs
<1>2. PICK y \in Nat : y = s + m - 1
  BY <1>1
<1>3. PICK q \in Int, r \in 0..(m - 1) : y = m * q + r /\ y % m = r /\ y \div m = q
  <2>1. y \in Int
    OBVIOUS
  <2> QED
    BY <2>1, Quotients, Zenon
<1>4. Ranges!Pages(e) = q
  BY <1>1, <1>2, <1>3 DEF Ranges!Pages
<1>5. q \in Nat
  <2>1. ASSUME q < 0 PROVE m * q <= -m
    BY <1>1, <2>1
  <2> QED
    BY <1>2, <1>3, <2>1
<1>6. ASSUME NEW k \in Nat PROVE k < q <=> m * k < s
  <2>1. CASE k < q
    <3>1. PICK d \in Nat : q = k + 1 + d
      <4>1. q - k - 1 \in Nat /\ q = k + 1 + (q - k - 1)
        BY <1>5, <2>1
      <4> QED
        BY <4>1
    <3>2. m * q = m * k + m + m * d /\ m * d \in Nat /\ m * k \in Nat
      BY <1>1, <3>1
    <3> QED
      BY <1>1, <1>2, <1>3, <2>1, <3>2
  <2>2. CASE ~(k < q)
    <3>1. PICK d \in Nat : k = q + d
      <4>1. k - q \in Nat /\ k = q + (k - q)
        BY <1>5, <2>2
      <4> QED
        BY <4>1
    <3>2. m * k = m * q + m * d /\ m * d \in Nat /\ m * q \in Nat
      BY <1>1, <1>5, <3>1
    <3> QED
      BY <1>1, <1>2, <1>3, <2>2, <3>2
  <2> QED
    BY <2>1, <2>2
<1> QED
  BY <1>1, <1>4, <1>5, <1>6

LEMMA BytesHavePages ==
  ASSUME Assumptions, NEW e \in Ranges!Entry, NEW a \in e.base..(e.base + e.size - 1)
  PROVE  Ranges!Page(a) \in Ranges!First(e, Ranges!Pages(e))
<1>1. PICK b \in Nat, s \in Nat, m \in Nat \ {0}, q \in Nat :
        b = e.base /\ s = e.size /\ m = PAGE_SIZE /\ b = m * q /\ Ranges!Page(e.base) = q
  BY EntryIs
<1>2. PICK x \in Nat : a = b + x /\ x < s
  <2>1. a - b \in Nat /\ a = b + (a - b) /\ a - b < s
    BY <1>1
  <2> QED
    BY <2>1
<1>3. PICK k \in Int, r \in 0..(m - 1) : x = m * k + r /\ x % m = r /\ x \div m = k
  <2>1. x \in Int
    OBVIOUS
  <2> QED
    BY <2>1, Quotients, Zenon
<1>4. k \in Nat
  <2>1. ASSUME k < 0 PROVE m * k <= -m
    BY <2>1
  <2> QED
    BY <1>3, <2>1
<1>5. Ranges!Page(a) = q + k
  <2>1. a = m * (q + k) + r /\ q + k \in Int
    BY <1>1, <1>2, <1>3
  <2>2. (m * (q + k) + r) \div m = q + k
    BY <2>1, QuotientIs
  <2> QED
    BY <1>1, <2>1, <2>2 DEF Ranges!Page
<1>6. m * k < s
  BY <1>2, <1>3, <1>4
<1>7. k \in 0..(Ranges!Pages(e) - 1)
  BY <1>1, <1>4, <1>6, PagesIs
<1> QED
  BY <1>1, <1>5, <1>7 DEF Ranges!First

LEMMA PagesHaveBytes ==
  ASSUME Assumptions, NEW e \in Ranges!Entry, NEW n \in 0..Ranges!Pages(e)
  PROVE  Ranges!First(e, n) \subseteq {Ranges!Page(a) : a \in Ranges!Addresses}
<1> SUFFICES ASSUME NEW k \in 0..(n - 1)
             PROVE  Ranges!Page(e.base) + k \in {Ranges!Page(a) : a \in Ranges!Addresses}
  BY DEF Ranges!First
<1>1. PICK b \in Nat, s \in Nat, m \in Nat \ {0}, q \in Nat :
        b = e.base /\ s = e.size /\ m = PAGE_SIZE /\ b = m * q /\ Ranges!Page(e.base) = q
  BY EntryIs
<1>2. k \in Nat /\ k < Ranges!Pages(e) /\ m * k < s /\ m * k \in Nat
  BY <1>1, PagesIs
<1>3. PICK a \in Nat : a = b + m * k
  BY <1>1, <1>2
<1>4. a = m * (q + k) + 0 /\ q + k \in Int /\ 0 \in 0..(m - 1)
  BY <1>1, <1>2, <1>3
<1>5. Ranges!Page(a) = q + k
  BY <1>1, <1>4, QuotientIs DEF Ranges!Page
<1>6. a \in b..(b + s)
  BY <1>2, <1>3
<1>7. a \in Ranges!Addresses
  <2>1. e.base \in Bases /\ e.size \in Sizes
    BY EntryIs
  <2>2. \E t \in Sizes : a \in e.base..(e.base + t)
    BY <1>1, <1>6, <2>1
  <2>3. a \in UNION {e.base..(e.base + t) : t \in Sizes}
    BY <2>2
  <2> QED
    BY <2>1, <2>3 DEF Ranges!Addresses
<1> QED
  BY <1>1, <1>5, <1>7

-----------------------------------------------------------------------------
(***************************************************************************)
(* The invariant: the array holds a range once, and when it is synced its  *)
(* pages are mapped.                                                       *)
(***************************************************************************)
Alone  == \A i, j \in 1..Len(map) : map[i].base = map[j].base => i = j
Synced == synced => \A e \in Ranges!Entries : Ranges!First(e, Ranges!Pages(e)) \subseteq mapped

MapInv ==
  /\ map \in Seq(Ranges!Entry) /\ Len(map) <= MAX_MMIO_ENTRIES
  /\ Alone /\ Synced
  /\ mapped \subseteq {Ranges!Page(a) : a \in Ranges!Addresses} /\ synced \in BOOLEAN

\* What the functions on the array leave in it.
LEMMA AppendIs ==
  ASSUME NEW s \in Seq(Ranges!Entry), NEW e \in Ranges!Entry
  PROVE  /\ Append(s, e) \in Seq(Ranges!Entry) /\ Len(Append(s, e)) = Len(s) + 1
         /\ \A k \in 1..Len(s) : Append(s, e)[k] = s[k]
         /\ Append(s, e)[Len(s) + 1] = e
  BY AppendProperties

LEMMA RemoveIs ==
  ASSUME NEW S, NEW s \in Seq(S), NEW i \in 1..Len(s)
  PROVE  /\ Ranges!RemoveAt(s, i) \in Seq(S) /\ Len(Ranges!RemoveAt(s, i)) = Len(s) - 1
         /\ \A k \in 1..(Len(s) - 1) : Ranges!RemoveAt(s, i)[k] = IF k < i THEN s[k] ELSE s[k + 1]
<1>1. PICK n \in Nat : n = Len(s) /\ i \in 1..n
  OBVIOUS
<1>2. PICK l \in Int : l = i - 1
  BY <1>1
<1>3. PICK f \in Int : f = i + 1
  BY <1>1
<1>4. PICK p : /\ p = SubSeq(s, 1, l) /\ p \in Seq(S) /\ Len(p) = IF 1 <= l THEN l - 1 + 1 ELSE 0
               /\ \A k \in 1..(l - 1 + 1) : p[k] = s[1 + k - 1]
  <2>1. (\A k \in 1..l : s[k] \in S) /\ 1 \in Int
    BY <1>1, <1>2
  <2>2. /\ SubSeq(s, 1, l) \in Seq(S) /\ Len(SubSeq(s, 1, l)) = IF 1 <= l THEN l - 1 + 1 ELSE 0
        /\ \A k \in 1..(l - 1 + 1) : SubSeq(s, 1, l)[k] = s[1 + k - 1]
    BY <2>1, SubSeqProperties
  <2> QED
    BY <2>2
<1>5. PICK q : /\ q = SubSeq(s, f, n) /\ q \in Seq(S) /\ Len(q) = IF f <= n THEN n - f + 1 ELSE 0
               /\ \A k \in 1..(n - f + 1) : q[k] = s[f + k - 1]
  <2>1. (\A k \in f..n : s[k] \in S) /\ n \in Int
    BY <1>1, <1>3
  <2>2. /\ SubSeq(s, f, n) \in Seq(S) /\ Len(SubSeq(s, f, n)) = IF f <= n THEN n - f + 1 ELSE 0
        /\ \A k \in 1..(n - f + 1) : SubSeq(s, f, n)[k] = s[f + k - 1]
    BY <2>1, SubSeqProperties
  <2> QED
    BY <2>2
<1>6. Len(p) = i - 1 /\ Len(q) = n - i
  BY <1>1, <1>2, <1>3, <1>4, <1>5
<1>7. PICK r : /\ r = p \o q /\ r \in Seq(S) /\ Len(r) = Len(p) + Len(q)
               /\ \A k \in 1..(Len(p) + Len(q)) : r[k] =
                    IF k <= Len(p) THEN p[k] ELSE q[k - Len(p)]
  <2>1. /\ p \o q \in Seq(S) /\ Len(p \o q) = Len(p) + Len(q)
        /\ \A k \in 1..(Len(p) + Len(q)) : (p \o q)[k] =
                    IF k <= Len(p) THEN p[k] ELSE q[k - Len(p)]
    BY <1>4, <1>5, ConcatProperties
  <2> QED
    BY <2>1
<1>8. Len(r) = n - 1
  BY <1>1, <1>6, <1>7
<1>9. ASSUME NEW k \in 1..(n - 1) PROVE r[k] = IF k < i THEN s[k] ELSE s[k + 1]
  <2>1. r[k] = IF k <= i - 1 THEN p[k] ELSE q[k - (i - 1)]
    <3>1. k \in 1..((i - 1) + (n - i))
      BY <1>1
    <3> QED
      BY <1>6, <1>7, <3>1
  <2>2. CASE k < i
    <3>1. k \in 1..(l - 1 + 1) /\ 1 + k - 1 = k /\ k <= i - 1
      BY <1>1, <1>2, <2>2
    <3> QED
      BY <1>4, <2>1, <2>2, <3>1
  <2>3. CASE ~(k < i)
    <3>1. k - (i - 1) \in 1..(n - f + 1) /\ f + (k - (i - 1)) - 1 = k + 1 /\ ~(k <= i - 1)
      BY <1>1, <1>3, <2>3
    <3> QED
      BY <1>5, <2>1, <2>3, <3>1
  <2> QED
    BY <2>2, <2>3
<1>10. Ranges!RemoveAt(s, i) = r
  BY <1>1, <1>2, <1>3, <1>4, <1>5, <1>7 DEF Ranges!RemoveAt
<1> QED
  BY <1>1, <1>7, <1>8, <1>9, <1>10

\* Steps that add a range.
LEMMA AddIs ==
  ASSUME Assumptions, MapInv, NEW b \in Bases, NEW s \in Sizes, NEW i \in Ids,
                              Ranges!mmio_map_add(b, s, i)
  PROVE  /\ MapInv' /\ Ranges!Entries' = Ranges!Entries \cup {[base |-> b, size |-> s, id |-> i]}
         /\ [base |-> b, size |-> s, id |-> i] \in Ranges!Entry
         /\ \A e \in Ranges!Entries : e.base # b
<1>1. PICK e \in Ranges!Entry, m \in Seq(Ranges!Entry), n \in Nat :
        /\ e = [base |-> b, size |-> s, id |-> i] /\ e.base = b
        /\ m = map /\ n = Len(m) /\ n < MAX_MMIO_ENTRIES
  BY DEF MapInv, Ranges!Entry, Ranges!mmio_map_add
<1>2. /\ map' = Append(m, e) /\ map' \in Seq(Ranges!Entry) /\ Len(map') = n + 1 /\ map'[n + 1] = e
      /\ \A k \in 1..n : map'[k] = m[k]
      /\ synced' = FALSE /\ mapped' = mapped
  BY <1>1, AppendIs DEF Ranges!mmio_map_add
<1>3. \A k \in 1..n : m[k].base # b
  BY <1>1 DEF Ranges!mmio_map_add, Ranges!Has
<1>4. \A k \in 1..(n + 1) : k \in 1..n \/ k = n + 1
  OBVIOUS
<1>5. Alone'
  <2> SUFFICES ASSUME NEW j \in 1..(n + 1), NEW k \in 1..(n + 1), map'[j].base = map'[k].base
               PROVE  j = k
    BY <1>2 DEF Alone
  <2> QED
    BY <1>1, <1>2, <1>3, <1>4 DEF MapInv, Alone
<1>6. Len(map') <= MAX_MMIO_ENTRIES
  BY <1>1, <1>2 DEF Assumptions, Ranges!EntryAssumption
<1>7. MapInv'
  BY <1>1, <1>2, <1>5, <1>6 DEF MapInv, Synced
<1>8. Ranges!Entries' = Ranges!Entries \cup {e}
  <2>1. Ranges!Entries' = {map'[k] : k \in 1..(n + 1)} /\ Ranges!Entries = {m[k] : k \in 1..n}
    BY <1>1, <1>2 DEF Ranges!Entries
  <2>2. n + 1 \in 1..(n + 1) /\ \A k \in 1..n : k \in 1..(n + 1)
    OBVIOUS
  <2> QED
    BY <1>2, <1>4, <2>1, <2>2
<1>9. \A x \in Ranges!Entries : x.base # b
  BY <1>1, <1>3 DEF Ranges!Entries
<1> QED
  BY <1>1, <1>7, <1>8, <1>9

\* Steps that remove one.
LEMMA TakeIs ==
  ASSUME Assumptions, MapInv, NEW b \in Bases, Ranges!mmio_map_remove(b)
  PROVE  MapInv' /\ \E e \in Ranges!Entries : e \in Ranges!Entry
         /\ Ranges!Entries' = Ranges!Entries \ {e}
<1>1. PICK m \in Seq(Ranges!Entry), n \in Nat : m = map /\ n = Len(m) /\ n <= MAX_MMIO_ENTRIES
  BY DEF MapInv
<1>2. PICK i \in 1..n : map' = Ranges!RemoveAt(m, i) /\ UNCHANGED <<mapped, synced>>
  BY <1>1 DEF Ranges!mmio_map_remove
<1>3. /\ map' \in Seq(Ranges!Entry) /\ Len(map') = n - 1
      /\ \A k \in 1..(n - 1) : map'[k] = IF k < i THEN m[k] ELSE m[k + 1]
  BY <1>1, <1>2, RemoveIs
<1> DEFINE Old(k) == IF k < i THEN k ELSE k + 1
<1>4. /\ \A k \in 1..(n - 1) : Old(k) \in 1..n /\ Old(k) # i
      /\ \A j \in 1..(n - 1) : \A k \in 1..(n - 1) : Old(j) = Old(k) => j = k
      /\ \A k \in 1..n : k # i => \E j \in 1..(n - 1) : Old(j) = k
  <2>1. ASSUME NEW k \in 1..n, k # i PROVE \E j \in 1..(n - 1) : Old(j) = k
    <3>1. CASE k < i
      BY <3>1
    <3>2. CASE k > i
      <4>1. k - 1 \in 1..(n - 1) /\ Old(k - 1) = k
        BY <3>2
      <4> QED
        BY <4>1
    <3> QED
      BY <2>1, <3>1, <3>2
  <2> QED
    BY <2>1
<1>5. \A k \in 1..(n - 1) : map'[k] = m[Old(k)]
  BY <1>3
<1> HIDE DEF Old
<1>6. \A j \in 1..n : \A k \in 1..n : m[j].base = m[k].base => j = k
  BY <1>1 DEF MapInv, Alone
<1>7. Alone'
  <2> SUFFICES ASSUME NEW j \in 1..(n - 1), NEW k \in 1..(n - 1), map'[j].base = map'[k].base
               PROVE  j = k
    BY <1>3 DEF Alone
  <2>1. Old(j) \in 1..n /\ Old(k) \in 1..n /\ m[Old(j)].base = m[Old(k)].base
    BY <1>4, <1>5
  <2>2. Old(j) = Old(k)
    BY <1>6, <2>1
  <2> QED
    BY <1>4, <2>2
<1>8. Ranges!Entries' = Ranges!Entries \ {m[i]}
  <2>1. Ranges!Entries' = {map'[k] : k \in 1..(n - 1)} /\ Ranges!Entries = {m[k] : k \in 1..n}
    BY <1>1, <1>3 DEF Ranges!Entries
  <2>2. \A k \in 1..n : m[k] = m[i] => k = i
    BY <1>6
  <2>3. ASSUME NEW x \in Ranges!Entries' PROVE x \in Ranges!Entries \ {m[i]}
    <3>1. PICK k \in 1..(n - 1) : x = m[Old(k)]
      BY <1>5, <2>1
    <3> QED
      BY <1>4, <2>1, <2>2, <3>1
  <2>4. ASSUME NEW x \in Ranges!Entries \ {m[i]} PROVE x \in Ranges!Entries'
    <3>1. PICK k \in 1..n : x = m[k] /\ k # i
      BY <2>1
    <3>2. PICK j \in 1..(n - 1) : Old(j) = k
      BY <1>4, <3>1
    <3>3. x = map'[j]
      BY <1>5, <3>1, <3>2
    <3> QED
      BY <2>1, <3>3
  <2> QED
    BY <2>3, <2>4
<1>9. m[i] \in Ranges!Entries /\ m[i] \in Ranges!Entry
  BY <1>1 DEF Ranges!Entries
<1>10. Len(map') <= MAX_MMIO_ENTRIES
  BY <1>1, <1>3 DEF Assumptions, Ranges!EntryAssumption
<1>11. MapInv'
  BY <1>2, <1>3, <1>7, <1>8, <1>10 DEF MapInv, Synced
<1> QED
  BY <1>8, <1>9, <1>11

\* Steps that map and unmap the pages.
LEMMA BeforeIs ==
  ASSUME Assumptions, MapInv, NEW i \in 1..Len(map), NEW n \in 0..Ranges!Pages(map[i])
  PROVE  Ranges!Before(i, n) \subseteq {Ranges!Page(a) : a \in Ranges!Addresses}
<1>1. \A j \in 1..Len(map) : map[j] \in Ranges!Entry
  BY DEF MapInv
<1>2. Ranges!First(map[i], n) \subseteq {Ranges!Page(a) : a \in Ranges!Addresses}
  BY <1>1, PagesHaveBytes
<1>3. ASSUME NEW j \in 1..(i - 1)
      PROVE  Ranges!First(map[j], Ranges!Pages(map[j]))
               \subseteq {Ranges!Page(a) : a \in Ranges!Addresses}
  <2>1. j \in 1..Len(map)
    BY DEF MapInv
  <2>2. Ranges!Pages(map[j]) \in 0..Ranges!Pages(map[j])
    BY <1>1, <2>1, PagesIs
  <2> QED
    BY <1>1, <2>1, <2>2, PagesHaveBytes
<1> QED
  BY <1>2, <1>3 DEF Ranges!Before, Ranges!Whole

LEMMA MapPagesKeep ==
  ASSUME Assumptions, MapInv, Ranges!mmio_map_pages \/ Ranges!mmio_unmap_pages
  PROVE  MapInv' /\ UNCHANGED map
<1>1. UNCHANGED map /\ map \in Seq(Ranges!Entry)
  BY DEF Ranges!mmio_map_pages, Ranges!mmio_unmap_pages, MapInv
<1>2. CASE Ranges!mmio_unmap_pages
  BY <1>1, <1>2 DEF Ranges!mmio_unmap_pages, MapInv, Alone, Synced
<1>3. CASE Ranges!mmio_map_pages
  <2>1. CASE mapped' = mapped \cup Ranges!Whole(Len(map)) /\ synced' = TRUE
    <3>1. Ranges!Whole(Len(map)) = UNION {Ranges!First(e, Ranges!Pages(e)) : e \in Ranges!Entries}
      BY DEF Ranges!Whole, Ranges!Entries
    <3>2. ASSUME NEW e \in Ranges!Entries PROVE Ranges!First(e,
                 Ranges!Pages(e)) \subseteq {Ranges!Page(a) : a \in Ranges!Addresses}
      <4>1. e \in Ranges!Entry
        BY <1>1 DEF Ranges!Entries
      <4>2. Ranges!Pages(e) \in 0..Ranges!Pages(e)
        BY <4>1, PagesIs
      <4> QED
        BY <4>1, <4>2, PagesHaveBytes
    <3> QED
      BY <1>1, <2>1, <3>1, <3>2 DEF MapInv, Alone, Synced, Ranges!Entries
  <2>2. CASE \E i \in 1..Len(map) : \E n \in 0..(Ranges!Pages(map[i]) - 1) :
               mapped' = mapped \cup Ranges!Before(i, n) /\ synced' = FALSE
    <3>1. PICK i \in 1..Len(map) : \E n \in 0..(Ranges!Pages(map[i]) - 1) :
            mapped' = mapped \cup Ranges!Before(i, n) /\ synced' = FALSE
      BY <2>2
    <3>2. Ranges!Pages(map[i]) \in Nat
      BY <1>1, PagesIs
    <3>3. PICK n \in 0..Ranges!Pages(map[i]) : mapped' = mapped \cup Ranges!Before(i, n)
          /\ synced' = FALSE
      BY <3>1, <3>2
    <3>4. Ranges!Before(i, n) \subseteq {Ranges!Page(a) : a \in Ranges!Addresses}
      BY BeforeIs
    <3> QED
      BY <1>1, <3>3, <3>4 DEF MapInv, Alone, Synced
  <2> QED
    BY <1>3, <2>1, <2>2 DEF Ranges!mmio_map_pages
<1> QED
  BY <1>1, <1>2, <1>3

LEMMA MapStep ==
  ASSUME Assumptions, MapInv, [Ranges!Next]_(Ranges!vars)
  PROVE  MapInv'
<1>1. CASE UNCHANGED Ranges!vars
  BY <1>1 DEF Ranges!vars, MapInv, Alone, Synced, Ranges!Entries
<1> QED
  BY <1>1, AddIs, TakeIs, MapPagesKeep DEF Ranges!Next

LEMMA MapInit ==
  ASSUME Assumptions, Ranges!Init
  PROVE  MapInv
<1>1. map = <<>> /\ Len(map) = 0 /\ 1..0 = {} /\ map \in Seq(Ranges!Entry)
      /\ 0 <= MAX_MMIO_ENTRIES
  BY DEF Ranges!Init, Assumptions, Ranges!EntryAssumption
<1> QED
  BY <1>1 DEF Ranges!Init, MapInv, Alone, Synced


\* The invariant says that the addresses are mapped, and types the state.
LEMMA MapSays ==
  ASSUME Assumptions, MapInv
  PROVE  Ranges!TypeOK /\ Ranges!RangesAreMapped
<1>1. Ranges!Entries \subseteq Ranges!Entry
  BY DEF MapInv, Ranges!Entries
<1>2. Ranges!TypeOK
  BY <1>1 DEF MapInv, Ranges!TypeOK
<1>3. ASSUME synced, NEW a \in Ranges!Bytes PROVE Ranges!Page(a) \in mapped
  <2>1. PICK e \in Ranges!Entries : a \in e.base..(e.base + e.size - 1)
    BY DEF Ranges!Bytes
  <2>2. Ranges!Page(a) \in Ranges!First(e, Ranges!Pages(e))
    BY <1>1, <2>1, BytesHavePages
  <2> QED
    BY <1>3, <2>1, <2>2 DEF MapInv, Synced
<1> QED
  BY <1>2, <1>3 DEF Ranges!RangesAreMapped

-----------------------------------------------------------------------------
(***************************************************************************)
(* An aligned access that begins in a range of aligned size ends in it.    *)
(***************************************************************************)
LEMMA AlignedStays ==
  ASSUME NEW b \in Nat, NEW s \in Nat, NEW a \in Nat, NEW size \in {1, 2, 4},
         b % 4 = 0, s % 4 = 0, a % size = 0, a >= b, a < b + s
  PROVE  a + size <= b + s
<1>1. CASE size = 1
  BY <1>1
<1>2. CASE size = 2
  BY <1>2
<1>3. CASE size = 4
  BY <1>3
<1> QED
  BY <1>1, <1>2, <1>3

LEMMA AccessesStay ==
  ASSUME Assumptions, MapInv
  PROVE  Ranges!AlignedAccessesStay
<1> SUFFICES ASSUME NEW a \in Ranges!Addresses, NEW size \in 1..8, NEW rid \in Ids,
                    a % size = 0, \A e \in Ranges!Entries : e.size % 4 = 0
             PROVE  /\ Ranges!Stays(Ranges!mmio_read(a, size, rid), rid)
                    /\ Ranges!InRanges(Ranges!mmio_read(a, size, 0))
  BY DEF Ranges!AlignedAccessesStay
<1>1. a \in Nat
  <2>1. a \in UNION {UNION {b..(b + s) : s \in Sizes} : b \in Bases}
    BY DEF Ranges!Addresses
  <2>2. PICK b \in Bases, s \in Sizes : a \in b..(b + s)
    BY <2>1
  <2> QED
    BY <2>1, <2>2 DEF Assumptions, Ranges!BasesAssumption, Ranges!EntryAssumption
<1>2. \A i \in 1..Len(map) : map[i] \in Ranges!Entries /\ map[i] \in Ranges!Entry
  BY DEF MapInv, Ranges!Entries
<1>3. ASSUME NEW i \in Ranges!FirstOf(a), size \in {1, 2, 4}, NEW x \in a..(a + size - 1)
      PROVE  map[i] \in Ranges!Entries /\ Ranges!Within(x, map[i]) /\ x \in Ranges!Bytes
  <2>1. PICK e \in Ranges!Entry : e = map[i] /\ e \in Ranges!Entries
    BY <1>2 DEF Ranges!FirstOf
  <2>2. e.base \in Nat /\ e.size \in Nat /\ e.base % 4 = 0
    BY <2>1, EntryIs
  <2>3. a >= e.base /\ a < e.base + e.size /\ e.size % 4 = 0
    BY <2>1 DEF Ranges!FirstOf, Ranges!Within
  <2>4. a + size <= e.base + e.size
    BY <1>1, <1>3, <2>2, <2>3, AlignedStays
  <2>5. x >= e.base /\ x < e.base + e.size /\ x \in e.base..(e.base + e.size - 1)
    BY <1>1, <2>2, <2>3, <2>4
  <2> QED
    BY <2>1, <2>5 DEF Ranges!Within, Ranges!Bytes
<1>4. ASSUME NEW x \in Ranges!mmio_read(a, size, rid)
      PROVE  \E e \in Ranges!Entries : Ranges!Within(x, e) /\ e.id = rid
  <2>1. PICK i \in Ranges!FirstOf(a) : rid \in {0, map[i].id} /\ size \in {1, 2, 4}
        /\ x \in a..(a + size - 1)
    BY DEF Ranges!mmio_read
  <2>2. rid # 0
    BY DEF Assumptions, Ranges!EntryAssumption
  <2> QED
    BY <1>3, <2>1, <2>2
<1>5. ASSUME NEW x \in Ranges!mmio_read(a, size, 0)
      PROVE  x \in Ranges!Bytes
  <2>1. PICK i \in Ranges!FirstOf(a) : size \in {1, 2, 4} /\ x \in a..(a + size - 1)
    BY DEF Ranges!mmio_read
  <2> QED
    BY <1>3, <2>1
<1> QED
  BY <1>4, <1>5 DEF Ranges!Stays, Ranges!InRanges

LEMMA MapIsSound ==
  ASSUME Assumptions, MapInv
  PROVE  Ranges!RangesAreSound
BY MapSays, AccessesStay DEF Ranges!RangesAreSound

-----------------------------------------------------------------------------
(***************************************************************************)
(* The array is a set of ranges.                                           *)
(***************************************************************************)
LEMMA EntriesAre ==
  ASSUME MapInv
  PROVE  IsFiniteSet(Ranges!Entries) /\ Cardinality(Ranges!Entries) \in Nat
         /\ Cardinality(Ranges!Entries) <= Len(map)
<1>1. PICK n \in Nat : n = Len(map)
  BY DEF MapInv
<1>2. PICK m \in [1..n -> Ranges!Entries] : m = map
  BY <1>1 DEF MapInv, Ranges!Entries
<1>3. \A e \in Ranges!Entries : \E k \in 1..n : m[k] = e
  BY <1>1, <1>2 DEF Ranges!Entries
<1>4. m \in Surjection(1..n, Ranges!Entries)
  BY <1>3, Fun_IsSurj
<1>5. IsFiniteSet(1..n) /\ Cardinality(1..n) = n
  BY FS_Interval
<1>6. IsFiniteSet(Ranges!Entries) /\ Cardinality(Ranges!Entries) <= Cardinality(1..n)
  BY <1>4, <1>5, FS_Surjection
<1> QED
  BY <1>1, <1>5, <1>6, FS_CardinalityType

LEMMA SameCardinality ==
  ASSUME NEW S
  PROVE  Ranges!Table!Cardinality(S) = Cardinality(S)
BY DEF Ranges!Table!Cardinality, Cardinality

LEMMA TableInit ==
  ASSUME Ranges!Init
  PROVE  Ranges!Table!Init
BY DEF Ranges!Init, Ranges!Table!Init, Ranges!Entries

LEMMA TableStep ==
  ASSUME Assumptions, MapInv, [Ranges!Next]_(Ranges!vars)
  PROVE  Ranges!Table!Step
<1>1. CASE UNCHANGED map
  BY <1>1 DEF Ranges!Table!Step, Ranges!Entries
<1>2. ASSUME NEW b \in Bases, NEW s \in Sizes, NEW i \in Ids, Ranges!mmio_map_add(b, s, i)
      PROVE  Ranges!Table!Step
  <2>1. PICK e \in Ranges!Entry : /\ e = [base |-> b, size |-> s, id |-> i]
                           /\ Ranges!Entries' = Ranges!Entries \cup {e}
                              /\ \A o \in Ranges!Entries : o.base # e.base
    BY <1>2, AddIs
  <2>2. Cardinality(Ranges!Entries) < MAX_MMIO_ENTRIES
    <3>1. Cardinality(Ranges!Entries) \in Nat /\ Cardinality(Ranges!Entries) <= Len(map)
      BY EntriesAre
    <3>2. Len(map) < MAX_MMIO_ENTRIES /\ Len(map) \in Nat /\ MAX_MMIO_ENTRIES \in Nat
      BY <1>2 DEF Ranges!mmio_map_add, MapInv, Assumptions, Ranges!EntryAssumption
    <3> QED
      BY <3>1, <3>2
  <2>3. Ranges!Table!Add(e)
    BY <2>1, <2>2, SameCardinality DEF Ranges!Table!Add
  <2> QED
    BY <2>3 DEF Ranges!Table!Step, Ranges!Table!Next
<1>3. ASSUME NEW b \in Bases, Ranges!mmio_map_remove(b)
      PROVE  Ranges!Table!Step
  BY <1>3, TakeIs DEF Ranges!Table!Step, Ranges!Table!Next, Ranges!Table!Remove
<1> QED
  BY <1>1, <1>2, <1>3, MapPagesKeep DEF Ranges!Next, Ranges!vars

LEMMA MapInvariance == Ranges!Spec => []MapInv
<1>1. Ranges!Init => MapInv
  BY MapInit, RangesConstants DEF Assumptions
<1>2. MapInv /\ [Ranges!Next]_(Ranges!vars) => MapInv'
  BY MapStep, RangesConstants DEF Assumptions
<1> QED
  BY <1>1, <1>2, PTL DEF Ranges!Spec

\* Every byte of every range is mapped, and aligned accesses stay in the ranges.
THEOREM TableCorrect == Ranges!Spec => []Ranges!RangesAreSound
<1>1. MapInv => Ranges!RangesAreSound
  BY MapIsSound, RangesConstants DEF Assumptions
<1> QED
  BY <1>1, MapInvariance, PTL

\* The array, its search for a base and the shift of a removal are a set of ranges.
THEOREM TableRefinement == Ranges!Spec => Ranges!ImplementsAbstractRanges
<1>1. Ranges!Init => Ranges!Table!Init
  BY TableInit
<1>2. MapInv /\ [Ranges!Next]_(Ranges!vars) => [Ranges!Table!Next]_(Ranges!Entries)
  BY TableStep, RangesConstants DEF Assumptions, Ranges!Table!Step
<1> QED
  BY <1>1, <1>2, MapInvariance, PTL
  DEF Ranges!Spec, Ranges!ImplementsAbstractRanges, Ranges!Table!Spec

-----------------------------------------------------------------------------
(***************************************************************************)
(* The same in the behaviours of MCSpaces, where page tables may be the    *)
(* subject.                                                                *)
(***************************************************************************)
MCInv == subject = "mmio" => MapInv

LEMMA MCInvariance == MCSpec => []MCInv
<1>1. MCInit => MCInv
  BY MapInit, RangesConstants DEF MCInit, MCInv, Assumptions
<1>2. subject = "mmio" /\ [MCNext]_<<vars, mmio, subject>> => [Ranges!Next]_(Ranges!vars)
  BY DEF MCNext, mmio, Ranges!vars
<1>3. MCInv /\ [MCNext]_<<vars, mmio, subject>> => MCInv'
  BY <1>2, MapStep, RangesConstants DEF MCNext, MCInv, Assumptions
<1> QED
  BY <1>1, <1>3, PTL DEF MCSpec

\* Every byte of every range is mapped, and aligned accesses stay in the ranges.
THEOREM RangesCorrect == MCSpec => []RangesAreSound
<1>1. MCInv => RangesAreSound
  BY MapIsSound, RangesConstants DEF RangesAreSound, MCInv, Assumptions
<1> QED
  BY <1>1, MCInvariance, PTL

\* The array is a set of ranges.
THEOREM RangesRefinement == MCSpec => ImplementsAbstractRanges
<1>1. MCInit => Ranges!Table!Init
  BY TableInit DEF MCInit
<1>2. MCInv /\ [MCNext]_<<vars, mmio, subject>> => [Ranges!Table!Step]_mmio
  <2> SUFFICES ASSUME MCInv, [MCNext]_<<vars, mmio, subject>>, ~UNCHANGED mmio
               PROVE  Ranges!Table!Step
    OBVIOUS
  <2>1. subject = "mmio" /\ [Ranges!Next]_(Ranges!vars)
    BY DEF MCNext, mmio, Ranges!vars
  <2> QED
    BY <2>1, TableStep, RangesConstants DEF MCInv, Assumptions
<1> QED
  BY <1>1, <1>2, MCInvariance, PTL DEF MCSpec, ImplementsAbstractRanges
=============================================================================
