------------------------------ MODULE PageTable ------------------------------
(***************************************************************************)
(* SV39 page tables (kernel/src/page_table.c).  Addresses are page         *)
(* numbers.  A table is the contents of a physical page, and a call walks  *)
(* down one level per step; a range is one call per page.  Pages that hold *)
(* data come and go between the steps, as other harts allocate and free    *)
(* them, and what they hold is anything.                                   *)
(***************************************************************************)
EXTENDS Integers

CONSTANTS
  ENTRIES,    \* entries of a table: 512
  Frames,     \* the pages of the allocator
  PhysPages,  \* the page numbers that callers map
  VirtPages,  \* the virtual page numbers callers use
  MaxRange,   \* bound on the pages of a range
  Junk        \* what a page holds that is not a table

Levels == 0..2
Index  == 0..(ENTRIES - 1)
Slots  == [Levels -> Index]

FREE == -1
DATA == -2

ASSUME EntriesAssumption == ENTRIES \in Nat \ {0}
ASSUME PhysAssumption    == PhysPages \subseteq Nat
ASSUME VirtAssumption    == VirtPages \subseteq Nat
ASSUME RangeAssumption   == MaxRange \in Nat

\* An entry by its flags: "none" without PTE_V, "leaf" with PTE_R, PTE_W or
\* PTE_X, which all callers of map_page() give, "table" with PTE_V only.
PTE   == [kind : {"none", "table", "leaf"}, ppn : Nat \cup Frames]
NoPTE == [kind |-> "none", ppn |-> 0]

ASSUME JunkAssumption == Junk \subseteq [Index -> PTE]

VARIABLES
  use,   \* what a page is: free, data, or a table of some level
  mem,   \* the entries of each page
  call,  \* the call in progress
  last   \* the call that has returned last, with its result

vars == <<use, mem, call, last>>

Idle  == [op |-> "idle"]
Ready == call = Idle
Free  == {f \in Frames : use[f] = FREE}
Roots == {f \in Frames : use[f] = 2}

get_vpn_indices(va) ==
  [l \in Levels |-> IF l = 0 THEN va % ENTRIES
                    ELSE IF l = 1 THEN (va \div ENTRIES) % ENTRIES
                    ELSE (va \div (ENTRIES * ENTRIES)) % ENTRIES]

Table == [i \in Index |-> NoPTE]
Leaf(pa)    == [kind |-> "leaf", ppn |-> pa]
Pointer(f)  == [kind |-> "table", ppn |-> f]

Init ==
  /\ use = [f \in Frames |-> FREE]
  /\ mem \in [Frames -> Junk]
  /\ call = Idle
  /\ last = Idle

-----------------------------------------------------------------------------
(***************************************************************************)
(* Pages come and go                                                       *)
(***************************************************************************)
\* The owner of a page writes what it likes, and the allocator its list node.
Scribbled(f) == \E j \in Junk : mem' = [mem EXCEPT ![f] = j]

AllocPage(f) ==
  /\ use[f] = FREE
  /\ use' = [use EXCEPT ![f] = DATA]
  /\ Scribbled(f)
  /\ UNCHANGED <<call, last>>

FreePage(f) ==
  /\ use[f] = DATA
  /\ use' = [use EXCEPT ![f] = FREE]
  /\ Scribbled(f)
  /\ UNCHANGED <<call, last>>

\* Mutant: the page is not cleared.
M_not_cleared(m, f) == m

Cleared(m, f) == [m EXCEPT ![f] = Table]

\* Without a free page create_page_table() returns NULL and changes nothing.
create_page_table(f) ==
  /\ Ready
  /\ use[f] = FREE
  /\ use' = [use EXCEPT ![f] = 2]
  /\ mem' = Cleared(mem, f)
  /\ last' = Idle
  /\ UNCHANGED call

\* What free_process() does: the root is freed, the tables below it stay taken.
FreeRoot(f) ==
  /\ Ready
  /\ use[f] = 2
  /\ use' = [use EXCEPT ![f] = FREE]
  /\ Scribbled(f)
  /\ last' = Idle
  /\ UNCHANGED call

-----------------------------------------------------------------------------
(***************************************************************************)
(* The calls.  map_range(), identity_map() and unmap_range() call          *)
(* map_page() and unmap_page() for one page after the other; a call for a  *)
(* single page is a range of one.                                          *)
(***************************************************************************)
Call(op, r, va, pa, pages) ==
  /\ Ready
  /\ use[r] = 2
  /\ call' = [op |-> op, root |-> r, va |-> va, pa |-> pa, pages |-> pages,
              n |-> 0, level |-> 2, table |-> r]
  /\ last' = Idle
  /\ UNCHANGED <<use, mem>>

map_range(r) ==
  \E va \in VirtPages, pa \in PhysPages, pages \in 1..MaxRange :
    Call("map", r, va, pa, pages)

unmap_range(r) ==
  \E va \in VirtPages, pages \in 1..MaxRange : Call("unmap", r, va, 0, pages)

get_physical_address(r) == \E va \in VirtPages : Call("find", r, va, 0, 1)

is_addr_mapped(r) == \E va \in VirtPages : Call("mapped", r, va, 0, 1)

Vpn   == get_vpn_indices(call.va + call.n)
Entry == mem[call.table][Vpn[call.level]]

Return(ok, ppn) ==
  /\ call' = Idle
  /\ last' = [op |-> call.op, root |-> call.root, va |-> call.va,
              pa |-> call.pa, pages |-> call.pages, ok |-> ok, ppn |-> ppn]

\* Mutant: the last page of a range is left out.
M_one_page_less ==
  IF call.n + 2 < call.pages
  THEN /\ call' = [call EXCEPT !.n = @ + 1, !.level = 2, !.table = call.root]
       /\ last' = last
  ELSE Return(TRUE, 0)

NextPage ==
  IF call.n + 1 < call.pages
  THEN /\ call' = [call EXCEPT !.n = @ + 1, !.level = 2, !.table = call.root]
       /\ last' = last
  ELSE Return(TRUE, 0)

Put(entry) ==
  mem' = [mem EXCEPT ![call.table] = [@ EXCEPT ![Vpn[call.level]] = entry]]

-----------------------------------------------------------------------------
(***************************************************************************)
(* The walk                                                                *)
(***************************************************************************)
\* Mutant: the walk does not stop at level 0.
M_descend_below ==
  /\ ~Ready /\ call.level >= 0
  /\ Entry.kind # "none"
  /\ call' = [call EXCEPT !.table = Entry.ppn, !.level = @ - 1]
  /\ UNCHANGED <<use, mem, last>>

\* An entry with PTE_V above level 0 is followed; only get_physical_address()
\* looks whether it is a leaf.
Descend ==
  /\ ~Ready
  /\ call.level > 0
  /\ Entry.kind # "none"
  /\ ~(call.op = "find" /\ Entry.kind = "leaf")
  /\ call' = [call EXCEPT !.table = Entry.ppn, !.level = @ - 1]
  /\ UNCHANGED <<use, mem, last>>

\* Mutant: the page of another table of that level will do.
M_allocate_used(f) ==
  /\ ~Ready /\ call.op = "map" /\ call.level > 0 /\ Entry.kind = "none"
  /\ use[f] \in {FREE, call.level - 1}
  /\ use' = [use EXCEPT ![f] = call.level - 1]
  /\ mem' = [Cleared(mem, f) EXCEPT ![call.table] =
               [@ EXCEPT ![Vpn[call.level]] = Pointer(f)]]
  /\ call' = [call EXCEPT !.table = f, !.level = @ - 1]
  /\ UNCHANGED last

\* map_page() adds a table where one is missing.
MapAllocate(f) ==
  /\ ~Ready
  /\ call.op = "map"
  /\ call.level > 0
  /\ Entry.kind = "none"
  /\ use[f] = FREE
  /\ use' = [use EXCEPT ![f] = call.level - 1]
  /\ mem' = [Cleared(mem, f) EXCEPT ![call.table] =
               [@ EXCEPT ![Vpn[call.level]] = Pointer(f)]]
  /\ call' = [call EXCEPT !.table = f, !.level = @ - 1]
  /\ UNCHANGED last

\* Without a page it fails; the tables it has added stay, and so do the pages of
\* a range that have been mapped.
MapFails ==
  /\ ~Ready
  /\ call.op = "map"
  /\ call.level > 0
  /\ Entry.kind = "none"
  /\ Free = {}
  /\ Return(FALSE, 0)
  /\ UNCHANGED <<use, mem>>

\* What the entry held is not looked at.
MapSet ==
  /\ ~Ready
  /\ call.op = "map"
  /\ call.level = 0
  /\ Put(Leaf(call.pa + call.n))
  /\ NextPage
  /\ UNCHANGED use

\* Mutant: the first entry that leads to the page is cleared.
M_unmap_table ==
  /\ ~Ready /\ call.op = "unmap" /\ call.level < 2
  /\ Entry.kind # "none"
  /\ Put(NoPTE)
  /\ NextPage
  /\ UNCHANGED use

UnmapClear ==
  /\ ~Ready
  /\ call.op = "unmap"
  /\ call.level = 0
  /\ Entry.kind # "none"
  /\ Put(NoPTE)
  /\ NextPage
  /\ UNCHANGED use

\* unmap_page() and the two lookups fail at the first entry without PTE_V.
Missing ==
  /\ ~Ready
  /\ call.op # "map"
  /\ Entry.kind = "none"
  /\ Return(FALSE, 0)
  /\ UNCHANGED <<use, mem>>

\* Mutant: the page is the one that holds the last table.
M_found_table ==
  /\ ~Ready /\ call.op = "find"
  /\ Entry.kind = "leaf"
  /\ Return(TRUE, call.table)
  /\ UNCHANGED <<use, mem>>

Found ==
  /\ ~Ready
  /\ call.op = "find"
  /\ Entry.kind = "leaf"
  /\ Return(TRUE, Entry.ppn)
  /\ UNCHANGED <<use, mem>>

\* is_addr_mapped() looks for a leaf at level 0 only.
Mapped ==
  /\ ~Ready
  /\ call.op = "mapped"
  /\ call.level = 0
  /\ Entry.kind # "none"
  /\ Return(Entry.kind = "leaf", Entry.ppn)
  /\ UNCHANGED <<use, mem>>

-----------------------------------------------------------------------------
Next ==
  \/ \E f \in Frames :
       \/ AllocPage(f) \/ FreePage(f)
       \/ create_page_table(f) \/ FreeRoot(f)
       \/ map_range(f) \/ unmap_range(f)
       \/ get_physical_address(f) \/ is_addr_mapped(f)
       \/ MapAllocate(f)
  \/ Descend \/ MapFails \/ MapSet \/ UnmapClear \/ Missing \/ Found \/ Mapped

Spec == Init /\ [][Next]_vars

-----------------------------------------------------------------------------
(***************************************************************************)
(* Properties                                                              *)
(***************************************************************************)
Calls ==
  [op : {"map", "unmap", "find", "mapped"}, root : Frames, va : VirtPages,
   pa : Nat, pages : Nat, n : Nat, level : Levels, table : Frames]

Results ==
  [op : {"map", "unmap", "find", "mapped"}, root : Frames, va : VirtPages,
   pa : Nat, pages : Nat, ok : BOOLEAN, ppn : Nat \cup Frames]

TypeOK ==
  /\ use \in [Frames -> {FREE, DATA} \cup Levels]
  /\ mem \in [Frames -> [Index -> PTE]]
  /\ call \in Calls \cup {Idle}
  /\ last \in Results \cup {Idle}

\* What the hardware finds in slot s from root r.
Walk(r, s) ==
  LET e2 == mem[r][s[2]]
      e1 == mem[e2.ppn][s[1]]
      e0 == mem[e1.ppn][s[0]]
  IN IF e2.kind = "none" \/ e1.kind = "none" \/ e0.kind = "none" THEN NoPTE ELSE e0

Entries(t) == {i \in Index : mem[t][i].kind # "none"}
Inner      == {t \in Frames : use[t] \in {1, 2}}

\* An entry above level 0 leads to a table of the next level: never to a page
\* that has been freed or holds data, and never to a leaf.
TablesPointDown ==
  \A t \in Inner : \A i \in Entries(t) :
    /\ mem[t][i].kind = "table"
    /\ mem[t][i].ppn \in Frames
    /\ use[mem[t][i].ppn] = use[t] - 1

\* No table is reached by two entries, of one address space or of two: what is
\* mapped here cannot show up there.
TablesAreNotShared ==
  \A t, u \in Inner : \A i \in Entries(t), j \in Entries(u) :
    mem[t][i].ppn = mem[u][j].ppn => t = u /\ i = j

\* The walk of a lookup takes several steps; its answer is what the tables say when
\* it returns, and get_physical_address() and is_addr_mapped() agree.
LookupsAreRight ==
  last # Idle /\ last.op \in {"find", "mapped"} =>
    LET e == Walk(last.root, get_vpn_indices(last.va))
    IN /\ last.ok = (e.kind = "leaf")
       /\ last.ok => last.ppn = e.ppn

\* A range that has been mapped is mapped page for page, one that has been unmapped
\* is gone, whatever was there before.
RangesAreWhole ==
  last # Idle /\ last.ok =>
    \A n \in 0..(last.pages - 1) :
      LET e == Walk(last.root, get_vpn_indices(last.va + n))
      IN /\ last.op = "map" => e = Leaf(last.pa + n)
         /\ last.op = "unmap" => e = NoPTE

\* map_page() and unmap_page() change one slot of one address space; adding tables,
\* failing, and whatever happens to other pages changes none.
NoSpace == <<>>

SpaceOf(r) == IF use[r] = 2 THEN [s \in Slots |-> Walk(r, s)] ELSE NoSpace

Abstract == INSTANCE AbstractMap WITH
  Roots   <- Frames,
  Pages   <- [kind : {"leaf"}, ppn : Nat \cup Frames],
  Nothing <- NoPTE,
  space   <- [r \in Frames |-> SpaceOf(r)]

ImplementsAbstractMap == Abstract!Spec

\* What is below a root is a tree of tables, three levels of them.
TablesAreATree == TypeOK /\ TablesPointDown /\ TablesAreNotShared

\* What a call returns is so when it returns.
CallsAreRight == LookupsAreRight /\ RangesAreWhole
=============================================================================
