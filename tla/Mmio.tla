-------------------------------- MODULE Mmio --------------------------------
(***************************************************************************)
(* The table of memory-mapped ranges (lib/mmio.c), the pages it maps one   *)
(* to one, and the accesses it checks.  Page tables are those of           *)
(* AbstractMap: mapping replaces, unmapping fails where nothing is mapped. *)
(* A call is one step: main() makes them before anything else runs.        *)
(***************************************************************************)
EXTENDS Integers, Sequences, SequencesExt

CONSTANTS
  MAX_MMIO_ENTRIES,
  PAGE_SIZE,
  Bases, Sizes, Ids   \* of the ranges that are added

\* What every instance assumes of the constants (the MC modules state it).
BasesAssumption ==
  /\ PAGE_SIZE \in Nat \ {0} /\ PAGE_SIZE % 4 = 0
  /\ \A b \in Bases : b \in Nat /\ b % PAGE_SIZE = 0
EntryAssumption == MAX_MMIO_ENTRIES \in Nat /\ Sizes \subseteq Nat /\ Ids \subseteq Nat \ {0}

VARIABLES
  map,      \* entries of the table
  mapped,   \* pages that are mapped
  synced    \* mmio_map_pages() has mapped every range, and none was added since

vars == <<map, mapped, synced>>

Init == map = <<>> /\ mapped = {} /\ synced = FALSE

-----------------------------------------------------------------------------
(***************************************************************************)
(* The table                                                               *)
(***************************************************************************)
Has(base) == \E i \in 1..Len(map) : map[i].base = base

\* Mutant: a base may be added again.
M_add_again(base, size, id) ==
  /\ Len(map) < MAX_MMIO_ENTRIES
  /\ map' = Append(map, [base |-> base, size |-> size, id |-> id])
  /\ synced' = FALSE
  /\ UNCHANGED mapped

mmio_map_add(base, size, id) ==
  /\ Len(map) < MAX_MMIO_ENTRIES
  /\ ~Has(base)
  /\ map' = Append(map, [base |-> base, size |-> size, id |-> id])
  /\ synced' = FALSE
  /\ UNCHANGED mapped

\* The pages of the range stay mapped.
mmio_map_remove(base) ==
  \E i \in 1..Len(map) :
    /\ map[i].base = base
    /\ map' = RemoveAt(map, i)
    /\ UNCHANGED <<mapped, synced>>

-----------------------------------------------------------------------------
(***************************************************************************)
(* Its pages                                                               *)
(***************************************************************************)
Page(address) == address \div PAGE_SIZE

\* Mutant: the last page is left out unless it is full.
M_full_pages(e) == e.size \div PAGE_SIZE

Pages(e) == (e.size + PAGE_SIZE - 1) \div PAGE_SIZE

\* A loop over the ranges, at page n of range i, has been at the pages of Before(i, n).
First(e, n)  == {Page(e.base) + k : k \in 0..(n - 1)}
Whole(i)     == UNION {First(map[j], Pages(map[j])) : j \in 1..i}
Before(i, n) == Whole(i - 1) \cup First(map[i], n)

\* map_page() may fail; what was mapped stays.
mmio_map_pages ==
  /\ \/ mapped' = mapped \cup Whole(Len(map)) /\ synced' = TRUE
     \/ \E i \in 1..Len(map) : \E n \in 0..(Pages(map[i]) - 1) :
          mapped' = mapped \cup Before(i, n) /\ synced' = FALSE
  /\ UNCHANGED map

\* unmap_page() fails where nothing is mapped, or no more.
Fails(i, n) == Page(map[i].base) + n \notin mapped \ Before(i, n)

mmio_unmap_pages ==
  /\ \/ /\ \A i \in 1..Len(map) : \A n \in 0..(Pages(map[i]) - 1) : ~Fails(i, n)
        /\ mapped' = mapped \ Whole(Len(map))
     \/ \E i \in 1..Len(map) : \E n \in 0..(Pages(map[i]) - 1) :
          /\ Fails(i, n) /\ \A m \in 0..(n - 1) : ~Fails(i, m)
          /\ \A j \in 1..(i - 1) : \A m \in 0..(Pages(map[j]) - 1) : ~Fails(j, m)
          /\ mapped' = mapped \ Before(i, n)
  /\ synced' = FALSE
  /\ UNCHANGED map

-----------------------------------------------------------------------------
(***************************************************************************)
(* Accesses                                                                *)
(***************************************************************************)
\* Mutant: the byte after a range belongs to it.
M_within_end(a, e) == a >= e.base /\ a <= e.base + e.size

Within(a, e) == a >= e.base /\ a < e.base + e.size

FirstOf(a) == {i \in 1..Len(map) : /\ Within(a, map[i])
                                   /\ \A j \in 1..(i - 1) : ~Within(a, map[j])}

\* The bytes that mmio_read() and mmio_write() touch: the first decides.
mmio_read(vaddr, size, rid) ==
  IF size \in {1, 2, 4} /\ \E i \in FirstOf(vaddr) : rid \in {0, map[i].id}
  THEN vaddr..(vaddr + size - 1) ELSE {}

Addresses == UNION {UNION {b..(b + s) : s \in Sizes} : b \in Bases}

Next ==
  \/ \E b \in Bases : mmio_map_remove(b) \/ \E s \in Sizes, i \in Ids : mmio_map_add(b, s, i)
  \/ mmio_map_pages \/ mmio_unmap_pages

Spec == Init /\ [][Next]_vars

-----------------------------------------------------------------------------
(***************************************************************************)
(* Properties                                                              *)
(***************************************************************************)
Entries == {map[i] : i \in 1..Len(map)}
Entry   == [base : Bases, size : Sizes, id : Ids]
Bytes   == UNION {e.base..(e.base + e.size - 1) : e \in Entries}

TypeOK ==
  /\ Len(map) <= MAX_MMIO_ENTRIES /\ Entries \subseteq Entry
  /\ \A p \in mapped : p \in {Page(a) : a \in Addresses}
  /\ synced \in BOOLEAN

Table == INSTANCE AbstractRanges WITH ranges <- Entries, Ranges <- Entry, Most <- MAX_MMIO_ENTRIES

\* The array, its search for a base and the shift of a removal are a set of ranges.
ImplementsAbstractRanges == Table!Spec

\* After mmio_map_pages() every byte of every range is mapped, also the last, until a range
\* is added or unmapped; a removal in between takes no byte of another range away.
RangesAreMapped == synced => \A a \in Bytes : Page(a) \in mapped

Stays(bytes, rid) == \A a \in bytes : \E e \in Entries : Within(a, e) /\ e.id = rid
InRanges(bytes)   == bytes \subseteq Bytes

\* Accesses at a multiple of their size touch no byte outside the ranges, and none outside
\* those of their id, when the sizes of the ranges are multiples of 4.
AlignedAccessesStay ==
  \A a \in Addresses, size \in 1..8, rid \in Ids :
    a % size = 0 /\ (\A e \in Entries : e.size % 4 = 0) =>
      /\ Stays(mmio_read(a, size, rid), rid)
      /\ InRanges(mmio_read(a, size, 0))

\* The id is enforced, whatever the address (mmio.c:143).
\* It does not hold, and no run checks it: see What disagrees in the README.
IdIsEnforced ==
  \A a \in Addresses, size \in 1..8, rid \in Ids : Stays(mmio_read(a, size, rid), rid)

\* The ranges, their pages and the accesses to them agree.
RangesAreSound == TypeOK /\ RangesAreMapped /\ AlignedAccessesStay
=============================================================================
