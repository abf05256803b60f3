-------------------------------- MODULE Buddy --------------------------------
(***************************************************************************)
(* The physical page allocator (kernel/src/buddy_allocator.c) and the code *)
(* that calls it.  Addresses are page numbers relative to buddy_base_addr; *)
(* the base itself matters only to the alignment of the first blocks.      *)
(*                                                                         *)
(* The nodes of a free list lie in the free pages themselves.  The model   *)
(* follows the program up to the point where a node comes to lie in a page *)
(* that somebody else writes: from there on the lists hold anything.       *)
(***************************************************************************)
EXTENDS Integers, Sequences, FiniteSets, FiniteSetsExt

CONSTANTS
  BUDDY_MAX_ORDER,
  Regions,     \* the usable regions init may find: [base, pages]
  CallOrders   \* the orders callers ask for

PAGE_SIZE == 4096
WORD_BITS == 64
Orders    == 0..BUDDY_MAX_ORDER

ASSUME OrderAssumption  == BUDDY_MAX_ORDER \in Nat
ASSUME RegionAssumption == Regions \subseteq [base : Nat, pages : Nat \ {0}]
ASSUME CallAssumption   == CallOrders \subseteq Orders

VARIABLES
  region,           \* buddy_base_addr and buddy_total_pages
  phase,            \* "init", "ready", or "halted" by panic_halt()
  current,          \* current_addr of the loop of init
  free_lists,       \* free_lists[k]: the blocks of order k, head first
  bitmap,           \* the pages whose bit is set in allocation_bitmap
  free_pages,       \* buddy_free_pages_count
  allocated_pages,  \* buddy_allocated_pages_count
  live,             \* the blocks callers hold
  merged            \* two blocks of an order above 0 have been merged

vars == <<region, phase, current, free_lists, bitmap, free_pages,
          allocated_pages, live, merged>>

Size(k)     == 2^k
Span(p, k)  == p..(p + Size(k) - 1)
Pages(b)    == Span(b.page, b.order)
Listed(k)   == {free_lists[k][i] : i \in DOMAIN free_lists[k]}

CeilDiv(a, n) == (a + n - 1) \div n

bitmap_size_words(r) == CeilDiv(r.pages, WORD_BITS)
bitmap_pages(r)      == CeilDiv(bitmap_size_words(r) * 8, PAGE_SIZE)
BitmapPages(r)       == 0..(bitmap_pages(r) - 1)

-----------------------------------------------------------------------------
(***************************************************************************)
(* buddy_allocator_init                                                    *)
(***************************************************************************)
Init ==
  /\ region \in Regions
  /\ phase = "init"
  /\ current = bitmap_pages(region)
  /\ free_lists = [k \in Orders |-> <<>>]
  /\ bitmap = BitmapPages(region)
  /\ free_pages = 0
  /\ allocated_pages = 0
  /\ live = {}
  /\ merged = FALSE

\* The largest order that fits into what remains, and where it would go: the
\* absolute address is aligned, not the one relative to the base.
InitOrder ==
  LET remaining == region.pages - current
  IN CHOOSE k \in Orders :
       /\ Size(k) <= remaining
       /\ \A l \in Orders : Size(l) <= remaining => l <= k

InitPlace(k) ==
  CeilDiv(region.base + current, Size(k)) * Size(k) - region.base

\* Mutant: the block is put where the last one ended, and may reach past the end.
M_init_past_end ==
  LET k == InitOrder
      p == InitPlace(k)
  IN /\ phase = "init" /\ current < region.pages
     /\ free_lists' = [free_lists EXCEPT ![k] = <<p>> \o @]
     /\ free_pages' = free_pages + Size(k)
     /\ current' = p + Size(k)
     /\ UNCHANGED <<region, phase, bitmap, allocated_pages, live, merged>>

InitAddBlock ==
  LET k == InitOrder
      p == InitPlace(k)
  IN /\ phase = "init"
     /\ current < region.pages
     /\ p + Size(k) <= region.pages
     /\ free_lists' = [free_lists EXCEPT ![k] = <<p>> \o @]
     /\ free_pages' = free_pages + Size(k)
     /\ current' = p + Size(k)
     /\ UNCHANGED <<region, phase, bitmap, allocated_pages, live, merged>>

\* "Can't fit this block, try smaller": the order is decremented, but the next
\* pass of the loop computes it anew.
InitRetry ==
  /\ phase = "init"
  /\ current < region.pages
  /\ InitPlace(InitOrder) + Size(InitOrder) > region.pages
  /\ UNCHANGED vars

InitDone ==
  /\ phase = "init"
  /\ current >= region.pages
  /\ phase' = "ready"
  /\ UNCHANGED <<region, current, free_lists, bitmap, free_pages,
                 allocated_pages, live, merged>>

-----------------------------------------------------------------------------
\* A page holds a node of a free list and is written by somebody else too, or
\* holds two nodes.
Clobbered ==
  \/ \E k \in Orders, b \in live : Listed(k) \cap Pages(b) # {}
  \/ \E k, l \in Orders : k # l /\ Listed(k) \cap Listed(l) # {}
  \/ \E k \in Orders : Cardinality(Listed(k)) # Len(free_lists[k])

Usable ==
  /\ phase = "ready"
  /\ ~Clobbered

(***************************************************************************)
(* buddy_alloc_pages                                                       *)
(***************************************************************************)
\* Mutant: the counters move by the size of the block that was split.
M_alloc_counts_whole(order) ==
  LET fits == {k \in Orders : k >= order /\ free_lists[k] # <<>>}
      from == Min(fits)
      b    == [page |-> Head(free_lists[from]), order |-> order]
  IN /\ Usable /\ fits # {}
     /\ free_lists' = [k \in Orders |->
          IF k = from THEN Tail(free_lists[k])
          ELSE IF k \in order..(from - 1)
          THEN <<b.page + Size(k)>> \o free_lists[k]
          ELSE free_lists[k]]
     /\ bitmap' = bitmap \cup Pages(b)
     /\ allocated_pages' = allocated_pages + Size(from)
     /\ free_pages' = free_pages - Size(from)
     /\ live' = live \cup {b}
     /\ UNCHANGED <<region, phase, current, merged>>

\* The first block of the smallest order that will do; the upper halves of what
\* it is split into are listed.  Without such a block the call returns NULL.
buddy_alloc_pages(order) ==
  LET fits == {k \in Orders : k >= order /\ free_lists[k] # <<>>}
      from == Min(fits)
      b    == [page |-> Head(free_lists[from]), order |-> order]
  IN /\ Usable
     /\ fits # {}
     /\ free_lists' = [k \in Orders |->
          IF k = from THEN Tail(free_lists[k])
          ELSE IF k \in order..(from - 1)
          THEN <<b.page + Size(k)>> \o free_lists[k]
          ELSE free_lists[k]]
     /\ bitmap' = bitmap \cup Pages(b)
     /\ allocated_pages' = allocated_pages + Size(order)
     /\ free_pages' = free_pages - Size(order)
     /\ live' = live \cup {b}
     /\ UNCHANGED <<region, phase, current, merged>>

(***************************************************************************)
(* buddy_free_pages                                                        *)
(***************************************************************************)
\* The index of the block with bit k inverted: of order 0 that is the buddy, of
\* any other order it is not the neighbour but a block 2^k blocks away.
Buddy(p, k) ==
  LET index == p \div Size(k)
  IN (IF (index \div Size(k)) % 2 = 0 THEN index + Size(k) ELSE index - Size(k))
       * Size(k)

\* Mutant: a block with all its bits clear counts as free, listed or not.
M_free_unlisted(p, k, bits) ==
  /\ Span(p, k) \subseteq 0..(bitmap_size_words(region) * WORD_BITS - 1)
  /\ Span(p, k) \cap bits = {}

buddy_block_really_free(p, k, bits) ==
  /\ Span(p, k) \subseteq 0..(bitmap_size_words(region) * WORD_BITS - 1)
  /\ Span(p, k) \cap bits = {}
  /\ p \in Listed(k)

\* The first node at p is unlinked, if there is one.
Without(s, p) ==
  LET i == Min({j \in DOMAIN s : s[j] = p} \cup {Len(s) + 1})
  IN SubSeq(s, 1, i - 1) \o SubSeq(s, i + 1, Len(s))

Smaller(p, q) == IF p < q THEN p ELSE q

\* place[k]: current_addr when current_order is k, if the merging gets there.
MergeFrom(b, k) ==
  LET place[l \in Orders] ==
        IF l <= b.order THEN b.page
        ELSE Smaller(place[l - 1], Buddy(place[l - 1], l - 1))
  IN place[k]

MergeStop(b, bits) ==
  Min({k \in Orders :
         /\ k >= b.order
         /\ \/ k = BUDDY_MAX_ORDER
            \/ ~buddy_block_really_free(Buddy(MergeFrom(b, k), k), k, bits)})

\* Mutant: the bits of the pages stay set.
M_free_keeps_bits(b) ==
  LET top == MergeStop(b, bitmap)
  IN /\ Usable /\ b \in live /\ Pages(b) \subseteq bitmap
     /\ allocated_pages' = allocated_pages - Size(b.order)
     /\ free_pages' = free_pages + Size(b.order)
     /\ free_lists' = [k \in Orders |->
          IF k = top THEN <<MergeFrom(b, k)>> \o free_lists[k]
          ELSE IF k \in b.order..(top - 1)
          THEN Without(free_lists[k], Buddy(MergeFrom(b, k), k))
          ELSE free_lists[k]]
     /\ merged' = (merged \/ \E k \in b.order..(top - 1) : k > 0)
     /\ live' = live \ {b}
     /\ UNCHANGED <<region, phase, current, bitmap>>

\* Mutant: the block is listed without looking for its buddy.
M_free_no_merge(b) ==
  /\ Usable /\ b \in live /\ Pages(b) \subseteq bitmap
  /\ bitmap' = bitmap \ Pages(b)
  /\ allocated_pages' = allocated_pages - Size(b.order)
  /\ free_pages' = free_pages + Size(b.order)
  /\ free_lists' = [free_lists EXCEPT ![b.order] = <<b.page>> \o @]
  /\ live' = live \ {b}
  /\ UNCHANGED <<region, phase, current, merged>>

\* Everything but the caller's part.
FreeBlock(b) ==
  LET bits == bitmap \ Pages(b)
      top  == MergeStop(b, bits)
  IN /\ Usable
     /\ Pages(b) \subseteq bitmap
     /\ bitmap' = bits
     /\ allocated_pages' = allocated_pages - Size(b.order)
     /\ free_pages' = free_pages + Size(b.order)
     /\ free_lists' = [k \in Orders |->
          IF k = top THEN <<MergeFrom(b, k)>> \o free_lists[k]
          ELSE IF k \in b.order..(top - 1)
          THEN Without(free_lists[k], Buddy(MergeFrom(b, k), k))
          ELSE free_lists[k]]
     /\ merged' = (merged \/ \E k \in b.order..(top - 1) : k > 0)
     /\ UNCHANGED <<region, phase, current>>

buddy_free_pages(b) ==
  /\ b \in live
  /\ FreeBlock(b)
  /\ live' = live \ {b}

\* Double-free detection: the pages before the first free one are cleared.
DoubleFree(b) ==
  /\ Usable
  /\ b \in live
  /\ ~(Pages(b) \subseteq bitmap)
  /\ bitmap' = bitmap \ {p \in Pages(b) : b.page..p \subseteq bitmap}
  /\ phase' = "halted"
  /\ live' = live \ {b}
  /\ UNCHANGED <<region, current, free_lists, free_pages, allocated_pages,
                 merged>>

-----------------------------------------------------------------------------
Next ==
  \/ InitAddBlock \/ InitRetry \/ InitDone
  \/ \E order \in CallOrders : buddy_alloc_pages(order)
  \/ \E b \in live : buddy_free_pages(b) \/ DoubleFree(b)

Spec == Init /\ [][Next]_vars

\* init runs on the boot CPU before anything else does.
FairSpec == Spec /\ WF_vars(InitAddBlock \/ InitRetry \/ InitDone)

-----------------------------------------------------------------------------
(***************************************************************************)
(* Properties                                                              *)
(***************************************************************************)
Blocks == [page : Nat, order : Orders]

TypeOK ==
  /\ region \in Regions
  /\ phase \in {"init", "ready", "halted"}
  /\ current \in Nat
  /\ free_lists \in [Orders -> Seq(Nat)]
  /\ bitmap \subseteq 0..(region.pages - 1)
  /\ free_pages \in Int
  /\ allocated_pages \in Int
  /\ live \subseteq Blocks
  /\ merged \in BOOLEAN

FreeBlocks ==
  UNION {{[page |-> p, order |-> k] : p \in Listed(k)} : k \in Orders}

\* Whatever is merged with whatever, no block ever reaches outside the region or
\* into the bitmap at its start.
BlocksInRegion ==
  \A b \in FreeBlocks \cup live :
    Pages(b) \subseteq bitmap_pages(region)..(region.pages - 1)

Disjoint(S) == \A a, b \in S : a # b => Pages(a) \cap Pages(b) = {}

\* Until two blocks of an order above 0 are merged, every page has one use: it is
\* in one free block or in one block of a caller, never in two.
PagesHaveOneUse ==
  ~merged =>
    /\ ~Clobbered
    /\ Disjoint(FreeBlocks)
    /\ Disjoint(live)
    /\ \A f \in FreeBlocks, b \in live : Pages(f) \cap Pages(b) = {}

\* Until then the bitmap is exact, so that the double-free detection neither
\* misses nor accuses.
BitmapIsExact ==
  ~merged =>
    /\ bitmap = BitmapPages(region) \cup UNION {Pages(b) : b \in live}
    /\ phase # "halted"

\* Until then get_free_page_count() is what can be allocated.
CountsAreExact ==
  ~merged =>
    /\ free_pages = MapThenSumSet(LAMBDA b : Size(b.order), FreeBlocks)
    /\ allocated_pages = MapThenSumSet(LAMBDA b : Size(b.order), live)

\* Two free pages that are buddies do not stay apart (the base being even).
PairsAreMerged ==
  region.base % 2 = 0 /\ ~merged =>
    \A p \in Listed(0) : Buddy(p, 0) \notin Listed(0)

\* A caller's page keeps what the caller wrote to it until it is freed
\* (tests/physical_alloc_test.c:110): nobody else holds the page, and it holds
\* no node of a free list.
PatternsKept ==
  /\ Disjoint(live)
  /\ \A k \in Orders, b \in live : Listed(k) \cap Pages(b) = {}

\* init comes to an end: a block that does not fit makes room for a smaller one
\* (buddy_allocator.c:491).
\* It does not hold, and no run checks it: see What disagrees in the README.
InitEnds == <>(phase = "ready")

\* Lists, bitmap and counters tell the same story about the region.
BooksAreExact ==
  TypeOK /\ BlocksInRegion /\ BitmapIsExact /\ CountsAreExact /\ PairsAreMerged
=============================================================================
