------------------------------- MODULE Kalloc -------------------------------
(***************************************************************************)
(* The heap (lib/kalloc.c): blocks of any size in bytes, on top of the     *)
(* page allocator.  Tracing (KALLOC_TRACE) is compiled out.                *)
(***************************************************************************)
EXTENDS Buddy

CONSTANT Sizes  \* the sizes that callers ask for, in bytes

ASSUME SizesAssumption == Sizes \subseteq Nat

VARIABLE held  \* the pieces of memory that callers hold: [page, size]

heap == <<vars, held>>

\* Mutant: the pages needed are rounded down.
M_rounds_down(size) ==
  LET enough == {k \in Orders : Size(k) >= size \div PAGE_SIZE}
  IN IF enough = {} THEN BUDDY_MAX_ORDER ELSE Min(enough)

\* The smallest block with enough pages, or the largest there is.
size_to_order(size) ==
  LET enough == {k \in Orders : Size(k) >= CeilDiv(size, PAGE_SIZE)}
  IN IF enough = {} THEN BUDDY_MAX_ORDER ELSE Min(enough)

\* The block that a caller's pointer lies in.
BlockAt(page) == CHOOSE b \in live : b.page = page

\* kalloc(0) returns NULL, and so does a call that finds no block.
kalloc_impl(size) ==
  /\ size > 0
  /\ buddy_alloc_pages(size_to_order(size))
  /\ held' = held \cup {[page |-> b.page, size |-> size] : b \in live' \ live}

\* What is left of a block without its first page, as blocks.
Rest(b) == {[page |-> b.page + Size(k), order |-> k] : k \in 0..(b.order - 1)}

\* Mutant: two pages go back.
M_frees_two(h) ==
  /\ FreeBlock([page |-> h.page, order |-> 1])
  /\ live' = (live \ {BlockAt(h.page)}) \cup Rest(BlockAt(h.page))
  /\ held' = held \ {h}

\* Mutant: the caller keeps the pointer.
M_kept(h) ==
  /\ FreeBlock([page |-> h.page, order |-> 0])
  /\ live' = (live \ {BlockAt(h.page)}) \cup Rest(BlockAt(h.page))
  /\ UNCHANGED held

\* "We'll assume single page allocations": whatever the block, one page goes back, and
\* the rest stays allocated.
kfree_impl(h) ==
  /\ FreeBlock([page |-> h.page, order |-> 0])
  /\ live' = (live \ {BlockAt(h.page)}) \cup Rest(BlockAt(h.page))
  /\ held' = held \ {h}

HeapInit == Init /\ held = {}

HeapNext ==
  \/ (InitAddBlock \/ InitDone) /\ UNCHANGED held
  \/ \E size \in Sizes : kalloc_impl(size)
  \/ \E h \in held : kfree_impl(h)

-----------------------------------------------------------------------------
(***************************************************************************)
(* Properties                                                              *)
(***************************************************************************)
HeapTypeOK ==
  /\ TypeOK
  /\ held \subseteq [page : Nat, size : Sizes]
  /\ {h.page : h \in held} \subseteq {b.page : b \in live}

\* The bytes of a piece, in whole pages.
Extent(h) == h.page..(h.page + CeilDiv(h.size, PAGE_SIZE) - 1)

\* "Allocates a block of memory of the specified size" (kalloc.h:25): the bytes that were
\* asked for are the caller's, all of them.
BlocksAreLargeEnough ==
  \A h \in held : \E b \in live : b.page = h.page /\ Extent(h) \subseteq Pages(b)

\* What one caller gives back is never part of what another one holds: the pages that
\* kfree() forgets stay out of every list.
PiecesAreOwn ==
  ~merged =>
    /\ \A g, h \in held : g # h => Extent(g) \cap Extent(h) = {}
    /\ \A h \in held, f \in FreeBlocks : Extent(h) \cap Pages(f) = {}

\* "Frees a block of memory that was previously allocated" (kalloc.h:35): when callers hold
\* nothing, nothing is allocated.
\* It does not hold, and no run checks it: see What disagrees in the README.
FreedIsFree == ~merged /\ held = {} => allocated_pages = 0

\* What kalloc() returns is large enough, and nobody else's.
HeapIsSound == HeapTypeOK /\ BlocksAreLargeEnough /\ PiecesAreOwn
=============================================================================
