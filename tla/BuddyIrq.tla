------------------------------ MODULE BuddyIrq ------------------------------
(***************************************************************************)
(* Single pages from the page allocator (kernel/src/buddy_allocator.c)     *)
(* while the keyboard interrupts: the allocator takes no lock, main()      *)
(* calls it with interrupts on (main.c:302 and initialize_processes()),    *)
(* and the interrupt handler allocates two pages and frees them.           *)
(*                                                                         *)
(* The caller makes one step per statement, in memory that holds the free  *)
(* lists as the doubly linked lists they are; the handler runs between two *)
(* steps, to its end, as interrupts are off there.  The model follows the  *)
(* program until two blocks of an order above 0 are merged; Buddy shows    *)
(* what that leads to.                                                     *)
(***************************************************************************)
EXTENDS Integers, Sequences, FiniteSets, FiniteSetsExt

CONSTANTS
  BUDDY_MAX_ORDER,
  NumPages,     \* of the region, whose base is aligned to the largest block
  Interruptible,  \* the places of the caller's code at which interrupts are on
  NULL

Orders == 0..BUDDY_MAX_ORDER

\* What every instance assumes of the constants (the MC modules state it).
OrderAssumption == BUDDY_MAX_ORDER \in Nat
PagesAssumption ==
  /\ NumPages \in (2^BUDDY_MAX_ORDER + 1)..(8 * 4096)   \* as many as a page of bits has room for
  /\ NumPages % (2^BUDDY_MAX_ORDER) = 0
NullAssumption  == NULL \notin 0..(NumPages - 1)

VARIABLES
  m,     \* memory: head of each list, next and prev of each page, the bitmap,
         \* the counters, and whether double-free detection has halted the system
  t,     \* the caller: pc, current_order, block, the block it links, and what
         \* memory was when it called
  live,  \* pages callers hold
  merged \* two blocks of an order above 0 have been merged

vars == <<m, t, live, merged>>

\* Where the caller can be: between two calls, and before each statement of a call.
Places == {"idle", "scan", "take", "unlink1", "unlink2", "unlink3", "split", "link1", "link2",
           "link3", "link4", "mark", "count", "uncount", "merge", "find", "join"}

\* Where the next statement relies on what an earlier one has read from the lists: the order
\* that has a block, the block to take and its neighbours, the head to put a block before.
Windows == {"take", "unlink1", "unlink2", "link3", "link4"}

Quiet == t.pc = "idle"
Idle  == [pc |-> "idle", k |-> 0, block |-> NULL, link |-> NULL, before |-> NULL]

\* What callers see: a call takes effect when it returns.
Seen == IF Quiet THEN [mem |-> m, live |-> live] ELSE t.before

\* The list that starts at p, cut off when it is longer than there are pages.
Walk(mem, p) ==
  LET walk[at \in [left : 0..NumPages, page : 0..(NumPages - 1) \cup {NULL}]] ==
        IF at.left = 0 \/ at.page = NULL THEN <<>>
        ELSE <<at.page>> \o walk[[left |-> at.left - 1, page |-> mem.next[at.page]]]
  IN walk[[left |-> NumPages, page |-> p]]

Allocator ==
  INSTANCE Buddy WITH
    Regions <- {[base |-> 0, pages |-> NumPages]}, CallOrders <- {0},
    region <- [base |-> 0, pages |-> NumPages], phase <- "ready", current <- NumPages,
    free_lists <- [k \in Orders |-> Walk(Seen.mem, Seen.mem.head[k])],
    bitmap <- Seen.mem.bits, free_pages <- Seen.mem.free_pages,
    allocated_pages <- Seen.mem.allocated_pages,
    live <- {[page |-> p, order |-> 0] : p \in Seen.live}, merged <- merged

\* The blocks that buddy_allocator_init() lists, the last one first.
Largest == {p \in 1..(NumPages - 1) : p % (2^BUDDY_MAX_ORDER) = 0}

Init ==
  /\ m = [head |-> [k \in Orders |-> IF k = BUDDY_MAX_ORDER /\ Largest # {} THEN Max(Largest) ELSE NULL],
          next |-> [p \in 0..(NumPages - 1) |->
                      IF p \in Largest /\ p # Min(Largest) THEN p - 2^BUDDY_MAX_ORDER ELSE NULL],
          prev |-> [p \in 0..(NumPages - 1) |->
                      IF p \in Largest /\ p # Max(Largest) THEN p + 2^BUDDY_MAX_ORDER ELSE NULL],
          bits |-> {0}, free_pages |-> NumPages - 2^BUDDY_MAX_ORDER, allocated_pages |-> 0,
          halted |-> FALSE]
  /\ t = Idle
  /\ live = {}
  /\ merged = FALSE

-----------------------------------------------------------------------------
(***************************************************************************)
(* Statements                                                              *)
(***************************************************************************)
Unlink1(mem, b, k) ==
  IF mem.prev[b] # NULL THEN [mem EXCEPT !.next[mem.prev[b]] = mem.next[b]]
                        ELSE [mem EXCEPT !.head[k] = mem.next[b]]
Unlink2(mem, b) ==
  IF mem.next[b] # NULL THEN [mem EXCEPT !.prev[mem.next[b]] = mem.prev[b]] ELSE mem
Unlink3(mem, b) == [mem EXCEPT !.next[b] = NULL, !.prev[b] = NULL]

Link1(mem, b)    == [mem EXCEPT !.prev[b] = NULL]
Link2(mem, b, k) == [mem EXCEPT !.next[b] = mem.head[k]]
Link3(mem, b, k) ==
  IF mem.head[k] # NULL THEN [mem EXCEPT !.prev[mem.head[k]] = b] ELSE mem
Link4(mem, b, k) == [mem EXCEPT !.head[k] = b]

Mark(mem, p)  == [mem EXCEPT !.bits = @ \cup {p}]
Clear(mem, p) == IF p \in mem.bits THEN [mem EXCEPT !.bits = @ \ {p}]
                                   ELSE [mem EXCEPT !.halted = TRUE]
Count(mem, n) == [mem EXCEPT !.allocated_pages = @ + n, !.free_pages = @ - n]

Listed(mem, b, k) == \E i \in DOMAIN Walk(mem, mem.head[k]) : Walk(mem, mem.head[k])[i] = b

ReallyFree(mem, b, k) ==
  /\ b + 2^k <= NumPages
  /\ b..(b + 2^k - 1) \cap mem.bits = {}
  /\ Listed(mem, b, k)

-----------------------------------------------------------------------------
(***************************************************************************)
(* The interrupt handler                                                   *)
(***************************************************************************)
Unlink(mem, b, k) == Unlink3(Unlink2(Unlink1(mem, b, k), b), b)
Link(mem, b, k)   == Link4(Link3(Link2(Link1(mem, b), b, k), b, k), b, k)

HasPage(mem)   == \E k \in Orders : mem.head[k] # NULL
FirstList(mem) == Min({k \in Orders : mem.head[k] # NULL})
NextPage(mem)  == mem.head[FirstList(mem)]

AllocPage(mem) ==
  LET from == FirstList(mem)
      b == NextPage(mem)
      split[k \in Orders] ==   \* what the lists of order k and above look like
        IF k >= from THEN Unlink(mem, b, from) ELSE Link(split[k + 1], b + 2^k, k)
  IN Count(Mark(split[0], b), 1)

FreePage(mem, p) ==
  LET step[k \in Orders] ==
        IF k = 0 THEN [mem |-> Count(Clear(mem, p), -1), at |-> p, k |-> 0, ends |-> FALSE]
        ELSE LET s == step[k - 1]
                 b == Allocator!Buddy(s.at, k - 1)
             IN IF s.ends \/ ~ReallyFree(s.mem, b, k - 1) THEN [s EXCEPT !.ends = TRUE]
                ELSE [mem |-> Unlink(s.mem, b, k - 1), at |-> Min({s.at, b}), k |-> k, ends |-> FALSE]
      last == step[BUDDY_MAX_ORDER]
  IN [mem |-> IF last.mem.halted THEN last.mem ELSE Link(last.mem, last.at, last.k), order |-> last.k]

\* Mutant: the keypress is not freed.
M_keypress_kept ==
  /\ ~m.halted /\ ~merged /\ t.pc \in Interruptible
  /\ HasPage(m)
  /\ m' = AllocPage(m)
  /\ UNCHANGED <<t, live, merged>>

\* make_keypress(), keypress_debug() and free_page() of a key; without a page there is no
\* keypress, without a second one it is not printed.
KeyboardInterrupt ==
  /\ ~m.halted /\ ~merged /\ t.pc \in Interruptible
  /\ HasPage(m)
  /\ LET m1 == AllocPage(m)
         m2 == AllocPage(m1)
         m3 == FreePage(m2, NextPage(m1))
         m4 == IF HasPage(m1) THEN FreePage(m3.mem, NextPage(m)) ELSE FreePage(m1, NextPage(m))
     IN /\ m' = m4.mem
        /\ merged' = (merged \/ m4.order > 1 \/ (HasPage(m1) /\ m3.order > 1))
  /\ UNCHANGED <<t, live>>

-----------------------------------------------------------------------------
(***************************************************************************)
(* The interrupted caller                                                  *)
(***************************************************************************)
Runs(pc) == ~m.halted /\ ~merged /\ t.pc = pc
Goto(pc) == t' = [t EXCEPT !.pc = pc]
Call(pc, p) == t' = [pc |-> pc, k |-> 0, block |-> p, link |-> p, before |-> [mem |-> m, live |-> live]]

alloc_page ==
  /\ Runs("idle")
  /\ Call("scan", NULL)
  /\ UNCHANGED <<m, live, merged>>

\* Mutant: an empty list is not passed over.
M_scan_any ==
  /\ Runs("scan")
  /\ t' = [t EXCEPT !.pc = "take"]
  /\ UNCHANGED <<m, live, merged>>

\* Without a block of any order the call returns NULL.
Scan ==
  /\ Runs("scan")
  /\ t' = IF t.k > BUDDY_MAX_ORDER THEN Idle
          ELSE IF m.head[t.k] = NULL THEN [t EXCEPT !.k = @ + 1]
          ELSE [t EXCEPT !.pc = "take"]
  /\ UNCHANGED <<m, live, merged>>

\* The list is read again; its first block may be gone, and the next statement reads
\* block->prev.
Take ==
  /\ Runs("take")
  /\ t' = [t EXCEPT !.block = m.head[t.k], !.link = m.head[t.k],
                    !.pc = IF m.head[t.k] = NULL THEN "fault" ELSE "unlink1"]
  /\ UNCHANGED <<m, live, merged>>

\* buddy_remove_from_free_list(), for an allocation or for the buddy of a freed block.
RemoveStep ==
  \/ Runs("unlink1") /\ m' = Unlink1(m, t.link, t.k) /\ Goto("unlink2")
  \/ Runs("unlink2") /\ m' = Unlink2(m, t.link) /\ Goto("unlink3")
  \/ /\ Runs("unlink3") /\ m' = Unlink3(m, t.link)
     /\ Goto(IF t.link = t.block THEN "split" ELSE "join")

Remove == RemoveStep /\ UNCHANGED <<live, merged>>

\* Mutant: the last half is not given back.
M_split_stops_early ==
  /\ Runs("split")
  /\ t' = IF t.k > 1
          THEN [t EXCEPT !.k = @ - 1, !.link = t.block + 2^(t.k - 1), !.pc = "link1"]
          ELSE [t EXCEPT !.pc = "mark"]
  /\ UNCHANGED <<m, live, merged>>

Split ==
  /\ Runs("split")
  /\ t' = IF t.k > 0
          THEN [t EXCEPT !.k = @ - 1, !.link = t.block + 2^(t.k - 1), !.pc = "link1"]
          ELSE [t EXCEPT !.pc = "mark"]
  /\ UNCHANGED <<m, live, merged>>

\* buddy_add_to_free_list(), of a half that is split off or of the block that is freed.
LinkStep ==
  \/ Runs("link1") /\ m' = Link1(m, t.link) /\ Goto("link2")
  \/ Runs("link2") /\ m' = Link2(m, t.link, t.k) /\ Goto("link3")
  \/ Runs("link3") /\ m' = Link3(m, t.link, t.k) /\ Goto("link4")
  \/ /\ Runs("link4") /\ m' = Link4(m, t.link, t.k)
     /\ IF t.link = t.block THEN t' = Idle ELSE Goto("split")

LinkBlock == LinkStep /\ UNCHANGED <<live, merged>>

MarkAllocated ==
  /\ Runs("mark")
  /\ m' = Mark(m, t.block)
  /\ Goto("count")
  /\ UNCHANGED <<live, merged>>

Return ==
  /\ Runs("count")
  /\ m' = Count(m, 1)
  /\ live' = live \cup {t.block}
  /\ t' = Idle
  /\ UNCHANGED merged

\* Double-free detection, then the counters.
free_page(p) ==
  /\ Runs("idle") /\ p \in live
  /\ m' = Clear(m, p)
  /\ live' = live \ {p}
  /\ Call("uncount", p)
  /\ UNCHANGED merged

Uncount ==
  /\ Runs("uncount")
  /\ m' = Count(m, -1)
  /\ Goto("merge")
  /\ UNCHANGED <<live, merged>>

\* Is the buddy free, and in its list?
Merge ==
  /\ Runs("merge")
  /\ LET b == Allocator!Buddy(t.block, t.k)
     IN IF t.k < BUDDY_MAX_ORDER /\ ReallyFree(m, b, t.k)
        THEN /\ t' = [t EXCEPT !.link = b, !.pc = "find"]
             /\ merged' = (merged \/ t.k > 0)
        ELSE t' = [t EXCEPT !.link = t.block, !.pc = "link1"] /\ UNCHANGED merged
  /\ UNCHANGED <<m, live>>

\* It is looked for again, and need not be there any more.
Find ==
  /\ Runs("find")
  /\ Goto(IF Listed(m, t.link, t.k) THEN "unlink1" ELSE "join")
  /\ UNCHANGED <<m, live, merged>>

Join ==
  /\ Runs("join")
  /\ t' = [t EXCEPT !.block = Min({t.block, t.link}), !.k = @ + 1, !.pc = "merge"]
  /\ UNCHANGED <<m, live, merged>>

Caller ==
  \/ alloc_page \/ Scan \/ Take \/ Remove \/ Split \/ LinkBlock \/ MarkAllocated \/ Return
  \/ Uncount \/ Merge \/ Find \/ Join
  \/ \E p \in live : free_page(p)

Next == Caller \/ KeyboardInterrupt

Spec == Init /\ [][Next]_vars

-----------------------------------------------------------------------------
(***************************************************************************)
(* Properties                                                              *)
(***************************************************************************)
Page == 0..(NumPages - 1)

TypeOK ==
  /\ m.head \in [Orders -> Page \cup {NULL}]
  /\ m.next \in [Page -> Page \cup {NULL}] /\ m.prev \in [Page -> Page \cup {NULL}]
  /\ m.bits \subseteq Page
  /\ m.allocated_pages \in 0..NumPages /\ m.free_pages \in 0..NumPages
  /\ m.halted \in BOOLEAN /\ merged \in BOOLEAN
  /\ t.k \in 0..(BUDDY_MAX_ORDER + 1) /\ t.block \in Page \cup {NULL} /\ t.link \in Page \cup {NULL}
  /\ live \subseteq Page

\* Between two calls every page has one use, and the bitmap and the counters say which:
\* the handler, wherever it ran, has left no trace.
HandlerLeavesNoTrace ==
  Quiet => /\ Allocator!PagesHaveOneUse
           /\ Allocator!BitmapIsExact
           /\ Allocator!CountsAreExact

\* The caller finds the block it has seen, and nobody is accused of freeing a page twice.
NoFault == t.pc # "fault" /\ ~m.halted

\* The linked lists implement the sequences of Buddy: a call does what Buddy says it
\* does, in one step.
BuddyStep == [KeyboardInterrupt \/ merged' \/ Allocator!Next]_(Allocator!vars)
ImplementsBuddy == [][BuddyStep]_vars

\* A caller's page keeps what the caller wrote to it (tests/physical_alloc_test.c:110).
PatternsKept == Quiet /\ ~merged => Allocator!PatternsKept

\* The lists stay whole wherever the keyboard interrupts, but in the Windows: no handler
\* that runs between two calls, or at any other place of a call, makes the caller lose or
\* share a page, fault, or be accused of freeing twice.
ListsAreSound == TypeOK /\ NoFault /\ HandlerLeavesNoTrace
=============================================================================
