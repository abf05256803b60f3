------------------------------ MODULE MCMemory ------------------------------
(***************************************************************************)
(* Memory for TLC: the page allocator with callers of pages and with the   *)
(* heap on it (Kalloc), its linked lists under the keyboard's interrupt    *)
(* (BuddyIrq), and the memory of processes (UserMem).  They share no       *)
(* state, so that a behaviour of all of them is a behaviour of each:       *)
(* `subject` says which one this is, and the others stand still.           *)
(***************************************************************************)
EXTENDS Kalloc

CONSTANTS
  p1, p2, NULL,
  ListPages,  \* how many pages the linked lists are of
  Procs, PAGE_BYTES, ENTRIES, Data, ClearPage, Program, CodeSizes, MaxPages, Deltas,  \* of UserMem
  FamilyPools, ResizePools  \* how many pages there may be to allocate

VARIABLES
  subject,
  lists_mem, caller, pages_held, joined,                  \* of BuddyIrq
  total, free, state, sz, kernel, tables, user, call, copied, lost   \* of UserMem

lists   == <<lists_mem, caller, pages_held, joined>>
usermem == <<total, free, state, sz, kernel, tables, user, call, copied, lost>>

\* Regions whose base is a multiple of the largest block, and one whose base is not;
\* init() does not come to an end in the one of 6 pages.
SmallRegions == {[base |-> 0, pages |-> 11], [base |-> 4, pages |-> 12],
                 [base |-> 3, pages |-> 9], [base |-> 0, pages |-> 6]}
HeapRegion   == [base |-> 0, pages |-> 12]
AnyRegion    == SmallRegions \cup {HeapRegion}
AllOrders    == 0..2
\* The last byte of a page, the first of the next, and three pages.
PieceSizes   == {0, 1, 4096, 4097, 12288}

\* A caller that holds a lock during a call, as make_proc() does, and one that keeps
\* interrupts on, as main() does (main.c:302), as long as the keyboard does not interrupt in
\* one of the windows: MCBuddyIrq shows what happens then.
Lists == INSTANCE BuddyIrq WITH
  NumPages <- ListPages, Interruptible <- {"idle"},
  m <- lists_mem, t <- caller, live <- pages_held, merged <- joined
Interrupted == INSTANCE BuddyIrq WITH
  NumPages <- ListPages, Interruptible <- Lists!Places \ Lists!Windows,
  m <- lists_mem, t <- caller, live <- pages_held, merged <- joined

\* Processes that fork, grow and end, and ones that resize themselves and copy.
Users == INSTANCE UserMem WITH
  PAGE_SIZE <- PAGE_BYTES, Clear <- ClearPage, Pools <- FamilyPools \cup ResizePools

FamilyOps == {"fork", "task", "grow", "reap"}
ResizeOps == {"fork", "resize", "copy"}

ASSUME ListsConstants  == Lists!PagesAssumption /\ Lists!NullAssumption
ASSUME UsersConstants  == Users!PoolsAssumption /\ Users!SizeAssumption /\ Users!DataAssumption

MCInit ==
  /\ subject \in {"pages", "heap", "lists", "interrupted", "family", "resize"}
  /\ HeapInit /\ Lists!Init
  /\ IF subject = "pages" THEN region \in SmallRegions ELSE region = HeapRegion
  /\ Users!Init
  /\ CASE subject = "family" -> total \in FamilyPools
       [] subject = "resize" -> total \in ResizePools
       [] OTHER              -> total = CHOOSE n \in FamilyPools : TRUE

MCNext ==
  \/ subject = "pages" /\ Next /\ UNCHANGED <<held, lists, usermem, subject>>
  \/ subject = "heap" /\ HeapNext /\ UNCHANGED <<lists, usermem, subject>>
  \/ subject = "lists" /\ Lists!Next /\ UNCHANGED <<heap, usermem, subject>>
  \/ subject = "interrupted" /\ Interrupted!Next /\ UNCHANGED <<heap, usermem, subject>>
  \/ subject = "family" /\ Users!NextOf(FamilyOps) /\ UNCHANGED <<heap, lists, subject>>
  \/ subject = "resize" /\ Users!NextOf(ResizeOps) /\ UNCHANGED <<heap, lists, subject>>

MCSpec == MCInit /\ [][MCNext]_<<heap, lists, usermem, subject>>

-----------------------------------------------------------------------------
\* See BuddyIrq: the allocator finds its lists whole, and the handler leaves no trace,
\* between calls and inside them, the windows excepted.
ListsAreSound == subject \in {"lists", "interrupted"} => Lists!ListsAreSound

\* See BuddyIrq: the linked lists implement the sequences of Buddy, for calls that nobody
\* interrupts.
ImplementsBuddy == [][subject = "lists" => Lists!BuddyStep]_lists

\* See UserMem: no page is given back twice, and none is lost but by what is known to.
PagesAddUp == subject \in {"family", "resize"} => Users!TypeOK /\ Users!PagesAddUp

\* See UserMem: a process's memory is its own.  The sizes that proc_resize() leaves are
\* not those of the memory.
ImplementsAbstractMemory ==
  /\ Users!Abstract!Init
  /\ [][subject = "family" => Users!Abstract!Step]_usermem
=============================================================================
