------------------------------- MODULE UserMem -------------------------------
(***************************************************************************)
(* The memory of processes (kernel/src/proc.c, kernel/src/lib/usermem.c):  *)
(* what is allocated for a process and mapped into it, and what is given   *)
(* back when it shrinks or when a call fails half-way.  In the loops over  *)
(* pages every step makes one call of the allocator, so that harts may     *)
(* take the last page from each other; the pages that make_proc() takes    *)
(* before are one step.  Page tables are what PageTable shows them to be:  *)
(* a map, and tables that are added and never removed.                     *)
(***************************************************************************)
EXTENDS Integers, FiniteSets

CONSTANTS
  Procs,        \* the slots of proc[]
  Pools,        \* how many pages the allocator may have at first
  PAGE_SIZE, ENTRIES,
  Data, Clear, Program,  \* what pages hold: anything, after memset(), of programs
  CodeSizes, MaxPages,  \* bytes of programs, bound on the pages of a process
  Deltas        \* what processes grow and shrink by

\* What every instance assumes of the constants (the MC modules state it).
PoolsAssumption == Pools \subseteq Nat
SizeAssumption  ==
  /\ PAGE_SIZE \in Nat \ {0} /\ ENTRIES \in Nat \ {0} /\ MaxPages \in Nat
  /\ CodeSizes \subseteq 0..(MaxPages * PAGE_SIZE) /\ Deltas \subseteq Nat
DataAssumption  == Clear \in Data /\ Program \subseteq Data /\ -1 \notin Data

VARIABLES
  total, free,  \* pages of the allocator, and how many of them are free
  state, sz,    \* of each slot
  kernel,       \* pages of the slot that are not mapped for the user
  tables,       \* tables for its user memory, by their place in the tree
  user,         \* the pages mapped for the user, and what each holds
  call,         \* the call that works on the slot's memory
  copied,       \* the last copyout() or copyin(), with its result
  lost          \* something has happened that leaves pages behind

vars == <<total, free, state, sz, kernel, tables, user, call, copied, lost>>

Nil     == -1
NoCall  == [op |-> "none"]
NoPages == [b \in {} |-> Nil]

With(f, x, y) == [z \in DOMAIN f \cup {x} |-> IF z = x THEN y ELSE f[z]]
Without(f, S) == [z \in DOMAIN f \ S |-> f[z]]

PGROUNDUP(n)   == (n + PAGE_SIZE - 1) \div PAGE_SIZE   \* in pages
PGROUNDDOWN(n) == n \div PAGE_SIZE

\* The tables on the way to user page b.
Path(b) == {<<1, b \div (ENTRIES * ENTRIES)>>, <<0, b \div ENTRIES>>}

Init ==
  /\ total \in Pools
  /\ free = total
  /\ state = [p \in Procs |-> "unused"]
  /\ sz = [p \in Procs |-> 0]
  /\ kernel = [p \in Procs |-> 0]
  /\ tables = [p \in Procs |-> {}]
  /\ user = [p \in Procs |-> NoPages]
  /\ call = [p \in Procs |-> NoCall]
  /\ copied = NoCall
  /\ lost = FALSE

At(p, op)  == call[p].op = op
Done(p)    == call' = [call EXCEPT ![p] = NoCall]

\* A live process that is not inside a call of its own or a fork of it.
Runs(p) ==
  /\ state[p] = "live"
  /\ call[p] = NoCall
  /\ \A q \in Procs : call[q] # NoCall => call[q].parent # p

-----------------------------------------------------------------------------
(***************************************************************************)
(* make_proc: a trapframe, a root, two tables on the way to TRAMPOLINE and *)
(* TRAPFRAME, and the mailbox_t, its dyn_array_t and the array's block     *)
(***************************************************************************)
MAKE_PAGES == 7
TOP_TABLES == 2
FREED_WITH_PROCESS == 2  \* the root and the trapframe

\* proc_from_code() and fork() begin with make_proc().
make_proc(p, op, parent, end) ==
  /\ state[p] = "unused"
  /\ free >= MAKE_PAGES
  /\ free' = free - MAKE_PAGES
  /\ kernel' = [kernel EXCEPT ![p] = MAKE_PAGES]
  /\ state' = [state EXCEPT ![p] = "used"]
  /\ call' = [call EXCEPT ![p] = [op |-> op, parent |-> parent, at |-> 0, from |-> 0,
                                  end |-> end, mem |-> Nil]]
  /\ UNCHANGED <<total, sz, tables, user, copied, lost>>

\* The page that is missing decides what is given back: never the tables, and never
\* the slot, which stays USED.
MakeFails(p) ==
  /\ state[p] = "unused"
  /\ free < MAKE_PAGES
  /\ free' = free - (IF free < 2 THEN 0
                     ELSE IF free < 2 + TOP_TABLES THEN free - 2 ELSE TOP_TABLES)
  /\ state' = [state EXCEPT ![p] = "used"]
  /\ lost' = TRUE
  /\ UNCHANGED <<total, sz, kernel, tables, user, call, copied>>

\* What is not freed here is out of reach when the slot is used again.
free_process(p, more) ==
  /\ free' = free + FREED_WITH_PROCESS + more
  /\ state' = [state EXCEPT ![p] = "unused"]
  /\ sz' = [sz EXCEPT ![p] = 0]
  /\ kernel' = [kernel EXCEPT ![p] = 0]
  /\ tables' = [tables EXCEPT ![p] = {}]
  /\ user' = [user EXCEPT ![p] = NoPages]

\* The trapframe and the root are freed at once; the page table is the kernel's.
make_kernel_task(p) ==
  /\ state[p] = "unused"
  /\ free >= MAKE_PAGES
  /\ free' = free - MAKE_PAGES + FREED_WITH_PROCESS
  /\ kernel' = [kernel EXCEPT ![p] = MAKE_PAGES - TOP_TABLES - FREED_WITH_PROCESS]
  /\ state' = [state EXCEPT ![p] = "task"]
  /\ lost' = TRUE
  /\ UNCHANGED <<total, sz, tables, user, call, copied>>

-----------------------------------------------------------------------------
(***************************************************************************)
(* One page after the other: proc_from_code ("code"), uvmcopy ("copy") and *)
(* uvmalloc ("grow", and "resize" when proc_resize calls it)               *)
(***************************************************************************)
Loops(p)   == call[p].op \in {"code", "copy", "grow", "resize"}
Cur(p)       == call[p].at
InLoop(p)  == Loops(p) /\ Cur(p) < call[p].end
Missing(p) == Path(Cur(p)) \ tables[p]

\* uvmcopy() looks its page up before it allocates.
CopyHasSource(p) == At(p, "copy") => Cur(p) \in DOMAIN user[call[p].parent]

\* Mutant: the page is not cleared.
M_page_not_cleared(p) ==
  IF At(p, "copy") THEN {user[call[p].parent][Cur(p)]}
  ELSE IF At(p, "code") THEN Program
  ELSE Data

\* memset(), followed by memcpy() of the code or of the page of the parent.
Contents(p) ==
  IF At(p, "copy") THEN {user[call[p].parent][Cur(p)]}
  ELSE IF At(p, "code") THEN Program
  ELSE {Clear}

TakePage(p) ==
  /\ InLoop(p) /\ call[p].mem = Nil
  /\ CopyHasSource(p)
  /\ free > 0
  /\ free' = free - 1
  /\ \E v \in Contents(p) : call' = [call EXCEPT ![p].mem = v]
  /\ UNCHANGED <<total, state, sz, kernel, tables, user, copied, lost>>

\* map_page(), its tables first.
AddTable(p) ==
  /\ InLoop(p) /\ call[p].mem # Nil
  /\ free > 0
  /\ free' = free - 1
  /\ \E k \in Missing(p) :
       /\ \A l \in Missing(p) : l[1] <= k[1]
       /\ tables' = [tables EXCEPT ![p] = @ \cup {k}]
  /\ UNCHANGED <<total, state, sz, kernel, user, call, copied, lost>>

\* A page that has been mapped there before is lost.
MapUser(p) ==
  /\ InLoop(p) /\ call[p].mem # Nil
  /\ Missing(p) = {}
  /\ user' = [user EXCEPT ![p] = With(@, Cur(p), call[p].mem)]
  /\ call' = [call EXCEPT ![p].at = @ + 1, ![p].mem = Nil]
  /\ lost' = (lost \/ Cur(p) \in DOMAIN user[p])
  /\ UNCHANGED <<total, free, state, sz, kernel, tables, copied>>

\* proc_resize() puts back the size from before the call.
LoopEnds(p) ==
  /\ Loops(p) /\ Cur(p) >= call[p].end
  /\ sz' = [sz EXCEPT ![p] = IF At(p, "resize") THEN @
                             ELSE IF At(p, "copy") THEN sz[call[p].parent]
                             ELSE call[p].end * PAGE_SIZE]
  /\ state' = [state EXCEPT ![p] = "live"]
  /\ Done(p)
  /\ UNCHANGED <<total, free, kernel, tables, user, copied, lost>>

OutOfPages(p) ==
  /\ InLoop(p)
  /\ free = 0
  /\ call[p].mem = Nil \/ Missing(p) # {}

MappedIn(p, from, to) == Cardinality(DOMAIN user[p] \cap from..(to - 1))
Mem(p) == IF call[p].mem = Nil THEN 0 ELSE 1

\* A program that does not fit is unmapped and freed.
CodeFails(p) ==
  /\ At(p, "code") /\ OutOfPages(p)
  /\ free_process(p, Mem(p) + MappedIn(p, 0, Cur(p)))
  /\ Done(p)
  /\ lost' = TRUE
  /\ UNCHANGED <<total, copied>>

\* uvmcopy() gives back its last page at most, fork() the slot.
ForkFails(p) ==
  /\ At(p, "copy")
  /\ OutOfPages(p) \/ (InLoop(p) /\ ~CopyHasSource(p))
  /\ free_process(p, Mem(p))
  /\ Done(p)
  /\ lost' = TRUE
  /\ UNCHANGED <<total, copied>>

\* uvmalloc() rolls back when map_page() has failed, and leaves the pages it has
\* mapped when alloc_page() has.
GrowFails(p) ==
  /\ call[p].op \in {"grow", "resize"} /\ OutOfPages(p)
  /\ IF call[p].mem = Nil
     THEN UNCHANGED <<free, user, sz>>
     ELSE /\ free' = free + 1 + MappedIn(p, call[p].from, Cur(p))
          /\ user' = [user EXCEPT ![p] = Without(@, call[p].from..(Cur(p) - 1))]
          /\ sz' = [sz EXCEPT ![p] = IF call[p].from < Cur(p)
                                     THEN call[p].from * PAGE_SIZE ELSE @]
  /\ Done(p)
  /\ UNCHANGED <<total, state, kernel, tables, copied, lost>>

-----------------------------------------------------------------------------
(***************************************************************************)
(* The calls of a process                                                  *)
(***************************************************************************)
proc_grow(p, bytes, op) ==
  LET from == PGROUNDUP(sz[p])
      end  == PGROUNDUP(sz[p] + bytes)
  IN /\ Runs(p)
     /\ end <= MaxPages
     /\ call' = [call EXCEPT ![p] = [op |-> op, parent |-> Nil,
                                     at |-> from, from |-> from, end |-> end,
                                     mem |-> Nil]]
     /\ UNCHANGED <<total, free, state, sz, kernel, tables, user, copied, lost>>

NewSize(p, bytes) == IF bytes >= sz[p] THEN 0 ELSE PGROUNDDOWN(sz[p] - bytes)

\* Mutant: the first page that goes is unmapped and not freed.
M_shrink_keeps_one(p, bytes) ==
  /\ Runs(p)
  /\ free' = free + MappedIn(p, NewSize(p, bytes) + 1, PGROUNDUP(sz[p]))
  /\ user' = [user EXCEPT ![p] = Without(@, NewSize(p, bytes)..(PGROUNDUP(sz[p]) - 1))]
  /\ sz' = [sz EXCEPT ![p] = NewSize(p, bytes) * PAGE_SIZE]
  /\ UNCHANGED <<total, state, kernel, tables, call, copied, lost>>

\* uvmdealloc() frees whatever is mapped in the pages that go.
proc_shrink(p, bytes) ==
  /\ Runs(p)
  /\ free' = free + MappedIn(p, NewSize(p, bytes), PGROUNDUP(sz[p]))
  /\ user' = [user EXCEPT ![p] = Without(@, NewSize(p, bytes)..(PGROUNDUP(sz[p]) - 1))]
  /\ sz' = [sz EXCEPT ![p] = NewSize(p, bytes) * PAGE_SIZE]
  /\ UNCHANGED <<total, state, kernel, tables, call, copied, lost>>

ShrinkAndRestore(p, bytes) ==
  /\ Runs(p)
  /\ free' = free + MappedIn(p, NewSize(p, bytes), PGROUNDUP(sz[p]))
  /\ user' = [user EXCEPT ![p] = Without(@, NewSize(p, bytes)..(PGROUNDUP(sz[p]) - 1))]
  /\ UNCHANGED <<total, state, sz, kernel, tables, call, copied, lost>>

proc_resize(p, n) ==
  \/ n > 0 /\ proc_grow(p, n, "resize")
  \/ n < 0 /\ ShrinkAndRestore(p, -n)

UserWrite(p) ==
  /\ Runs(p)
  /\ \E b \in DOMAIN user[p], v \in Data : user' = [user EXCEPT ![p][b] = v]
  /\ UNCHANGED <<total, free, state, sz, kernel, tables, call, copied, lost>>

\* exit(), and wait() in the parent: the pages of the user stay behind.
Reaped(p) ==
  /\ Runs(p)
  /\ free_process(p, 0)
  /\ lost' = TRUE
  /\ UNCHANGED <<total, call, copied>>

\* get_physical_address() as copyout() and copyin() use it: TRAPFRAME is mapped,
\* though not for the user.
TRAPFRAME == MaxPages + 1

\* The pages that are copied before the first that is not mapped.
CopiedPages(p, first, n) ==
  {b \in first..(first + n - 1) : first..b \subseteq DOMAIN user[p] \cup {TRAPFRAME}}

copyout(p, first, n, v) ==
  LET pages == CopiedPages(p, first, n)
  IN /\ Runs(p)
     /\ user' = [user EXCEPT ![p] = [b \in DOMAIN @ |-> IF b \in pages THEN v ELSE @[b]]]
     /\ copied' = [op |-> "copyout", proc |-> p, first |-> first, n |-> n,
                   ok |-> Cardinality(pages) = n]
     /\ UNCHANGED <<total, free, state, sz, kernel, tables, call, lost>>

copyin(p, first, n) ==
  /\ Runs(p)
  /\ copied' = [op |-> "copyin", proc |-> p, first |-> first, n |-> n,
                ok |-> Cardinality(CopiedPages(p, first, n)) = n]
  /\ UNCHANGED <<total, free, state, sz, kernel, tables, user, call, lost>>

-----------------------------------------------------------------------------
LoopStep(p) ==
  TakePage(p) \/ AddTable(p) \/ MapUser(p) \/ LoopEnds(p)
    \/ CodeFails(p) \/ ForkFails(p) \/ GrowFails(p)

Begin(p, ops) ==
  \/ \E size \in CodeSizes : make_proc(p, "code", Nil, PGROUNDUP(size))
  \/ \E parent \in Procs : /\ "fork" \in ops /\ Runs(parent)
                           /\ make_proc(p, "copy", parent, PGROUNDUP(sz[parent]))
  \/ "task" \in ops /\ make_kernel_task(p)
  \/ MakeFails(p)

Ask(p, ops) ==
  \/ \E n \in Deltas : /\ "grow" \in ops
                       /\ proc_grow(p, n, "grow") \/ proc_shrink(p, n)
  \/ \E n \in Deltas : "resize" \in ops /\ (proc_resize(p, n) \/ proc_resize(p, -n))
  \/ \E first \in 0..TRAPFRAME, n \in 1..2 :
       /\ "copy" \in ops
       /\ copyin(p, first, n) \/ \E v \in Data : copyout(p, first, n, v)
  \/ UserWrite(p)
  \/ "reap" \in ops /\ Reaped(p)

NextOf(ops) == \E p \in Procs : LoopStep(p) \/ Begin(p, ops) \/ Ask(p, ops)

Ops  == {"fork", "task", "grow", "resize", "copy", "reap"}
Next == NextOf(Ops)

Spec == Init /\ [][Next]_vars

-----------------------------------------------------------------------------
(***************************************************************************)
(* Properties                                                              *)
(***************************************************************************)
PageNumbers   == 0..(MaxPages - 1)
TablePlaces   == UNION {Path(b) : b \in PageNumbers}

CallOps == [op : {"code", "copy", "grow", "resize"}, parent : Procs \cup {Nil},
            at : 0..MaxPages, from : 0..MaxPages, end : 0..MaxPages,
            mem : Data \cup {Nil}]

TypeOK ==
  /\ total \in Pools
  /\ free \in Nat
  /\ state \in [Procs -> {"unused", "used", "live", "task"}]
  /\ sz \in [Procs -> Nat]
  /\ kernel \in [Procs -> 0..MAKE_PAGES]
  /\ \A p \in Procs :
       /\ tables[p] \subseteq TablePlaces
       /\ user[p] \in [DOMAIN user[p] -> Data] /\ DOMAIN user[p] \subseteq PageNumbers
       /\ call[p] \in CallOps \cup {NoCall}

\* What is in use for a slot, by name: pages of the kernel, tables, pages mapped for the
\* user, and the page that a loop has taken and not mapped yet.
Held(p) ==
  {<<p, "kernel", i>> : i \in 1..kernel[p]} \cup {<<p, "table", k>> : k \in tables[p]}
    \cup {<<p, "user", b>> : b \in DOMAIN user[p]}
    \cup (IF Loops(p) /\ call[p].mem # Nil THEN {<<p, "mem", 0>>} ELSE {})
InUse == Cardinality(UNION {Held(p) : p \in Procs})

\* No page is given back while it is in use or given back twice, whatever fails
\* half-way; and every page that is not free is in use until a creation fails, a
\* kernel task is made, a process is reaped, or a page is mapped over: these leave
\* pages behind, nothing else does.
PagesAddUp ==
  /\ free + InUse <= total
  /\ ~lost => free + InUse = total

NoImage == [b \in {-1} |-> Clear]
Images  == [p \in Procs |->
              IF state[p] = "live" THEN [b \in 0..(PGROUNDUP(sz[p]) - 1) |-> user[p][b]]
              ELSE NoImage]

Abstract == INSTANCE AbstractMemory WITH image <- Images

\* A process's memory is its own: it is the program or a copy of its parent to begin
\* with, and grows by clear pages; what other processes do, and calls that fail,
\* do not change it.
ImplementsAbstractMemory == Abstract!Spec

\* When uvmalloc() fails it rolls back (proc.c:62): none of the pages it was to add
\* is left.
\* It does not hold, and no run checks it: see What disagrees in the README.
GrowRollsBack ==
  [][\A p \in Procs :
       GrowFails(p) =>
         DOMAIN user'[p] \cap call[p].from..(call[p].end - 1) = {}]_vars

\* p->sz is the size of the memory image (proc.c:554) of a process that is not in
\* the middle of a call.
\* It does not hold, and no run checks it: see What disagrees in the README.
SizeOfImage ==
  \A p \in Procs :
    state[p] = "live" /\ call[p] = NoCall => DOMAIN user[p] = 0..(PGROUNDUP(sz[p]) - 1)

\* copyout() and copyin() succeed only on mapped user memory (lib/usermem.h:11, :22).
\* It does not hold, and no run checks it: see What disagrees in the README.
CopiesUserMemory ==
  copied # NoCall /\ copied.ok =>
    copied.first..(copied.first + copied.n - 1) \subseteq DOMAIN user[copied.proc]
=============================================================================
