# A verification of gizmOS

gizmOS is a 64-bit RISC-V kernel (SV39 paging, booted by Limine) with processes
in the style of xv6, kernel tasks, a buddy allocator and virtio devices.  This
directory holds TLA+ modules of it, the TLC configurations that check them on
small instances, and proofs that TLAPS checks.  Paths are relative to
`src/kernel/src/` unless they begin with `src/`.

- [The system](#the-system)
- [The modules](#the-modules)
- [The runs](#the-runs)
- [Fairness](#fairness)
- [The proofs](#the-proofs)
- [What disagrees](#what-disagrees)
- [Not modelled](#not-modelled)
- [Plan](#plan)

## The system

| Part | State | Operations | Correct when |
|---|---|---|---|
| Spin locks and interrupt nesting (`lib/spinlock.c`, `lib/cpu.c`) | `locked` and `cpu` of each lock; `noff`, `intena` and the interrupt flag of each hart | `acquire`, `release`, `holding`, `intr_push_off`, `intr_pop_off` | one holder per lock; no interrupt while a lock is held; the flag comes back as it was; the panics accuse nobody wrongly |
| Processes and scheduler (`proc.c`, `swtch.S`) | the table `proc[NPROC]`, `pid`, `init_proc`, `wait_lock`; `proc` of each hart; the kernel thread of each process | `make_proc`, `proc_from_code`, `first_process`, `make_kernel_task`, `scheduler`, `sched`, `yield`, `sleep`, `wakeup`, `exit`, `reparent`, `wait`, `fork`, `kill`, `setkilled`, `free_process` | a thread runs on one hart; a stopped process may be resumed or freed by whoever holds its lock; no wakeup is lost; no child is orphaned; no panic; the best process runs |
| Page allocator (`buddy_allocator.c`; `NEW_ALLOC` compiles `physical_alloc.c` out) | free lists whose nodes lie in the free pages, a bitmap, two counters | `buddy_allocator_init`, allocate, free with merging, `alloc_page`, `free_page` | every page has one use; the bitmap and the counters are exact; buddies are merged; nothing leaves the region |
| Heap (`lib/kalloc.c`) | none but the allocator's | `kalloc`, `kfree` | a block is large enough and its caller's own |
| Page tables (`page_table.c`) | three levels of entries in pages of the allocator | map, unmap, ranges, two lookups | tables form a tree; one call changes one slot of one space; a lookup finds what was mapped |
| Memory of processes (`proc.c`, `lib/usermem.c`) | `sz`, the pages and tables of each process | `uvmalloc`, `uvmdealloc`, `uvmcopy`, `proc_from_code`, `proc_grow`, `proc_shrink`, `proc_resize`, `fork`, `free_process`, `copyin`, `copyout` | no page is given back twice or lost; a process's memory is its own |
| Traps (`trap.s`, `trampoline.S`, `trap_handler.c`, `usertrap` in `proc.c`) | registers, CSRs, trapframes, contexts, one trap stack | trap from kernel, from user, return, `swtch` | programs and interrupted kernel code get their registers back; the right vector, stack and table |
| Interrupt controller (`device/plic.c`, `main.c`, `trap_handler.c`) | priorities, enables, threshold; what is pending and claimed | the set-up, claim, dispatch, complete | what is claimed is completed; only what has a driver is enabled; every request is served |
| Virtio input (`device/virtio/virtio_{common,keyboard,mouse}.c`) | the status register, two rings shared with the device | set-up, two interrupt handlers | every descriptor is in one place; events are handled once, in order; none is stranded |
| Keyboard, cursor (`lib/keyboard.c`, `device/virtio/cursor.c`, `kprocs/cursor_daemon.c`) | modifiers; the cursor's place and the pixels that show it | keypress, move, redraw | modifiers are those of the keys; the cursor is whole |
| Virtio GPU (`device/virtio/virtio_gpu.c`) | a control queue with free descriptors and chains | six commands, each awaited; the interrupt handler | commands in order, no descriptor lost, the set-up ends |
| Device ranges (`lib/mmio.c`) | an array of ranges, their mapping | add, remove, map, unmap, checked reads and writes | the array is a set; mapped to the last byte; accesses stay inside |
| Time (`lib/time.c`, `device/rtc.c`) | the end of the sleep, the clock's latch, the timers | conversions, sleeping | dates are right; a sleep is long enough and ends |
| Arrays and mailboxes (`lib/dyn_array.c`, `lib/mailbox.c`) | a page of elements | make, push, pop, get, grow, free | an array is a sequence whatever its pages were before |
| Console, framebuffer, fonts, images, UART output, formatting, SBI | | | output |

How the parts interact.  Everything concurrent goes through the spin locks, and
a spin lock through `intr_push_off`/`intr_pop_off`, whose state (`noff`,
`intena`) belongs to the hart and not to the thread, so `sched()` carries
`intena` across the switch.  The scheduler and a process pass the process lock
to each other over `swtch`: one acquires it, the other releases it.  `wait_lock`
protects the parent pointers and comes before every process lock.  Process
creation and `uvm*` call the allocator and the page tables, the heap and the
arrays call the allocator.  A trap from a program goes through the trampoline to
`usertrap()`, which yields on a timer interrupt; a trap from the kernel goes
through `trap.s` to `trap_handler.c`, which sets the next timer and, for an
external interrupt, claims a source of the PLIC and calls the handler of the
device.  The keyboard's handler allocates two pages for a keypress and frees them;
the mouse's moves the cursor, which a kernel task redraws as well.

What is hard to test here: the order in which several harts read and write the
two words of a lock; the window in `yield`, `sleep` and `exit` in which a process
already has its new state and its hart still runs on its stack; a wakeup
between the test of a condition and the sleep; a call that fails after it took
a slot, a lock or half its pages; an interrupt between any two statements of the
allocator, of a redraw, or of the way back to a program; a device that adds an
event while the handler leaves its loop; indices that wrap; a long run of legal
allocations that merges the wrong blocks; pages that hold what their last owner
wrote.  `PROJECT.json` lists each at its line, with the properties that would
catch it.

One hart is started by the code as it stands (`main` runs `scheduler()` on the
boot hart), but `cpus[NCPU]` with `NCPU = 8` and every lock are written for several,
so the models of locks and processes have a set of harts; what holds only with one is
checked with one (`interrupts`).  The trap handler itself calls only `yield`, on a timer
interrupt; `fork`, `exit`, `wait`, `kill`, `setkilled`, `sleep` and the resizing calls
wait for the system call layer, where the calls to `exit` are still commented out
(`proc.c:674-692`, `:715-716`); they are modelled as calls that a running process
may make whenever its kind allows.

## The modules

| Module | What it is | In the runs |
|---|---|---|
| `AbstractLock` | a lock: one owner, given up by its owner only, interrupts off while owned | `spinlock_any` |
| `SpinLock` | `lib/spinlock.c` and `lib/cpu.c`, one step per access to a shared word | `spinlock_any`, `progress` |
| `ProcLife` | the life of a process, and where it runs | `proc_two_cpus` |
| `Proc` | `proc.c`, one step from one `acquire()` to the next | `proc_*`, `interrupts`, `progress` |
| `Buddy` | `buddy_allocator.c` and its callers, one step per call | `memory`, `buddy_patterns` |
| `BuddyIrq` | the same on its linked lists, one step per statement, with the keyboard's interrupt | `memory`, `buddy_interrupted` |
| `Kalloc` | `lib/kalloc.c` on `Buddy` | `memory` |
| `AbstractMemory`, `UserMem` | a memory of its own for each process; how `proc.c` and `lib/usermem.c` provide it, one step per page | `memory` |
| `AbstractMap`, `PageTable` | an address space as a map; `page_table.c`, one step per level of the walk | `spaces` |
| `AbstractRanges`, `Mmio` | a set of ranges; `lib/mmio.c` | `spaces` |
| `Trap` | `trap.s`, `trampoline.S`, `swtch.S`, `trap_handler.c`, `usertrap()` | `interrupts`, `progress`, `trap_loses_t0` |
| `Plic` | `device/plic.c`, its set-up in `main.c`, `handle_external_interrupt()` | `progress` |
| `AbstractEvents`, `VirtioInput` | a queue of events; the driver and the device on the rings | `interrupts`, `progress` |
| `Keyboard` | the keyboard's events and keypresses | `devices` |
| `Cursor` | the mouse's events, the cursor, the task that redraws it | `devices` |
| `VirtioGpu` | `device/virtio/virtio_gpu.c` and the device | `devices`, `progress` |
| `Calendar` | the conversions of `lib/time.c` against a calendar that counts days | `devices` |
| `Sleep` | `sleep_us()`, the clock's two registers, `wfi` and the timer | `progress` |
| `AbstractVectors`, `DynArray` | sequences; `lib/dyn_array.c` and `lib/mailbox.c` | `devices` |
| `SpinLockProofs`, `ProcProofs` | theorems about the module of that name | |
| `MemoryProofs`, `ListProofs`, `SpaceProofs` | theorems about `Buddy`, `Kalloc` and `UserMem`, about `BuddyIrq`, about `PageTable` and `Mmio` | |
| `InterruptProofs`, `ProgressProofs` | theorems about `Trap`, `VirtioInput` and `Proc` on one hart, as instances of `MCInterrupts`; about `Plic` and `Sleep` | |
| `DeviceProofs` | theorems about `Keyboard`, `DynArray`, `VirtioGpu`, `Cursor` and `Calendar`, as instances of `MCDevices` | |
| `MC...` | instances for TLC | |

Definitions carry the names of the C functions where there is one, and
`PROJECT.json` maps each to its lines.  `M_...` definitions are mutants: the
definition that follows, with a plausible mistake; a property is only worth a run
if some mutant breaks it.

**SpinLock.** A hart is inside `acquire`, inside `release`, or at its caller;
`pc` says before which access.  `holding()` reads two words in two steps while
others write them.  Callers are arbitrary: they take and give locks in any order
and may err.  With `Disciplined` they follow the kernel's order, which is what
the progress property needs.  `held` and `outer` are history variables: the locks
a hart has won, and its flag before the outermost section.

**Proc.** `thread[p]` is where the kernel thread of process p stands, with its
locals; `cpu[c].on` says whose thread hart c executes.  Between two `acquire()`s
code touches only what the held locks protect, so a step spans exactly that;
`sched()` and the scheduler's resumption, which hand a lock over between two
threads, are steps of their own.  Waiting for a lock is a disabled action,
acquiring one's own lock is `AcquirePanic`.  A panic stops the hart for good
and its locks stay held.  The kernel is not preempted (the kernel-mode timer
handler changes no process), so interrupts appear only as `CallYield`, and the
flag `sie` is kept because `sched()` asserts it and `release()` restores it.
`wait()` is modelled as far as it goes: the test for children stands inside its
loop over the table, and slot 0, which `main` fills and nothing frees, is
nobody's child, so it returns -1 after one slot (`FirstSlotIsNobodysChild`, part of
`FamilyIsSound`, is the invariant that justifies this).  What `sleep()` and `wakeup()`
promise to a correct caller is checked with one: `Await...` takes `wait_lock`, sleeps
until a child is a zombie or it is killed, as the loop of `wait()` sets out to.

**Buddy, Kalloc, BuddyIrq.** A page is its number relative to `buddy_base_addr`.
Blocks callers hold are in `live`; a caller frees only what it holds.  Because
free-list nodes lie in the pages, the model stops being meaningful once a node lies
in a page that somebody else writes (`Clobbered`): no call follows such a state.
`merged` is a history variable: two blocks of an order above 0 have been merged.
`Kalloc` EXTENDS `Buddy` with pieces of any size in bytes; `kfree` gives back one page,
and the rest of its block stays in `live`.  `BuddyIrq` has the lists as `next` and
`prev` in the pages, the caller one step per statement that writes them, and the
keyboard's handler, which allocates two pages and frees them, as one step at the
places of `Interruptible`: those where the caller has interrupts on.  Interrupts are on in
the calls of `main()` (`main.c:302`), off in those of a caller that holds a lock.  Between
two calls, and at eleven of the sixteen places inside one, the handler leaves no trace; in
the other five (`Windows`), where a statement relies on what one before it has read from a list,
it does harm, each of them by itself.  `MCMemory` checks a caller that is interrupted between its
calls, for which the lists also implement `Buddy`, and one that is interrupted everywhere but in the
windows; `MCBuddyIrq`, with all places, has the counterexample.

**PageTable.** Addresses are page numbers; `mem[f]` holds the entries of page f,
`use[f]` says whether it is free, data or a table of some level.  A call walks down one
level per step, and between the steps other harts allocate, write and free pages.
One call is in progress at a time: a table belongs to one process, whose lock its
caller holds, or to the kernel, which changes it at boot only.  A new table takes a
page that is full of anything (`Junk`); `FreeRoot` is what `free_process()` does, which
leaves the lower tables taken.  The refinement maps each root to the function from
slots to leaves that a walk finds.

**UserMem** counts pages rather than naming them: `free`, what each process has of
kernel pages, tables and user pages, and the call that is half-way (`call[p]`).  Every
loop over pages makes one call of the allocator per step, so two harts may take the last
page from each other, and every failing path is a step of its own; `make_proc`, whose pages no
program sees, is one step.  `lost` records
that something happened which is known to leave pages behind: a creation that
fails, a kernel task, a process that is reaped, a page mapped over another.  The sum of
`PagesAddUp` gives every page in use a name (`Held`): its slot, its use and its place.
`NextOf(ops)` are the steps when processes make the calls in `ops`; `memory` has one mix
without `proc_resize` and one with it.

**Mmio.** `main()` makes all the calls before anything runs beside it, so a call is a
step; the removal shifts the array, and `mmio_map_pages()` maps page by page what the
ranges cover.  Accesses are operators that return the bytes they touch.

**Trap.** Registers hold tokens that say whose value they are: five of them stand for
all, one for each way the code treats registers.  A step is a stretch of code that runs
with interrupts off; wherever interrupts are on, `Interrupt` may come.  `trapframe`,
`context` and `trap_stack` are the places of `struct trapframe`, `struct context` and the
one stack of `trap.s`.  `ver` and `at` are history variables: which values a program has
computed last, and where it is.  The handler that serves an external interrupt is one
action; what it does is in `Plic` and the device modules.

**Plic.** The controller's registers are written as `main()` writes them, one call per
step (`BootCalls`), starting from whatever the firmware left (any enables, any
priority, any threshold).  A device that wants service holds its line up; the gateway
of a source lets one request through until it is completed.  The handler claims, calls
the driver of the source, and completes; the UART's source is disabled while its
bytes are drained.

**VirtioInput.** Driver and device share `avail`, `used` and the buffers; every
access is a step, and indices count modulo `WRAP`.  The device is external: it
takes an offered descriptor, fills its buffer, puts it into the used ring, raises the
interrupt, and drops the event when nothing is offered.  The keyboard's handler may give up (`KeypressFails`) when no page is free.
**Keyboard** and **Cursor** take the events in order, some of them dropped, and one step
per event; each carries what was true at the device, which is what the handler has to
find out.  In `Cursor` the task's redraw is a step per pixel, and the handler may
come between any two.

**VirtioGpu.** The driver's six commands, each a chain of two descriptors whose
buffers lie on its stack, and the wait for the answer; the device works on a chain
at any time.  `main()` keeps the calls in comments; the order in them is modelled.

**Calendar** counts days one by one, with a date that follows the rules of the
calendar (`Tomorrow`); the conversions, recursive functions of where the loops of the code stand,
have to agree with it on every day.  **Sleep** has the clock's low and high register, which are read one
after the other, the one static deadline, and a `wfi` that an interrupt ends.
**DynArray** has the arrays and the mailbox in pages that other callers allocate, write
and free; `dyn_array_push` copies to a new page when it grows.

## The runs

| Run | Parts and instance | Distinct states | Shows |
|---|---|---|---|
| `spinlock_any` | 3 harts, 2 locks, callers that may err, symmetry of harts | 328,096 | all safety properties of locks; `SpinLock` implements `AbstractLock` |
| `proc_two_cpus` | 2 harts, 3 slots, 2 processes that make every call but `kill` | 290,788 | the lock hand-over, lock order, wakeups, interrupt flag; `Proc` implements `ProcLife` |
| `proc_failures` | 2 harts, 4 slots, any failure, init exits, tasks return, panics | 1,675,959 | nobody is left with a parent that is gone |
| `memory` | `Buddy` on four regions of 6 to 12 pages, orders 0..2; `Kalloc` with pieces of 0 bytes to 3 pages; `BuddyIrq` on 12 pages, interrupted between calls or inside them; `UserMem` with 2 processes and 6 to 22 pages, growing and forking, or resizing and copying | 519,842 | no page has two uses and none gets lost unnoticed; lists implement sequences; a process's memory is its own |
| `spaces` | `PageTable` with 5 pages and 2 entries per table, ranges of up to 2, symmetry of pages; `Mmio` with 2 entries | 52,132 | tables are a tree and an address space a map, whatever fails; ranges are mapped to the last byte |
| `interrupts` | `Trap` with 2 programs and a kernel task, every event; `VirtioInput` with 3 descriptors, 13 events, 3 failures; `Proc` with 1 hart, 4 slots, 3 processes of two priorities and every call | 1,432,417 | nobody's registers are lost, no event is handled twice, out of order or never; killed processes are not asleep, the best process runs |
| `devices` | `Keyboard`; `Cursor` on 4 x 3 pixels with two redraws; `VirtioGpu`; `Calendar` (every day that 32 bits of seconds reach); `DynArray` with 4 pages, shared with a mailbox, or alone with two values | 749,162 | what the kernel believes of its devices is true |
| `progress` | `Plic`, and instances of `SpinLock`, `Proc`, `VirtioInput`, `Trap`, `VirtioGpu` and `Sleep`, each with its fairness | 44,665 | what must happen does |
| `proc_fork_fails`, `buddy_patterns`, `buddy_interrupted`, `trap_loses_t0` | | | counterexamples: see [What disagrees](#what-disagrees) |

**Several subjects in one run.** `MCMemory`, `MCSpaces`, `MCInterrupts`, `MCDevices` and
`MCProgress` check several modules that share no state.  The variable `subject`, chosen
in the initial state, says which of them a behaviour is about; the others stand still.
Every behaviour of each module is a behaviour of the run, so nothing is lost,
and the fairness of `MCProgress` is of the subject only (`WF_plic(subject = "plic" /\ ...)`),
so that an instance is not kept busy by another one.  Where modules really share state they
are composed for good: `Kalloc` EXTENDS `Buddy`, `BuddyIrq` instantiates it and shows that
the statement-level lists implement it, and the abstractions `AbstractMap` and
`AbstractMemory` are what `UserMem` and `Mmio` assume of page tables.

**Properties are conjunctions of named parts**, each stated and commented where it
is defined: `LocksAreSound` is the type invariant, mutual exclusion, interrupts off while
a lock is held, and exact nesting; `PanicsAreExact` that a panic accuses nobody wrongly
and every misuse is caught; `ProcessesAreSound` one hart per process, `current_proc()`,
stopped processes off the harts and distinct pids; `SwitchIsSound`, `NobodyWaitsForEver` and
`FamilyIsSound` the rest of `Proc`; `BooksAreExact` the region, the bitmap, the counters
and the merging of `Buddy`, and `PagesHaveOneUse` its main promise up to the first wrong
merge; and so on.

**Why the bounds are enough.**  *Locks:* a lock concerns a holder, a contender
and a bystander whose stale `lk->cpu` may be read, hence three harts; two locks
are the least that can be released out of order.  The fair instance has two harts
because the property with three takes minutes (it was run once and holds);
the stronger "the lock is handed over to a waiter" is false with three: locks
have no queue and a hart may lose every race.  *Processes:* two harts contend
for a process in the window of `yield`; three slots hold a parent, its child and
a slot that is reused, four also a second child to reparent.  `MaxPid` is above the
number of slots, so that slots are reused.  *Memory:* three orders are the least in
which a merge of merged blocks can go wrong; the regions have a base that is and is not
a multiple of the largest block, and a last block that fits and one that does not.  The
pools of `UserMem` run from too small for one process (7 pages and its tables) to enough
for two, so that a call fails at each of its allocations.  *Page tables:* two
entries per table and three pages of addresses make two slots share the lowest
table, or nothing but the root; five pages are a root, two tables for each of two
paths, or two roots and a page that is data.  *Rings:* three descriptors are not a
power of two and the indices wrap twice within 13 events; the code's 16 and 65536
divide each other as 3 and 6 do.  *Traps:* a program counter
modulo 3 tells "the instruction after the call" from "the same" and "any other"; two
programs and a task switch in all combinations.  *Dates:* no bound but that of the code, 06:28:15 on day 49,710.
`MaxRaises`, `MaxEvents`, `MaxFailures`, `MaxRedraws`, `MaxCalls` and `MaxTime` bound how often
something happens: a source is served again after it was completed, every queue has been full
and empty again, a redraw follows one that was interrupted, a second sleep begins with the
deadline of the first and ends after the low register of the clock has wrapped.

`CHECK_DEADLOCK FALSE` stands only where the system may stop: a panic halts a
hart, `panic_halt()` the system, `buddy_allocator_init` may loop, a device comes to rest
after its last event.

## Fairness

- `Proc`: `WF(SchedulerStep)`, `WF(KernelStep)`: a hart goes on executing.
  `SF(CallYield)`: a user process is interrupted by the timer (`Trap` shows that the timer
  is set again), and the kernel tasks of `kprocs/` yield in their loops.  It is strong
  because a process that makes calls is only now and then at the point where the timer
  finds it in user mode.  No fairness is assumed of the calls processes make.
- `SpinLock`: `WF` of a hart's steps, and `SF(ReleaseCall)`: critical sections are finite;
  nothing is assumed of who wins a race for a lock.
- `Trap`: `WF(Interrupt \/ Program \/ Kernel)`: the hart does not stop, and takes an
  interrupt that is pending rather than none.
- `Plic`: `WF` of the hart, and of each gateway, which is hardware.  Devices need not ask.
- `VirtioInput`: the handler goes on, and the device ends what it has begun.  That its
  interrupt is delivered is what `Plic` shows.
- `VirtioGpu`: the device answers, the driver goes on.
- `Sleep`: time passes (`SF(Tick)`), harts do not stop, timers interrupt.

## The proofs

**`SpinLockProofs`**, for any set of harts, any finite set of locks and any callers.
Mutual exclusion is not inductive.  The invariant adds that `lk->locked` is set
exactly while somebody holds the lock (`LockWordExact`), that `lk->cpu` names a hart
only while it holds the lock (`CpuWordSound`) and always when the holder is not
inside `acquire` or `release` (`CpuWordComplete`), and what is known at each
`pc` (`PlaceInv`).  So `holding()` is right although its two reads are not atomic.
From it `LocksCorrect` and `PanicsCorrect` (the properties `LocksAreSound` and
`PanicsAreExact` of the runs) and, with `NoffCountsSections` and `NestingInv` (`noff # 0`
implies interrupts off and `intena` right), `InterruptFlagRestored`; and `Refinement`, that
`SpinLock` implements `AbstractLock`, step by step.

**`ProcProofs`**, for any number of harts and slots, whatever `main` creates,
whatever is called and whatever fails.  `TypeCorrect` is inductive by itself.  That
no two harts execute one process needs `RunInv`: a process on a hart is RUNNING,
or stands between its new state and the switch with its lock held by that hart
(`OnCpu`); the scan holds the lock of the RUNNABLE process it favours
(`Scanning`); the scheduler still holds the lock when a process has switched back
(`Switched`); a thread on no hart stands inside `sched` or at its beginning
(`ParkedOffCpu`); `fork` makes RUNNABLE, without having held the lock all the
time, only its own USED child, which no other `fork` refers to (`Forks`).  Each
action is shown to keep this and to be a step of `ProcLife`, grouped by what it
does to the scheduling; so one pass over the actions yields
`OneCpuPerProcessCorrect`, `CurrentProcCorrect`, `PidsCorrect`, `StoppedCorrect`,
`ProcessesCorrect` (all of them) and `Refinement`.  `StoppedCorrect` and `ProcessesCorrect`
assume `"return" \notin Calls`: a kernel task that returns stores ZOMBIE without the lock,
and then the statement is false (the scheduler's invariant survives, because `sched()`
panics).

Six more invariants stand on that one; each has its own part of the module.

- `LockInv`: which lock a hart holds, and how deep it is nested, is determined by where
  the scheduler or the process it executes stands (`HeldNow`, `Depth`); all interrupt flags follow
  from it.  A hart that waits holds only locks that come before the one it waits for
  (`wait_lock`, then the processes' by slot): so in any set of harts the one that waits for the
  last lock waits for somebody outside the set, and no circle of any length is possible
  (`NoCircles`).
- `WakeInv`: a parent that sleeps in `wait()` while a child of its has exited is about to be
  woken by somebody who holds `wait_lock`.  Both give `WaitersCorrect` (`NobodyWaitsForEver`).
- `BootInv`: the panics of the first process are the only ones of the boot.  With `LockInv` it
  gives `SwitchCorrect` (`SwitchIsSound`) and `SchedLocksCorrect` (the two assertions of
  `sched()` about locks).
- `FamilyInv`: `exit()` has handed over every child below the slot it looks at, under
  `wait_lock`, so that no child is born or inherited behind it; kernel tasks have no children;
  and slot 0, which `main` fills first, is nobody's child.  Result: `FamilyCorrect` (`FamilyIsSound`),
  which is also what allows `Proc` to leave out what follows in the loop of `wait()`.
- `AwakeInv` and `BestSoFar`, on one hart: nothing comes between the test of `killed()` and
  `sleep()`, and no better process becomes RUNNABLE behind the scan.  Results: `KilledCorrect`
  (`KilledIsAwake`) and `BestCorrect` (`BestIsRun`, an action property); `KilledHere` and `BestHere` of
  `InterruptProofs` are their instances for the run `interrupts`.

`FamilyCorrect` has no hypothesis.  The first three results leave out the two ways the code has to
keep a lock for ever, an `uvmcopy` that fails in `fork` and a kernel task that returns, for
which TLC shows the counterexamples (see What disagrees); `SwitchCorrect` also a first process
that exits or cannot be made, which panic by design.  With two harts `KilledIsAwake` is false.

**`InterruptProofs`**, about `Trap` and `VirtioInput`, and what of `ProcProofs` the run `interrupts` shows.  For any
programs and tasks, any number of them, and every interleaving of
interrupts, faults, calls and switches.  `ProgramsSeeNothing` speaks of the moment a program
runs; the invariant says where its registers are all the time: in the hart, or in its
trapframe (`ProgramInv`), with its counter in the hart, in `sepc` or in the trapframe.  The
kernel interrupts itself, so most places are described twice: `Place` is where the hart is
or will be when its own trap has been served; `HartInv` gives the vector, the page table and
the interrupt flag of each place, `PlaceInv` whose process it is, `ContextInv` what a process
that waits has saved, `StackInv` that the registers of interrupted kernel code are in
`sscratch` and on `trap_stack`, all but t0.  Results: `ProgramsCorrect`, `KernelCorrect` and
`RegistersCorrect`.  The only assumption used is that program counters count modulo
something above 1.

For an event queue of any size whose indices wrap at any multiple of it, `QueueInv`: seen from
`last_used_idx`, the slots of the two rings hold first the descriptors that wait for the driver,
then the one the device has taken, then those on offer (`Spot`), and each descriptor stands there
exactly once, in the middle of `virtq_recycle` as well (`RingInv`).  What each side has done of its
event is said by `DeviceInv` and `DriverInv`, and that an event which waits has an interrupt on
its way by `AlarmInv`.  Results: `QueueCorrect` (`QueueIsSound`: no descriptor is lost or is in two
places, and no event is stranded) and `QueueRefinement`, that
the rings implement `AbstractEvents`: the device's store of the index puts an event in the queue,
the handler takes one out, and all the other accesses to memory are stutters.

**`SpaceProofs`**, about `PageTable` and `Mmio`.  For tables of any size, any set of pages, and any contents of pages
that are handed out.  `TreeCorrect`: the invariant joins the tree (`TablesPointDown`,
`TablesAreNotShared`) with where a call stands: at the table of its level on the way to its
page (`CallInv`), so that a table which is added hangs where the walk will look.  Three lemmas
carry the rest: writing an entry of the lowest table changes the walk of exactly one slot of
one root (`OneSlot`, by the uniqueness of ways), hanging in a new table changes none
(`NewTable`), nor does anything that becomes of a page that is no table (`OtherPage`).  From
them `LookupsCorrect`, and `Refinement`, that the walks implement `AbstractMap`.  `CallsCorrect`
adds that ranges are whole, with the invariant `RangeInv` (the first n pages are done) and the
hypothesis `RangesFit`: no range is so long that it comes around to a slot of its own, which
for 512 entries per table means ranges below 512 GB.

For any ranges, sizes and page size, `MapInv`: the array of `Mmio` holds a base once and, as long
as it is synced, the pages of all its ranges are mapped, whichever `map_page` or `unmap_page`
failed before.  Results: `RangesCorrect` (`RangesAreSound`: every byte of a range is mapped, the
last page included, and an aligned access that is let through stays in the ranges of its id) and
`RangesRefinement`: adding at the end and shifting down at a removal are adding to and
removing from a set (`AbstractRanges`).

**`ProgressProofs`**, about `Plic` and `Sleep`.  For any sources and whatever the firmware left
in the registers, `BootInv`: once `plic_init` has run nothing is enabled that will not have a
driver, and no trap is taken before `main` is through.  `HandlerInv`: what is completed is enabled,
since the UART is enabled again before.  Result: `ControllerCorrect`.  With one hart (`OneHart`; with
two the statement is false), for any widths of the clock's registers, the invariant of `sleep_us()`
says that what has been read of the clock lies between the beginning of the call and now,
also between the two reads, and that the end which is waited for is late enough (`EndInv`).
Results: `SleepTypeCorrect` and `SleepsLongEnoughCorrect`, the part of `SleepsAreRight` that needs no
fairness.

**`MemoryProofs`**, about `Buddy`, `Kalloc` and `UserMem`.  The allocator and the heap for any regions, any order of calls, and any largest order from 1 to 10, the
one of the code (`Small`: the sizes of blocks are a table).  The invariant has two halves.
What holds whatever has been merged: all blocks lie among the pages that `init` hands out
(`BlocksInRegion`), and while `init` runs everything listed lies behind it (`Initial`).  What
holds until two blocks of an order above 0 are merged, which the code does to blocks that are no
neighbours (see What disagrees): no page is in two blocks, no list has a node twice, the bitmap is
the bitmap's own pages and the callers', and the counters are numbers of pages (`Exact`); free
single pages are not left beside their buddies, and blocks of an even region begin at even pages,
so that the page split off is never the buddy of a page that is free already (`Paired`).  Freeing
merges until no buddy is free: `MergeIs` unfolds that recursion, `MergedInHome` keeps every
block of it in the region, and `JoinedPages` says that the pages of what is merged are those of its
parts, as long as they are single pages.  The sums over the blocks in `CountsAreExact` are numbers of pages
because blocks have no page in common (`SumIsCount`).  Results: `BooksCorrect` (`BooksAreExact`) and `PagesCorrect`
(`PagesHaveOneUse`).  `HeapBooksCorrect` says the same below `kalloc()` and `kfree()`, which
puts back one page of a block and so cuts it up; `HeapCorrect` (`HeapIsSound`) that every pointer of
a caller leads to one block, large enough, and that no page is of two pieces until the first
wrong merge.  Their hypothesis `SizesFit` leaves out pieces
above the largest block (4 MB), for which `kalloc()` returns a block that is too small.

The memory of processes, for any slots, any number of pages, any sizes of pages, tables and
programs: `UserInv` says that a slot which is not used holds nothing, one that lives or is being
made has all its kernel pages (two of which it will give back), and a call has a page in hand
only while there is one to map.  No page can then be given back that is not there.  A step changes
one slot, so `free` and the number of names change by what it changes there (`OneSlot`, `SlotStep`,
`Weight`), by the same unless the step is one of those that set `lost`.  Result:
`SumsCorrect`, for all calls, and `PagesAddUpCorrect` for the run.  For the images `ImageInv` says
what a loop has done so far, seen from its end: the pages below its place are clear, or the
program's, or what the parent's are *now*, since a parent stands inside `fork()` until its copy is
made; and a process that lives has every page up to its size.  Then `ImagesCorrect` and
`MemoryRefinement` (`ImplementsAbstractMemory`): the end of a loop is a birth, a fork or a resize
of `AbstractMemory`, and failures half-way are stutters or deaths.  Their hypothesis is that
nobody calls `proc_resize()`, which leaves a size that is not that of the memory (see What
disagrees).

**`ListProofs`**, about `BuddyIrq`, for a largest order from 1 to 10 and any region of whole blocks that
the bitmap has room for, with the keyboard's handler between any two calls.  That following a
list comes to its end is an induction over data: it is
replaced by the sequence the list *is* (`Shape`: head, `next` and `prev` are those of a sequence of
pages without repetition), from which the walk is a computation along that sequence.
Unlinking and linking, statement by statement, take such a sequence to the one without the block
and the one with it in front.  `ListsInv` says where the caller stands and that memory is what its
call has made so far of a memory whose books are exact (`Booked`); the handler is two calls to get
a page and two to free one, and leaves books that are exact.  Results: `ListsCorrect`
(`ListsAreSound` of a caller that is interrupted between its calls), `ListsRefinement` and
`ListsRefinedHere` (`ImplementsBuddy`): a call of `BuddyIrq` is a step of `Buddy` when it returns.

**`DeviceProofs`**, about `Keyboard`, `DynArray`, `VirtioGpu`, `Cursor` and `Calendar`.  For any
set of modifier keys, any codes and a queue of any size:
`ModifiersFollowTheKeys` speaks of an empty queue only.  The invariant `CourseInv` says what
the modifier bits will be after each of the events that wait (`Course`), that at the end they
are those of the keys, and at each event of another key those that were held when it moved
(`Agrees`).  An event that is dropped changes neither.  Results: `ModifiersCorrect` and
`KeypressesCorrect`.  For any number of arrays, pages
and elements, `OwnerInv` says that a page is of at most one structure, and is what that structure
says it is; from it `ArraysCorrect`, and `VectorsRefined`, that an array which moves to another page
is the sequence it was.  The names are assumed to be apart (`NameAssumption`).  For a queue of
any size and indices of any width, `GpuInv` says that either nothing is offered and all descriptors
are free, or the driver waits and one chain of two is taken, and how far the device is with it: so no
command can find the queue short, and what the device has seen is a beginning of what `main()`
would send (`CommandsCorrect`).  For a screen and a cursor of any size, any motion and any
number of redraws, `CursorInv` says which pixels the task has drawn so far, *unless* the handler has moved
the cursor since, and then that the cursor is whole where it went.  A square of pixels is taken as a
product of two intervals, and the task's count of pixels as a row and a column of it.  Result:
`PointerCorrect`; `SizeAssumption` says that there is room on the screen where `cursor_init()` puts
the cursor.  For any number of days, `DateInv` says that `days` are those of the years before the date
(`DaysTo`, in closed form), of the months before it (`DaysUpTo`) and of its month.  That the recursive
functions exist is shown by what they come to (`Place`, `Ended`), and what they come to from a
date's days by taking the least number of passes for which it were wrong.  Result: `DatesCorrect`, for
as many days as there may be; the code has 32 bits of seconds.  `ArraysHere`, `VectorsHere`, `CommandsHere`,
`PointerHere` and `DatesHere` say the same of the behaviours of
the run.

The assumptions are otherwise those on the constants (`CpusAssumption` and so on), which
TLC evaluates in every run.  The larger inductive invariants were checked by TLC on the
instances of the runs before they were proved (those of
`ProcProofs` on the instances of `Proc`, `IInv` of `InterruptProofs` on 982,968 states and its
`QueueInv` on 382,767, `IInv`, `RangeInv` and `RangesFit` of `SpaceProofs` on 43,060, `IInv` and `HeapInv` of `MemoryProofs`, its
`UserInv` and `ImageInv` on the instance of `memory`,
`GpuInv` of `DeviceProofs` on the 147 of `VirtioGpu`).

Only model-checked:

- everything under fairness (`DevicesAreServed`, `HartsGoOn`, `TimersEndTurns`, that sleeps end),
  which with ENABLED is out of the prover's reach;
- the linked lists when the keyboard interrupts inside a call (the other half of
  `ListsAreSound`): what the handler leaves of a list that a caller is working on is, at most
  places, another list than it was.

## What disagrees

Four end in a counterexample, each a run and a finding in `PROJECT.json`:

- `proc_fork_fails`: when `uvmcopy` fails, `fork` returns with the lock of the freed
  child held and `noff` one too high; the caller's next `sched()` panics (`proc.c:858`).
- `buddy_patterns`: above order 0 the buddy index is computed from an index that has
  been divided by the block size already (`buddy_allocator.c:97`), so blocks that are not
  neighbours are merged, and pages in use are handed out again.  Some ten allocations and
  frees of single pages are enough.  The other runs follow the allocator up to that merge.
- `buddy_interrupted`: the allocator takes no lock, and `main()` calls it with interrupts on
  (`main.c:293`, `:302`).  When the keyboard interrupts after the head of a list has been read
  (`buddy_allocator.c:538`) and before that block is removed, its handler takes the same block,
  frees a part of it, and the caller is given pages that are on a free list.  The same can
  happen while a block is unlinked or linked; the other places of a call are safe (`memory`).
- `trap_loses_t0`: `trap_vector` begins with `mv t0, sp` (`trap.s:14`), so that `save_regs`
  saves the stack pointer as t0, and interrupted kernel code finds it there.  All other
  registers come back (`RegistersComeBack`).

The others are stated in the modules as definitions that no run checks, since they do
not hold; TLC finds each violated on the instance named.

| Definition | What a comment or doc says, and what the code does |
|---|---|
| `Proc!YieldLetsOthersRun` (2 slots and tasks of priority 0) | `cursor_daemon.c:18` yields to "let others run".  cursord and wallpaperd, both of priority 0, yield to each other for ever: no process of a larger number runs while one of a smaller number is RUNNABLE (`proc.c:384`). |
| `Proc!SchedHoldsProcLock` (`proc_failures`) | `sched()` asserts that the process lock is held (`proc.c:434`); `kernel_task_wrapper` enters it without the lock when the task returns (`proc.c:914`), and panics. |
| `Buddy!InitEnds` (a region of 65 pages, or of 1025 to about 2000) | "Can't fit this block, try smaller" (`buddy_allocator.c:491`): the next turn of the loop computes the order from the unchanged size again, for ever. |
| `Kalloc!FreedIsFree` (`memory`, a piece of two pages) | `kfree` "frees a block of memory that was previously allocated" (`kalloc.h:35`): it frees one page of it (`kalloc.c:114`). |
| `Kalloc!BlocksAreLargeEnough` (a piece above the largest block) | `kalloc` "allocates a block of memory of the specified size" (`kalloc.h:25`): above 4 MB the order stops at 10 (`kalloc.c:27`) and the block is too small.  The run has no such piece. |
| `UserMem!GrowRollsBack` (`memory`) | `uvmalloc` has a "roll back" (`proc.c:62`) for `map_page`, and none for `alloc_page` (`proc.c:57`): the pages it has mapped stay. |
| `UserMem!SizeOfImage` (`memory`, resizing) | `p->sz` is "the size of the process's memory image" (`proc.c:554`); `proc_resize` stores the old size (`proc.c:899`). |
| `UserMem!CopiesUserMemory` (`memory`, copying) | `copyout` fails on what "is not mapped user memory" (`usermem.h:11`); it looks for a translation only (`usermem.c:23`), and TRAPFRAME has one. |
| `Trap!YieldsForItsTrap` (2 programs, timer and external) | Interrupts are enabled "only now that we're done with those registers" (`proc.c:682`), but `scause` is read again after that (`proc.c:717`): so that a process may yield because of another trap than its own. |
| `Trap!TimerEndsTheTurn` (with an external interrupt) | `usertrap()` serves no device: it returns with the interrupt pending and traps again, for ever, so that not even the timer gets through.  It holds with the timer alone, which is what `progress` checks. |
| `VirtioInput!InitSetsDriverOk` | `virtio_device_init` is to "set DRIVER_OK" (`virtio_common.h:31`); it ends with FEATURES_OK (`virtio_common.c:45`), and the drivers set DRIVER_OK later. |
| `Keyboard!ModifiersAreCurrent` | "Current keyboard modifier state" (`virtio_keyboard.h:28`): `make_virtio_keyboard` leaves it as its page was (`virtio_keyboard.c:25`), and a dropped event leaves a modifier as it was. |
| `Cursor!OldIsErased` (with the task) | "erase old cursor" (`cursor.c:38`): a move while the task draws leaves at the old place what the task draws after it (`cursor.c:42`).  It holds as long as the handler draws alone. |
| `VirtioGpu!AttachFits` (256 pages) | "fits one page for <= 256 pages" (`virtio_gpu.c:167`): the command of 256 pages has 4132 bytes. |
| `Mmio!IdIsEnforced` | "The enforced ID" (`mmio.c:143`): an access is checked by its first byte (`mmio.c:159`) and may reach into the next range.  Aligned accesses stay. |
| `Sleep!SleepsLongEnough` (2 harts) | "Wait until the end time" (`time.c:160`) of a static variable (`time.c:11`) that the other hart has written.  It holds with one. |

Seen while modelling, without a definition: `wait()` returns -1 after one turn of its loop, as the
test for children stands inside it (`proc.c:791`), so that no zombie is ever reaped; an event
whose keypress found no page stays in the ring until the next event comes
(`virtio_keyboard.c:155`); `buddy_allocator.h:15` calls the largest block
"1MB (256 pages)", which is 4 MB (1024 pages); `wait()` would copy the exit status of
the parent (`proc.c:775`); `kill(0)` matches unused slots (`proc.c:807`); a `make_proc` that
fails leaves its slot USED for ever (`proc.c:298`); `unix_time_ns_to_time` cuts the seconds
to 32 bits (`time.c:27`); no barrier stands between the ring and its index
(`virtio_keyboard.c:168`; the models write in program order); the framebuffer's pages are
taken to be contiguous (`virtio_gpu.c:185`); `dyn_array_get` returns a pointer that the next
push may free (`dyn_array.c:100`); width and precision of a format are parsed from the key
and not from the value (`fmt.c:354`, `:360`), and 64 binary digits are written with their
terminator into 64 bytes (`fmt.c:554`).

## Not modelled

In `Proc`: names of processes and `procdump`, and what an interrupt handler of the
kernel does; their memory is in `UserMem`.  `pid` does not wrap (64 bits).  With two harts a
`kill()` may come between the test of `killed()` and `sleep()`; the comment of
`KilledIsAwake` says so, and it is checked with one hart.  In `Buddy`: the contents of lists
after a node has been overwritten.  In `PageTable`: permission bits other than those that
make an entry a leaf (all callers give PTE_R or PTE_W), and a stale TLB, which the code
flushes for no single page.  In `Trap`: the system calls, which only print their number, and
the registers that every path treats like `s0`.  In the device modules: feature bits,
configuration space, and names for printing.

Not at all: drawing, fonts, images, the text console, printing and formatting, strings, the
UART's output and SBI (output, single register accesses and tables); `lib/math.c` (floating
point, which TLC has not); the device tree and the memory map (read once at boot); the
tables of key codes and of the font (data); `lib/notification.c`, which makes a record;
and the compiled-out `physical_alloc.c`.

## Plan

1. Proofs: the linked lists when an interrupt comes inside a call (`BuddyIrq`), at every place but
   the windows.
2. Models: the interrupt path end to end, `Plic` and `VirtioInput` and the trap of the
   kernel in one behaviour; several harts that claim.
