-------------------------------- MODULE Proc --------------------------------
(***************************************************************************)
(* The process table, the scheduler and the calls that change a process's  *)
(* state (kernel/src/proc.c), over the spin locks of module SpinLock.      *)
(*                                                                         *)
(* A step runs from one acquire() up to the next one: what lies between    *)
(* touches only data that the held locks protect, so no other CPU can tell *)
(* it from an atomic step.  What is not protected that way, the switch of  *)
(* context inside sched() above all, is a step of its own.  acquire() of a *)
(* lock another CPU holds waits; of a lock its own CPU holds, it panics.   *)
(* Kernel code is not preempted: the interrupt handlers of the kernel take *)
(* no lock and change no process.                                          *)
(***************************************************************************)
EXTENDS Integers, Sequences, FiniteSets

CONSTANTS
  Cpus,       \* the harts that run scheduler()
  BootCpu,    \* the hart that runs main()
  NPROC,      \* the number of slots in the process table
  BootProcs,  \* what main() creates, in order: "init", "code", "task", "flush"
  Calls,      \* the calls processes make
  Failures,   \* the operations that may fail for want of memory
  MaxPid,     \* bound on the pids handed out
  Free        \* the holder of a lock nobody holds

Slots    == 0..(NPROC - 1)
NoProc   == -1          \* a null proc_t pointer
WaitLock == NPROC       \* the lock wait_lock; lock p in Slots is proc[p].lock
NoLock   == -1
Locks    == Slots \cup {WaitLock}
Kinds    == {"init", "code", "task", "flush"}

ASSUME CpusAssumption  == BootCpu \in Cpus /\ Free \notin Cpus
ASSUME NprocAssumption == NPROC \in Nat \ {0}
ASSUME BootAssumption  == BootProcs \in Seq(Kinds)
ASSUME PidAssumption   == MaxPid \in Nat

VARIABLES
  proc,      \* proc[p]: the fields of proc_t the scheduler and the calls use
  thread,    \* thread[p]: where the kernel thread of process p is
  cpu,       \* cpu[c]: struct cpu, and the scheduler thread of CPU c
  locks,     \* locks[l]: the CPU that holds lock l, or Free
  next_pid,  \* the variable pid
  init_proc

vars == <<proc, thread, cpu, locks, next_pid, init_proc>>

PRIORITY == [init |-> 10, code |-> 10, task |-> 0, flush |-> 30]

UnusedProc ==
  [state |-> "UNUSED", priority |-> 0, chan |-> NoProc, killed |-> FALSE,
   xstate |-> 0, pid |-> 0, parent |-> NoProc, is_kernel |-> FALSE]

\* pc: where the thread is; i, j: loop counters; arg: the pid
\* of kill, the channel of wakeup or the child of fork; saved: the local intena
\* of sched; before: the interrupt flag when the call in progress began.
AtPc(label) ==
  [pc |-> label, i |-> 0, j |-> 0, arg |-> NoProc,
   saved |-> 0, before |-> 0]

\* on: the process whose thread the CPU executes, NoProc for its scheduler, then
\* at pc with the locals scan (i) and best (highest_priority_proc).
InitCpu(label) ==
  [on |-> NoProc, pc |-> label, scan |-> 0, best |-> NoProc, proc |-> NoProc,
   noff |-> 0, intena |-> 0, sie |-> 1, panic |-> "no"]

Init ==
  /\ proc      = [p \in Slots |-> UnusedProc]
  /\ thread    = [p \in Slots |-> AtPc("born")]
  /\ cpu       = [c \in Cpus |-> InitCpu(IF c = BootCpu THEN "boot" ELSE "off")]
  /\ locks     = [l \in Locks |-> Free]
  /\ next_pid  = 0
  /\ init_proc = NoProc

-----------------------------------------------------------------------------
(* intr_push_off and intr_pop_off, as acquire() and release() call them.     *)
Push(k) ==
  [k EXCEPT !.noff = @ + 1,
            !.intena = IF k.noff = 0 THEN k.sie ELSE @,
            !.sie = 0]

Pop(k) ==
  [k EXCEPT !.noff = @ - 1,
            !.sie = IF k.noff = 1 /\ k.intena = 1 THEN 1 ELSE @]

\* CPU c acquires and releases a lock in one step.
Visit(c, l) ==
  /\ locks[l] = Free
  /\ UNCHANGED locks

Acquire(c, l) ==
  /\ locks[l] = Free
  /\ locks' = [locks EXCEPT ![l] = c]

Release(ls) == locks' = [l \in Locks |-> IF l \in ls THEN Free ELSE locks[l]]

Me(c) == cpu[c].on
My(c) == thread[cpu[c].on]

\* CPU c executes the thread of a process, which is at label.
At(c, label) ==
  /\ cpu[c].on # NoProc
  /\ cpu[c].panic = "no"
  /\ thread[cpu[c].on].pc = label

AtScheduler(c, label) ==
  /\ cpu[c].on = NoProc
  /\ cpu[c].panic = "no"
  /\ cpu[c].pc = label

Goto(c, label) == thread' = [thread EXCEPT ![Me(c)].pc = label]

\* The call is over; the locals of the kernel thread are gone with it.
Finish(c) ==
  thread' = [thread EXCEPT
              ![Me(c)] = [AtPc("return") EXCEPT !.before = My(c).before]]

\* The lock that the next step of CPU c acquires.
Wants(c) ==
  IF cpu[c].panic # "no" THEN NoLock
  ELSE IF cpu[c].on = NoProc
  THEN IF cpu[c].pc = "scan" /\ cpu[c].scan < NPROC THEN cpu[c].scan ELSE NoLock
  ELSE LET t == My(c)
       IN CASE t.pc \in {"yield", "sleep", "exit_lock", "await_killed"} -> Me(c)
            [] t.pc \in {"exit", "wait_enter", "await_enter", "rewait",
                         "fork_parent"} -> WaitLock
            [] t.pc \in {"reparent_wake", "exit_wake", "kill", "fork"} -> t.j
            [] t.pc \in {"setkilled", "fork_ready"} -> t.arg
            [] OTHER -> NoLock

\* acquire() of a lock that the CPU holds already.
AcquirePanic(c) ==
  /\ Wants(c) # NoLock
  /\ locks[Wants(c)] = c
  /\ cpu' = [cpu EXCEPT ![c] = [Push(@) EXCEPT !.panic = "acquire"]]
  /\ UNCHANGED <<proc, thread, locks, next_pid, init_proc>>

-----------------------------------------------------------------------------
(***************************************************************************)
(* main(): processes are made one after another on the boot CPU, before    *)
(* any scheduler runs.                                                     *)
(***************************************************************************)
\* Mutant: make_proc forgets the pid.
M_made_no_pid(p, pid) ==
  [proc[p] EXCEPT !.state = "USED", !.priority = PRIORITY["code"]]

\* make_proc up to its success.
Made(p, pid) ==
  [proc[p] EXCEPT !.pid = pid, !.state = "USED", !.priority = PRIORITY["code"]]

free_process(r) ==
  [r EXCEPT !.state = "UNUSED", !.pid = 0, !.parent = NoProc,
            !.chan = NoProc, !.killed = FALSE, !.xstate = 0]

\* What proc_from_code or first_process makes of the new process.
FromCode(r) == [r EXCEPT !.state = "RUNNABLE"]

\* What make_kernel_task makes of it: "flush" is the task named framebufferd.
KernelTask(r, kind) ==
  [r EXCEPT !.state = "RUNNABLE", !.is_kernel = TRUE,
            !.priority = PRIORITY[kind]]

Unused == {p \in Slots : proc[p].state = "UNUSED"}

First(p, S) == p \in S /\ \A q \in S : p <= q

\* What main() creates next.
BootKind(c) == BootProcs[cpu[c].scan + 1]

AtBoot(c) ==
  /\ AtScheduler(c, "boot")
  /\ cpu[c].scan < Len(BootProcs)

Boot(c) ==
  /\ AtBoot(c)
  /\ \E p \in Slots :
       LET kind == BootKind(c)
           made == Made(p, next_pid)
       IN /\ First(p, Unused)
          /\ proc' = [proc EXCEPT ![p] = IF kind \in {"task", "flush"}
                                         THEN KernelTask(made, kind)
                                         ELSE FromCode(made)]
          /\ init_proc' = IF kind = "init" THEN p ELSE init_proc
  /\ next_pid' = next_pid + 1
  /\ cpu' = [cpu EXCEPT ![c].scan = @ + 1]
  /\ UNCHANGED <<thread, locks>>

\* There is no slot; or make_proc runs out of memory and its slot stays USED; or
\* a page of the code cannot be had and the slot is freed again.  main() goes on
\* without the process, but first_process panics.
BootFails(c) ==
  /\ AtBoot(c)
  /\ \/ /\ Unused = {}
        /\ UNCHANGED <<proc, next_pid>>
     \/ \E p \in Slots :
          /\ First(p, Unused)
          /\ \/ /\ "make_proc" \in Failures
                /\ proc' = [proc EXCEPT ![p] = Made(p, next_pid)]
             \/ /\ "pages" \in Failures /\ BootKind(c) = "code"
                /\ proc' = [proc EXCEPT
                               ![p] = free_process(Made(p, next_pid))]
          /\ next_pid' = next_pid + 1
  /\ cpu' = IF BootKind(c) = "init"
            THEN [cpu EXCEPT ![c].panic = "no first process"]
            ELSE [cpu EXCEPT ![c].scan = @ + 1]
  /\ UNCHANGED <<thread, locks, init_proc>>

StartSchedulers(c) ==
  /\ AtScheduler(c, "boot")
  /\ cpu[c].scan = Len(BootProcs)
  /\ cpu' = [d \in Cpus |-> InitCpu("scan")]
  /\ UNCHANGED <<proc, thread, locks, next_pid, init_proc>>

-----------------------------------------------------------------------------
(***************************************************************************)
(* scheduler: the scan keeps the lock of the best process found so far.    *)
(***************************************************************************)
\* Mutant: the scan remembers the best process without keeping its lock.
M_scan_drops_lock(c) ==
  LET p    == cpu[c].scan
      best == cpu[c].best
      take == /\ proc[p].state = "RUNNABLE"
              /\ best = NoProc \/ proc[p].priority < proc[best].priority
  IN /\ AtScheduler(c, "scan") /\ p < NPROC
     /\ Visit(c, p)
     /\ cpu' = [cpu EXCEPT ![c] =
                  [@ EXCEPT !.scan = p + 1, !.best = IF take THEN p ELSE @]]
     /\ UNCHANGED <<proc, thread, next_pid, init_proc>>

\* Mutant: the last of several equal processes wins the scan.
M_scan_last_wins(c) ==
  LET p    == cpu[c].scan
      best == cpu[c].best
      take == /\ proc[p].state = "RUNNABLE"
              /\ best = NoProc \/ proc[p].priority <= proc[best].priority
  IN /\ AtScheduler(c, "scan") /\ p < NPROC /\ locks[p] = Free
     /\ locks' = IF take
                 THEN [l \in Locks |-> IF l = p THEN c
                                       ELSE IF l = best THEN Free ELSE locks[l]]
                 ELSE locks
     /\ cpu' = [cpu EXCEPT ![c] =
                  [(IF take /\ best = NoProc THEN Push(@) ELSE Pop(Push(@)))
                     EXCEPT !.scan = p + 1, !.best = IF take THEN p ELSE best]]
     /\ UNCHANGED <<proc, thread, next_pid, init_proc>>

\* Mutant: the scan does not look at slot 0.
M_scan_from_one(c) ==
  /\ AtScheduler(c, "scan") /\ cpu[c].scan < NPROC
  /\ LET p    == cpu[c].scan
         take == /\ p > 0 /\ proc[p].state = "RUNNABLE" /\ cpu[c].best = NoProc
     IN /\ locks[p] = Free
        /\ locks' = IF take THEN [locks EXCEPT ![p] = c] ELSE locks
        /\ cpu' = [cpu EXCEPT ![c] =
                     [(IF take THEN Push(@) ELSE Pop(Push(@)))
                        EXCEPT !.scan = p + 1, !.best = IF take THEN p ELSE @]]
  /\ UNCHANGED <<proc, thread, next_pid, init_proc>>

ScanSlot(c) ==
  LET p    == cpu[c].scan
      best == cpu[c].best
      take == /\ proc[p].state = "RUNNABLE"
              /\ best = NoProc \/ proc[p].priority < proc[best].priority
  IN /\ AtScheduler(c, "scan")
     /\ p < NPROC
     /\ locks[p] = Free
     /\ locks' = IF take
                 THEN [l \in Locks |-> IF l = p THEN c
                                       ELSE IF l = best THEN Free ELSE locks[l]]
                 ELSE locks
     /\ cpu' = [cpu EXCEPT ![c] =
                  [(IF take /\ best = NoProc THEN Push(@) ELSE Pop(Push(@)))
                     EXCEPT !.scan = p + 1, !.best = IF take THEN p ELSE best]]
     /\ UNCHANGED <<proc, thread, next_pid, init_proc>>

\* A process that resumes inside sched() restores the CPU's intena; one that
\* starts at forkret or kernel_task_wrapper does not.
Restored(c, p) ==
  IF thread[p].pc = "born" THEN cpu[c].intena ELSE thread[p].saved

\* Mutant: the process runs without being marked RUNNING.
M_dispatch_unmarked(c) ==
  LET p == cpu[c].best
  IN /\ AtScheduler(c, "scan") /\ cpu[c].scan = NPROC /\ p # NoProc
     /\ cpu' = [cpu EXCEPT ![c] =
                  [@ EXCEPT !.on = p, !.proc = p, !.intena = Restored(c, p)]]
     /\ UNCHANGED <<proc, thread, locks, next_pid, init_proc>>

\* Mutant: sched() does not restore intena.
M_dispatch_intena_lost(c) ==
  LET p == cpu[c].best
  IN /\ AtScheduler(c, "scan") /\ cpu[c].scan = NPROC /\ p # NoProc
     /\ proc' = [proc EXCEPT ![p].state = "RUNNING"]
     /\ cpu' = [cpu EXCEPT ![c] = [@ EXCEPT !.on = p, !.proc = p]]
     /\ UNCHANGED <<thread, locks, next_pid, init_proc>>

Dispatch(c) ==
  LET p == cpu[c].best
  IN /\ AtScheduler(c, "scan")
     /\ cpu[c].scan = NPROC
     /\ p # NoProc
     /\ proc' = [proc EXCEPT ![p].state = "RUNNING"]
     /\ cpu' = [cpu EXCEPT ![c] =
                  [@ EXCEPT !.on = p, !.proc = p, !.intena = Restored(c, p)]]
     /\ UNCHANGED <<thread, locks, next_pid, init_proc>>

Idle(c) ==
  /\ AtScheduler(c, "scan")
  /\ cpu[c].scan = NPROC
  /\ cpu[c].best = NoProc
  /\ cpu' = [cpu EXCEPT ![c] = [@ EXCEPT !.scan = 0, !.sie = 1]]
  /\ UNCHANGED <<proc, thread, locks, next_pid, init_proc>>

\* Mutant: c->proc is left pointing at the process that switched back.
M_resume_keeps_proc(c) ==
  /\ AtScheduler(c, "switched")
  /\ Release({cpu[c].best})
  /\ cpu' = [cpu EXCEPT ![c] =
               [Pop(@) EXCEPT !.pc = "scan", !.best = NoProc, !.scan = 0,
                              !.sie = 1]]
  /\ UNCHANGED <<proc, thread, next_pid, init_proc>>

\* The process has switched back: its lock is released and the loop starts over.
SchedulerResumes(c) ==
  /\ AtScheduler(c, "switched")
  /\ Release({cpu[c].best})
  /\ cpu' = [cpu EXCEPT ![c] =
               [Pop(@) EXCEPT !.pc = "scan", !.proc = NoProc, !.best = NoProc,
                              !.scan = 0, !.sie = 1]]
  /\ UNCHANGED <<proc, thread, next_pid, init_proc>>

\* sched(): the assertions, then the switch.
SchedComplaint(c) ==
  IF locks[Me(c)] # c THEN "sched p->lock"
  ELSE IF cpu[c].noff # 1 THEN "sched locks"
  ELSE IF proc[Me(c)].state = "RUNNING" THEN "sched running"
  ELSE IF cpu[c].sie = 1 THEN "sched interruptible"
  ELSE "no"

sched(c, from, to) ==
  /\ At(c, from)
  /\ IF SchedComplaint(c) # "no"
     THEN /\ cpu' = [cpu EXCEPT ![c].panic = SchedComplaint(c)]
          /\ UNCHANGED thread
     ELSE /\ cpu' = [cpu EXCEPT ![c] =
                       [@ EXCEPT !.on = NoProc, !.pc = "switched"]]
          /\ thread' = [thread EXCEPT ![Me(c)] =
                          [@ EXCEPT !.pc = to, !.saved = cpu[c].intena]]
  /\ UNCHANGED <<proc, locks, next_pid, init_proc>>

Sched(c) ==
  \/ sched(c, "yield_sched", "yielded")
  \/ sched(c, "sleep_sched", "slept")
  \/ sched(c, "exit_sched", "zombie")

-----------------------------------------------------------------------------
(***************************************************************************)
(* A process enters and leaves the kernel.                                 *)
(***************************************************************************)
\* forkret or kernel_task_wrapper: the first thing a process does.
Start(c) ==
  /\ At(c, "born")
  /\ Release({Me(c)})
  /\ cpu' = [cpu EXCEPT ![c] = Pop(@)]
  /\ thread' = [thread EXCEPT ![Me(c)] = [AtPc("return") EXCEPT !.before = 1]]
  /\ UNCHANGED <<proc, next_pid, init_proc>>

\* user_trap_ret turns interrupts off; a kernel task just returns to its code.
Return(c) ==
  /\ At(c, "return")
  /\ thread' = [thread EXCEPT ![Me(c)] = AtPc("run")]
  /\ cpu' = IF proc[Me(c)].is_kernel THEN cpu ELSE [cpu EXCEPT ![c].sie = 0]
  /\ UNCHANGED <<proc, locks, next_pid, init_proc>>

\* A user process is trapped by the timer, with interrupts off; a kernel task
\* calls yield() itself.
CallYield(c) ==
  /\ At(c, "run")
  /\ thread' = [thread EXCEPT ![Me(c)] =
                  [AtPc("yield") EXCEPT !.before = cpu[c].sie]]
  /\ UNCHANGED <<proc, cpu, locks, next_pid, init_proc>>

\* Every other call runs with interrupts on: usertrap turns them on for an
\* ecall, and a kernel task has them on.
Call(c, call, label, arg) ==
  /\ At(c, "run")
  /\ call \in Calls
  /\ cpu' = [cpu EXCEPT ![c].sie = 1]
  /\ thread' = [thread EXCEPT ![Me(c)] =
                  [AtPc(label) EXCEPT !.arg = arg, !.before = 1]]
  /\ UNCHANGED <<proc, locks, next_pid, init_proc>>

User(c) == cpu[c].on # NoProc /\ ~proc[cpu[c].on].is_kernel

CallExit(c) ==
  User(c) /\ Me(c) # init_proc /\ Call(c, "exit", "exit", NoProc)

CallWait(c) == User(c) /\ Call(c, "wait", "wait_enter", NoProc)

CallAwait(c) == User(c) /\ Call(c, "await", "await_enter", NoProc)

CallFork(c) ==
  User(c) /\ next_pid < MaxPid /\ Call(c, "fork", "fork", NoProc)

\* next_pid is a pid that nobody has.
CallKill(c) == \E k \in 0..next_pid : Call(c, "kill", "kill", k)

\* usertrap() marks the process it was called by.
CallSetkilled(c) == User(c) /\ Call(c, "setkilled", "setkilled", Me(c))

\* Mutant: the first process may exit as any other.
M_init_goes_on(c) ==
  /\ At(c, "run") /\ "init_exit" \in Calls /\ Me(c) = init_proc
  /\ cpu' = [cpu EXCEPT ![c].sie = 1]
  /\ thread' = [thread EXCEPT ![Me(c)] = [AtPc("exit") EXCEPT !.before = 1]]
  /\ UNCHANGED <<proc, locks, next_pid, init_proc>>

\* exit() of the first process.
InitExits(c) ==
  /\ At(c, "run")
  /\ "init_exit" \in Calls
  /\ Me(c) = init_proc
  /\ cpu' = [cpu EXCEPT ![c].panic = "init proc exiting"]
  /\ UNCHANGED <<proc, thread, locks, next_pid, init_proc>>

\* The entry function of a kernel task returns to kernel_task_wrapper.
TaskReturns(c) ==
  /\ At(c, "run")
  /\ "return" \in Calls
  /\ proc[Me(c)].is_kernel
  /\ proc' = [proc EXCEPT ![Me(c)].state = "ZOMBIE"]
  /\ Goto(c, "exit_sched")
  /\ UNCHANGED <<cpu, locks, next_pid, init_proc>>

\* yield()
Yield(c) ==
  /\ At(c, "yield")
  /\ Acquire(c, Me(c))
  /\ cpu' = [cpu EXCEPT ![c] = Push(@)]
  /\ proc' = [proc EXCEPT ![Me(c)].state = "RUNNABLE"]
  /\ Goto(c, "yield_sched")
  /\ UNCHANGED <<next_pid, init_proc>>

Yielded(c) ==
  /\ At(c, "yielded")
  /\ Release({Me(c)})
  /\ cpu' = [cpu EXCEPT ![c] = Pop(@)]
  /\ Finish(c)
  /\ UNCHANGED <<proc, next_pid, init_proc>>

-----------------------------------------------------------------------------
(***************************************************************************)
(* exit, reparent, wakeup                                                  *)
(***************************************************************************)
Exit(c) ==
  /\ At(c, "exit")
  /\ Acquire(c, WaitLock)
  /\ cpu' = [cpu EXCEPT ![c] = Push(@)]
  /\ Goto(c, "reparent")
  /\ UNCHANGED <<proc, next_pid, init_proc>>

\* Mutant: exit() forgets its children.
M_reparent_nobody(c) ==
  /\ At(c, "reparent")
  /\ thread' = [thread EXCEPT ![Me(c)] =
                  [@ EXCEPT !.pc = "exit_wake", !.arg = proc[Me(c)].parent]]
  /\ UNCHANGED <<proc, cpu, locks, next_pid, init_proc>>

\* The next child goes to init_proc, which is woken; after the last one the
\* parent is.
Reparent(c) ==
  LET kids == {q \in Slots : q >= My(c).i /\ proc[q].parent = Me(c)}
  IN /\ At(c, "reparent")
     /\ \/ \E kid \in Slots :
             /\ First(kid, kids)
             /\ proc' = [proc EXCEPT ![kid].parent = init_proc]
             /\ thread' = [thread EXCEPT ![Me(c)] =
                  [@ EXCEPT !.pc = "reparent_wake", !.i = kid + 1, !.j = 0,
                            !.arg = init_proc]]
        \/ /\ kids = {}
           /\ thread' = [thread EXCEPT ![Me(c)] =
                  [@ EXCEPT !.pc = "exit_wake", !.i = 0, !.j = 0,
                            !.arg = proc[Me(c)].parent]]
             /\ UNCHANGED proc
     /\ UNCHANGED <<cpu, locks, next_pid, init_proc>>

\* Mutant: wakeup() looks for those who sleep on the caller.
M_wake_self(c, label, next) ==
  LET j == My(c).j
  IN /\ At(c, label)
     /\ Visit(c, j)
     /\ proc' = IF proc[j].state = "SLEEPING" /\ proc[j].chan = Me(c)
                THEN [proc EXCEPT ![j].state = "RUNNABLE"]
                ELSE proc
     /\ thread' = [thread EXCEPT ![Me(c)] =
                     IF j + 1 < NPROC THEN [@ EXCEPT !.j = j + 1]
                     ELSE [@ EXCEPT !.pc = next, !.j = 0, !.arg = NoProc]]
     /\ UNCHANGED <<cpu, next_pid, init_proc>>

\* One slot of wakeup(arg).
WakeSlot(c, label, next) ==
  LET j == My(c).j
  IN /\ At(c, label)
     /\ Visit(c, j)
     /\ proc' = IF proc[j].state = "SLEEPING" /\ proc[j].chan = My(c).arg
                THEN [proc EXCEPT ![j].state = "RUNNABLE"]
                ELSE proc
     /\ thread' = [thread EXCEPT ![Me(c)] =
                     IF j + 1 < NPROC THEN [@ EXCEPT !.j = j + 1]
                     ELSE [@ EXCEPT !.pc = next, !.j = 0, !.arg = NoProc]]
     /\ UNCHANGED <<cpu, next_pid, init_proc>>

Wakeup(c) ==
  \/ WakeSlot(c, "reparent_wake", "reparent")
  \/ WakeSlot(c, "exit_wake", "exit_lock")

\* Mutant: exit() gives its slot away before it has left it.
M_exit_frees(c) ==
  /\ At(c, "exit_lock")
  /\ locks[Me(c)] = Free
  /\ locks' = [locks EXCEPT ![Me(c)] = c, ![WaitLock] = Free]
  /\ cpu' = [cpu EXCEPT ![c] = Pop(Push(@))]
  /\ proc' = [proc EXCEPT ![Me(c)] = free_process(@)]
  /\ Goto(c, "exit_sched")
  /\ UNCHANGED <<next_pid, init_proc>>

BecomeZombie(c) ==
  /\ At(c, "exit_lock")
  /\ locks[Me(c)] = Free
  /\ locks' = [locks EXCEPT ![Me(c)] = c, ![WaitLock] = Free]
  /\ cpu' = [cpu EXCEPT ![c] = Pop(Push(@))]
  /\ proc' = [proc EXCEPT ![Me(c)] =
               [@ EXCEPT !.state = "ZOMBIE", !.xstate = 1]]
  /\ Goto(c, "exit_sched")
  /\ UNCHANGED <<next_pid, init_proc>>

-----------------------------------------------------------------------------
(***************************************************************************)
(* wait and sleep.  The test for children stands inside the loop over the  *)
(* table (proc.c:765-797), so wait() goes on to slot 1 only if slot 0 is a *)
(* child of the caller.  It never is (FirstSlotIsNobodysChild): wait()     *)
(* returns -1, and what follows in its loop is not executed.               *)
(***************************************************************************)
WaitEnter(c) ==
  /\ At(c, "wait_enter")
  /\ Acquire(c, WaitLock)
  /\ cpu' = [cpu EXCEPT ![c] = Push(@)]
  /\ Goto(c, "wait")
  /\ UNCHANGED <<proc, next_pid, init_proc>>

WaitReturns(c) ==
  /\ Release({WaitLock})
  /\ cpu' = [cpu EXCEPT ![c] = Pop(@)]
  /\ Finish(c)
  /\ UNCHANGED <<proc, next_pid, init_proc>>

WaitFails(c) ==
  /\ At(c, "wait")
  /\ proc[0].parent # Me(c)
  /\ WaitReturns(c)

(***************************************************************************)
(* The contract of sleep(): a thread that waits for a condition takes the  *)
(* lock of the condition and sleeps until the condition holds or it is     *)
(* killed.  The condition is that a child has exited, the lock wait_lock,  *)
(* and exit() the waker.                                                   *)
(***************************************************************************)
AwaitEnter(c) ==
  /\ At(c, "await_enter")
  /\ Acquire(c, WaitLock)
  /\ cpu' = [cpu EXCEPT ![c] = Push(@)]
  /\ Goto(c, "await")
  /\ UNCHANGED <<proc, next_pid, init_proc>>

ZombieChild(p) == \E q \in Slots : proc[q].parent = p /\ proc[q].state = "ZOMBIE"

Awaited(c) ==
  /\ At(c, "await")
  /\ ZombieChild(Me(c))
  /\ WaitReturns(c)

AwaitMore(c) ==
  /\ At(c, "await")
  /\ ~ZombieChild(Me(c))
  /\ Goto(c, "await_killed")
  /\ UNCHANGED <<proc, cpu, locks, next_pid, init_proc>>

\* killed(p)
AwaitKilled(c) ==
  /\ At(c, "await_killed")
  /\ locks[Me(c)] = Free
  /\ IF proc[Me(c)].killed
     THEN WaitReturns(c)
     ELSE /\ Goto(c, "sleep")
          /\ UNCHANGED <<proc, cpu, locks, next_pid, init_proc>>

\* Mutant: sleep() keeps the lock it was given.
M_sleep_keeps_lock(c) ==
  /\ At(c, "sleep")
  /\ Acquire(c, Me(c))
  /\ cpu' = [cpu EXCEPT ![c] = Push(@)]
  /\ proc' = [proc EXCEPT ![Me(c)] =
               [@ EXCEPT !.chan = Me(c), !.state = "SLEEPING"]]
  /\ Goto(c, "sleep_sched")
  /\ UNCHANGED <<next_pid, init_proc>>

\* sleep(p, &wait_lock): the process lock is taken before wait_lock is released.
Sleep(c) ==
  /\ At(c, "sleep")
  /\ locks[Me(c)] = Free
  /\ locks' = [locks EXCEPT ![Me(c)] = c, ![WaitLock] = Free]
  /\ cpu' = [cpu EXCEPT ![c] = Pop(Push(@))]
  /\ proc' = [proc EXCEPT ![Me(c)] =
               [@ EXCEPT !.chan = Me(c), !.state = "SLEEPING"]]
  /\ Goto(c, "sleep_sched")
  /\ UNCHANGED <<next_pid, init_proc>>

Slept(c) ==
  /\ At(c, "slept")
  /\ Release({Me(c)})
  /\ cpu' = [cpu EXCEPT ![c] = Pop(@)]
  /\ proc' = [proc EXCEPT ![Me(c)].chan = NoProc]
  /\ Goto(c, "rewait")
  /\ UNCHANGED <<next_pid, init_proc>>

\* sleep() returns with wait_lock held again, and the caller looks again.
Rewait(c) ==
  /\ At(c, "rewait")
  /\ Acquire(c, WaitLock)
  /\ cpu' = [cpu EXCEPT ![c] = Push(@)]
  /\ Goto(c, "await")
  /\ UNCHANGED <<proc, next_pid, init_proc>>

-----------------------------------------------------------------------------
(***************************************************************************)
(* kill and setkilled                                                      *)
(***************************************************************************)
Killed(r) ==
  [r EXCEPT !.killed = TRUE,
            !.state = IF @ = "SLEEPING" THEN "RUNNABLE" ELSE @]

\* Mutant: kill() marks a process without waking it.
M_kill_no_wake(c) ==
  LET j == My(c).j
  IN /\ At(c, "kill")
     /\ Visit(c, j)
     /\ IF proc[j].pid = My(c).arg
        THEN /\ proc' = [proc EXCEPT ![j].killed = TRUE]
             /\ Finish(c)
        ELSE /\ IF j + 1 < NPROC
                THEN thread' = [thread EXCEPT ![Me(c)].j = j + 1]
                ELSE Finish(c)
             /\ UNCHANGED proc
     /\ UNCHANGED <<cpu, next_pid, init_proc>>

Kill(c) ==
  LET j == My(c).j
  IN /\ At(c, "kill")
     /\ Visit(c, j)
     /\ IF proc[j].pid = My(c).arg
        THEN /\ proc' = [proc EXCEPT ![j] = Killed(@)]
             /\ Finish(c)
        ELSE /\ IF j + 1 < NPROC
                THEN thread' = [thread EXCEPT ![Me(c)].j = j + 1]
                ELSE Finish(c)
             /\ UNCHANGED proc
     /\ UNCHANGED <<cpu, next_pid, init_proc>>

Setkilled(c) ==
  /\ At(c, "setkilled")
  /\ Visit(c, My(c).arg)
  /\ proc' = [proc EXCEPT ![My(c).arg].killed = TRUE]
  /\ Finish(c)
  /\ UNCHANGED <<cpu, next_pid, init_proc>>

-----------------------------------------------------------------------------
(***************************************************************************)
(* fork                                                                    *)
(***************************************************************************)
\* One slot of make_proc, which returns with the lock of the new process held,
\* or without it if it runs out of memory: the slot then stays USED.
ForkSlot(c) ==
  LET j == My(c).j
  IN /\ At(c, "fork")
     /\ locks[j] = Free
     /\ \/ /\ proc[j].state = "UNUSED"
           /\ proc' = [proc EXCEPT ![j] = Made(j, next_pid)]
           /\ next_pid' = next_pid + 1
           /\ \/ /\ locks' = [locks EXCEPT ![j] = c]
                 /\ cpu' = [cpu EXCEPT ![c] = Push(@)]
                 /\ thread' = [thread EXCEPT
                      ![j] = AtPc("born"),
                      ![Me(c)] = [@ EXCEPT !.pc = "fork_copy", !.j = 0,
                                           !.arg = j]]
              \/ /\ "make_proc" \in Failures
                 /\ Finish(c)
                 /\ UNCHANGED <<cpu, locks>>
        \/ /\ proc[j].state # "UNUSED"
           /\ IF j + 1 < NPROC
              THEN thread' = [thread EXCEPT ![Me(c)].j = j + 1]
              ELSE Finish(c)
           /\ UNCHANGED <<proc, cpu, locks, next_pid>>
     /\ UNCHANGED init_proc

\* Mutant: fork() takes wait_lock with the lock of the new process held.
M_fork_keeps_lock(c) ==
  /\ At(c, "fork_copy")
  /\ Goto(c, "fork_parent")
  /\ UNCHANGED <<proc, cpu, locks, next_pid, init_proc>>

\* uvmcopy: when it fails the new process is freed, but not its lock.
ForkCopy(c) ==
  LET new == My(c).arg
  IN /\ At(c, "fork_copy")
     /\ \/ /\ Goto(c, "fork_parent")
           /\ Release({new})
           /\ cpu' = [cpu EXCEPT ![c] = Pop(@)]
           /\ UNCHANGED proc
        \/ /\ "uvmcopy" \in Failures
           /\ proc' = [proc EXCEPT ![new] = free_process(proc[new])]
           /\ Finish(c)
           /\ UNCHANGED <<cpu, locks>>
     /\ UNCHANGED <<next_pid, init_proc>>

ForkParent(c) ==
  /\ At(c, "fork_parent")
  /\ Visit(c, WaitLock)
  /\ proc' = [proc EXCEPT ![My(c).arg].parent = Me(c)]
  /\ Goto(c, "fork_ready")
  /\ UNCHANGED <<cpu, next_pid, init_proc>>

ForkReady(c) ==
  /\ At(c, "fork_ready")
  /\ Visit(c, My(c).arg)
  /\ proc' = [proc EXCEPT ![My(c).arg].state = "RUNNABLE"]
  /\ Finish(c)
  /\ UNCHANGED <<cpu, next_pid, init_proc>>

-----------------------------------------------------------------------------
SchedulerStep(c) ==
  \/ Boot(c) \/ BootFails(c) \/ StartSchedulers(c)
  \/ ScanSlot(c) \/ Dispatch(c) \/ Idle(c) \/ SchedulerResumes(c)

KernelStep(c) ==
  \/ AcquirePanic(c) \/ Sched(c) \/ Start(c) \/ Return(c)
  \/ Yield(c) \/ Yielded(c)
  \/ Exit(c) \/ Reparent(c) \/ Wakeup(c) \/ BecomeZombie(c)
  \/ WaitEnter(c) \/ WaitFails(c)
  \/ AwaitEnter(c) \/ Awaited(c) \/ AwaitMore(c) \/ AwaitKilled(c)
  \/ Sleep(c) \/ Slept(c) \/ Rewait(c)
  \/ Kill(c) \/ Setkilled(c)
  \/ ForkSlot(c) \/ ForkCopy(c) \/ ForkParent(c) \/ ForkReady(c)

ProcessCalls(c) ==
  \/ CallExit(c) \/ CallWait(c) \/ CallAwait(c) \/ CallFork(c) \/ CallKill(c)
  \/ CallSetkilled(c) \/ InitExits(c) \/ TaskReturns(c)

Next ==
  \E c \in Cpus :
    SchedulerStep(c) \/ KernelStep(c) \/ CallYield(c) \/ ProcessCalls(c)

Spec == Init /\ [][Next]_vars

\* A CPU keeps executing, and what runs on it yields in the end: the timer
\* interrupts a user process, and a kernel task calls yield() in its loop.
Fairness ==
  \A c \in Cpus : /\ WF_vars(SchedulerStep(c))
                  /\ WF_vars(KernelStep(c))
                  /\ SF_vars(CallYield(c))

FairSpec == Spec /\ Fairness

-----------------------------------------------------------------------------
(***************************************************************************)
(* Properties                                                              *)
(***************************************************************************)
States  == {"UNUSED", "USED", "SLEEPING", "RUNNABLE", "RUNNING", "ZOMBIE"}
Labels  == {"born", "run", "return", "yield", "yield_sched", "yielded", "exit",
            "reparent", "reparent_wake", "exit_wake", "exit_lock", "exit_sched",
            "zombie", "wait_enter", "wait", "await_enter", "await",
            "await_killed", "sleep", "sleep_sched", "slept", "rewait", "kill",
            "setkilled", "fork", "fork_copy", "fork_parent", "fork_ready"}
Panics  == {"no", "acquire", "init proc exiting", "no first process",
            "sched p->lock", "sched locks", "sched running",
            "sched interruptible"}
Bit     == {0, 1}
Proc_t  == Slots \cup {NoProc}

TypeOK ==
  /\ proc \in [Slots -> [state : States, priority : Nat, chan : Proc_t,
                        killed : BOOLEAN, xstate : Bit, pid : Nat,
                        parent : Proc_t, is_kernel : BOOLEAN]]
  /\ thread \in [Slots -> [pc : Labels, i : 0..NPROC, j : Slots,
                          arg : Int, saved : Bit, before : Bit]]
  /\ cpu \in [Cpus -> [on : Proc_t, pc : {"boot", "off", "scan", "switched"},
                      scan : Nat, best : Proc_t, proc : Proc_t, noff : Int,
                      intena : Bit, sie : Bit, panic : Panics]]
  /\ locks \in [Locks -> Cpus \cup {Free}]
  /\ next_pid \in Nat
  /\ init_proc \in Proc_t

\* No kernel thread is executed by two CPUs: the scheduler never picks a process
\* whose context another CPU is still using.
OneCpuPerProcess ==
  \A c, d \in Cpus : c # d /\ cpu[c].on # NoProc => cpu[c].on # cpu[d].on

\* Whoever takes the lock of a process that is not RUNNING may resume it, free
\* it or reuse its kernel stack: no CPU is executing on it.
StoppedIsOffCpu ==
  \A p \in Slots :
    proc[p].state # "RUNNING" /\ locks[p] = Free
      => \A c \in Cpus : cpu[c].on # p

\* current_proc() is right: c->proc is the process whose thread runs, and no
\* process while the scheduler looks for one.
CurrentProcExact ==
  \A c \in Cpus :
    cpu[c].panic = "no" =>
      /\ cpu[c].on # NoProc => cpu[c].proc = cpu[c].on
      /\ AtScheduler(c, "scan") => cpu[c].proc = NoProc

\* The locks that the next step of CPU c releases without acquiring them.
Owes(c) ==
  IF AtScheduler(c, "switched") THEN {cpu[c].best}
  ELSE IF cpu[c].on = NoProc \/ cpu[c].panic # "no" THEN {}
  ELSE CASE My(c).pc \in {"born", "yielded", "slept"} -> {Me(c)}
         [] My(c).pc \in {"sleep", "exit_lock", "wait", "await", "await_killed"} ->
              {WaitLock}
         [] My(c).pc = "fork_copy" -> {My(c).arg}
         [] OTHER -> {}

\* No panic is reachable: no CPU takes a lock it holds or releases one it does
\* not, sched() is entered with the process lock and no other, with interrupts
\* off and the process no longer RUNNING (proc.c:434-441), and a dead process
\* never runs again (proc.c:613).
NoPanic ==
  \A c \in Cpus :
    /\ cpu[c].panic = "no"
    /\ \A l \in Owes(c) : locks[l] = c
    /\ ~At(c, "zombie")

\* wait_lock comes before every process lock, process locks in table order, so that no
\* CPUs wait in a circle, of any length: in every set of CPUs one waits for none of them,
\* nor for itself.
NoCircularWait ==
  \A S \in (SUBSET Cpus) \ {{}} :
    \E c \in S : Wants(c) = NoLock \/ locks[Wants(c)] \notin S

\* Two processes that exist never share a pid.
PidsDistinct ==
  \A p, q \in Slots :
    p # q /\ proc[p].state # "UNUSED" /\ proc[q].state # "UNUSED"
      => proc[p].pid # proc[q].pid

\* exit() leaves no child behind: the parent of a process is never dead or
\* freed, so no process is adopted by whatever takes the parent's slot next.
ParentIsAlive ==
  \A q \in Slots :
    proc[q].state # "UNUSED" /\ proc[q].parent # NoProc
      => proc[proc[q].parent].state \notin {"UNUSED", "USED", "ZOMBIE"}

\* yield() and sleep() give the interrupt flag back as it was, whichever CPU the
\* process resumes on: sched() keeps intena across the switch.
InterruptFlagKept ==
  \A c \in Cpus :
    At(c, "return") \/ At(c, "rewait") => cpu[c].sie = My(c).before

\* No wakeup is lost: when wait_lock is free, nobody is asleep waiting for a
\* child that has exited already, nor for one it inherited.
NoLostWakeup ==
  locks[WaitLock] = Free =>
    \A p \in Slots : proc[p].state = "SLEEPING" => ~ZombieChild(p)

\* No process is ever the child of another in slot 0: main() fills it first, and
\* nothing frees it.  So wait() gives up after one slot (proc.c:791) and no
\* process is ever reaped.
FirstSlotIsNobodysChild == proc[0].parent = NoProc

\* A killed process is not put to sleep, nor left asleep.  (On one CPU: on two,
\* kill() may come between the test of killed() and sleep().)
KilledIsAwake ==
  \A p \in Slots : proc[p].killed => proc[p].state # "SLEEPING"

\* The scheduler runs the process of the highest priority, the first one of the
\* table among equals (proc.c:378).
Better(p, q) ==
  \/ proc[p].priority < proc[q].priority
  \/ proc[p].priority = proc[q].priority /\ p < q

BestIsRun ==
  [][\A p \in Slots :
       proc[p].state = "RUNNABLE" /\ proc'[p].state = "RUNNING"
         => \A q \in Slots \ {p} :
              proc[q].state = "RUNNABLE" => Better(p, q)]_vars

\* The life of a process is that of ProcLife.
Life == INSTANCE ProcLife WITH
  state   <- [p \in Slots |-> proc[p].state],
  running <- [c \in Cpus |-> cpu[c].on]

ImplementsProcLife == Life!Spec

\* A CPU does not stay idle while a process can run.
WorkConserving ==
  (\E p \in Slots : proc[p].state = "RUNNABLE")
    ~> (\E p \in Slots : proc[p].state = "RUNNING")

\* What cursord and wallpaperd yield for: "let others run"
\* (kprocs/cursor_daemon.c:18).
\* It does not hold, and no run checks it: see What disagrees in the README.
YieldLetsOthersRun ==
  \A p \in Slots :
    proc[p].state = "RUNNABLE" ~> proc[p].state = "RUNNING"

\* sched() is entered with the process lock held (proc.c:434-435).
\* It does not hold, and no run checks it: see What disagrees in the README.
SchedHoldsProcLock == \A c \in Cpus : cpu[c].panic # "sched p->lock"

\* sched() is entered with no other lock held (proc.c:436-437).
SchedHoldsOneLock == \A c \in Cpus : cpu[c].panic # "sched locks"

\* The table, the CPUs and the pids agree about who runs where, between any two steps
\* of any two CPUs: nobody's stack is shared, and a stopped process is left alone.
ProcessesAreSound ==
  /\ TypeOK
  /\ OneCpuPerProcess
  /\ CurrentProcExact
  /\ StoppedIsOffCpu
  /\ PidsDistinct

\* sched() is only entered as it must be, and gives the interrupt flag back on whichever
\* CPU the process resumes.
SwitchIsSound == NoPanic /\ InterruptFlagKept

\* No CPU waits for a lock, and no process for a child, that will never come.
NobodyWaitsForEver == NoCircularWait /\ NoLostWakeup

\* A parent lives as long as its children, and nobody's parent is mistaken for another.
FamilyIsSound == ParentIsAlive /\ FirstSlotIsNobodysChild
=============================================================================
