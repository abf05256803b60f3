----------------------------- MODULE MCProgress -----------------------------
(***************************************************************************)
(* What must happen, for TLC: the interrupt controller (Plic), spin locks, *)
(* the scheduler, the event queue of an input device, the timer of         *)
(* programs and kernel tasks, and sleeping harts, each under the fairness  *)
(* of its module.  `subject` says which one a behaviour is of, the others  *)
(* stand still; fairness is that of the subject.                           *)
(***************************************************************************)
EXTENDS Plic

CONSTANTS c0, c1, free, u, k

VARIABLES
  subject,
  locked, holder, sie, noff, intena, at_lock, arg, held, outer,        \* of SpinLock
  proc, thread, cpu, locks, next_pid, init_proc,                       \* of Proc
  status, isr, avail, used, buffers, dev, happened, put, pc,           \* of VirtioInput
  last_used_idx, id, got, failures,
  where, cur, regs, upc, csr, timer, external, trapframe, context,     \* of Trap
  trap_stack, ver, at, why, saved,
  q, gdev, gisr, step, cmd, head, resp, pages, attach_sz,              \* of VirtioGpu
  now, latch, sleep_end, deadline, hart                                \* of Sleep

spin    == <<locked, holder, sie, noff, intena, at_lock, arg, held, outer>>
procs   == <<proc, thread, cpu, locks, next_pid, init_proc>>
input   == <<status, isr, avail, used, buffers, dev, happened, put, pc,
             last_used_idx, id, got, failures>>
traps   == <<where, cur, regs, upc, csr, timer, external, trapframe, context,
             trap_stack, ver, at, why, saved>>
gpu     == <<q, gdev, gisr, step, cmd, head, resp, pages, attach_sz>>
clock   == <<now, latch, sleep_end, deadline, hart>>

GpuSource == {3}

\* Two harts that follow the order of the locks.
Lock == INSTANCE SpinLock WITH
  Cpus <- {c0, c1}, Locks <- 1..2, NoCpu <- free, Disciplined <- TRUE,
  cpu <- holder, pc <- at_lock

\* One process more than there are slots.
Sched == INSTANCE Proc WITH
  Cpus <- {c0}, BootCpu <- c0, NPROC <- 2, BootProcs <- <<"code", "code", "task">>,
  Calls <- {"exit", "await", "fork"}, Failures <- {"make_proc", "pages"}, MaxPid <- 4,
  Free <- free

\* A handler that does not give up.
Input == INSTANCE VirtioInput WITH SIZE <- 2, WRAP <- 4, MaxEvents <- 7, MaxFailures <- 0

\* A program and a kernel task, and no interrupt but the timer's.
Turns == INSTANCE Trap WITH
  Users <- {u}, Tasks <- {k}, PCS <- 2, Events <- {"timer"},
  loc <- where, pc <- upc, held <- saved

\* Small displays and none.
Gpu == INSTANCE VirtioGpu WITH
  GPUQ_SZ <- 3, WRAP <- 6, PAGE_SIZE <- 4096, Displays <- {1, 255},
  dev <- gdev, isr <- gisr, pc <- step

\* One hart that sleeps twice; the low register wraps around while it does.
Clock == INSTANCE Sleep WITH
  Harts <- {1}, LOW <- 4, TICK <- 3, Amounts <- {1, 5}, MaxCalls <- 2, MaxTime <- 5

ASSUME LockConstants  == Lock!CpusAssumption /\ Lock!LocksAssumption /\ Lock!ModeAssumption
ASSUME InputConstants == Input!SizeAssumption /\ Input!BoundAssumption
ASSUME TurnsConstants == Turns!PcsAssumption /\ Turns!EventsAssumption
ASSUME GpuConstants   == Gpu!SizeAssumption
ASSUME ClockConstants == Clock!ClockAssumption /\ Clock!BoundAssumption

MCInit ==
  /\ subject \in {"plic", "lock", "sched", "input", "turns", "gpu", "clock"}
  /\ IF subject = "plic" THEN Init
     ELSE Init /\ plic.enabled = {} /\ plic.threshold = 0 /\ plic.priority[Uart] = 0
  /\ Lock!Init
  /\ subject # "lock" => sie = [c \in {c0, c1} |-> 0] /\ arg = [c \in {c0, c1} |-> 1]
  /\ Sched!Init /\ Input!Init /\ Turns!Init /\ Gpu!Init /\ Clock!Init

MCNext ==
  \/ subject = "plic"  /\ Next       /\ UNCHANGED <<spin, procs, input, traps, gpu, clock, subject>>
  \/ subject = "lock"  /\ Lock!Next  /\ UNCHANGED <<vars, procs, input, traps, gpu, clock, subject>>
  \/ subject = "sched" /\ Sched!Next /\ UNCHANGED <<vars, spin, input, traps, gpu, clock, subject>>
  \/ subject = "input" /\ Input!Next /\ UNCHANGED <<vars, spin, procs, traps, gpu, clock, subject>>
  \/ subject = "turns" /\ Turns!Next /\ UNCHANGED <<vars, spin, procs, input, gpu, clock, subject>>
  \/ subject = "gpu"   /\ Gpu!Next   /\ UNCHANGED <<vars, spin, procs, input, traps, clock, subject>>
  \/ subject = "clock" /\ Clock!Next /\ UNCHANGED <<vars, spin, procs, input, traps, gpu, subject>>

Fairness ==
  /\ WF_vars(subject = "plic" /\ Hart)
  /\ \A i \in Irqs : WF_vars(subject = "plic" /\ Gateway(i))
  /\ \A c \in {c0, c1} :
       /\ WF_spin(subject = "lock" /\ Lock!AcquireStep(c))
       /\ WF_spin(subject = "lock" /\ Lock!ReleaseStep(c))
       /\ \A l \in 1..2 : SF_spin(subject = "lock" /\ l \in held[c] /\ Lock!ReleaseCall(c, l))
  /\ WF_procs(subject = "sched" /\ Sched!SchedulerStep(c0))
  /\ WF_procs(subject = "sched" /\ Sched!KernelStep(c0))
  /\ SF_procs(subject = "sched" /\ Sched!CallYield(c0))
  /\ WF_input(subject = "input" /\ Input!Handler)
  /\ WF_input(subject = "input" /\ Input!Finish)
  /\ WF_traps(subject = "turns" /\ (Turns!Interrupt \/ Turns!Program \/ Turns!Kernel))
  /\ WF_gpu(subject = "gpu" /\ Gpu!Device)
  /\ WF_gpu(subject = "gpu" /\ Gpu!Driver)
  /\ SF_clock(subject = "clock" /\ Clock!Tick)
  /\ WF_clock(subject = "clock" /\ Clock!Sleeper(1))
  /\ WF_clock(subject = "clock" /\ Clock!TimerInterrupt(1))

MCSpec ==
  /\ MCInit
  /\ [][MCNext]_<<vars, spin, procs, input, traps, gpu, clock, subject>>
  /\ Fairness

-----------------------------------------------------------------------------
\* See Plic, VirtioInput and VirtioGpu: a device that asks for service gets it, the events
\* of a ring are handled, and the set-up of the GPU ends.
DevicesAreServed ==
  /\ RequestsAreServed
  /\ Input!EventsAreHandled
  /\ subject = "gpu" => Gpu!SetUpEnds

\* See SpinLock and Proc: who spins sees the lock, or a later one, taken; and a CPU does
\* not stay idle while a process can run.
HartsGoOn ==
  /\ Lock!SpinningMeansProgress
  /\ subject = "sched" => Sched!WorkConserving

\* See Trap: somebody sets the timer again, and the process that runs when it interrupts
\* gives up the hart.
TimersEndTurns == Turns!TimerIsSetAgain /\ Turns!TimerEndsTheTurn

\* See Sleep: a sleep is no shorter than was asked, and ends.
SleepsAreRight == Clock!SleepsAreRight
=============================================================================
