---------------------------- MODULE MCInterrupts ----------------------------
(***************************************************************************)
(* What one hart does, for TLC: the path of a trap through the kernel      *)
(* (Trap), the queue of an input device that interrupts (VirtioInput), and *)
(* the processes it runs (Proc on one CPU).  They share no state:          *)
(* `subject` says which one a behaviour is of, and the others stand still. *)
(***************************************************************************)
EXTENDS Trap

CONSTANTS
  u1, u2, k1,                          \* of Trap
  SIZE, WRAP, MaxEvents, MaxFailures,  \* of VirtioInput
  c0, Free, NPROC, MaxPid              \* of Proc

VARIABLES
  subject,
  status, isr, avail, used, buffers, dev, happened, put, step,  \* of VirtioInput
  last_used_idx, id, got, failures,
  proc, thread, cpu, locks, next_pid, init_proc                 \* of Proc

input == <<status, isr, avail, used, buffers, dev, happened, put, step,
           last_used_idx, id, got, failures>>
table == <<proc, thread, cpu, locks, next_pid, init_proc>>

TwoUsers   == {u1, u2}
OneTask    == {k1}
EveryEvent == {"timer", "external", "fault", "kernel_fault"}

Input == INSTANCE VirtioInput WITH pc <- step

\* One CPU, as the kernel boots, and every call: three processes of two priorities.
Sched == INSTANCE Proc WITH
  Cpus <- {c0}, BootCpu <- c0, BootProcs <- <<"flush", "code", "code">>,
  Calls <- {"exit", "await", "fork", "kill", "wait", "setkilled"}, Failures <- {}

ASSUME InputConstants == Input!SizeAssumption /\ Input!BoundAssumption

ASSUME SchedConstants == Sched!CpusAssumption /\ Sched!NprocAssumption /\ Sched!PidAssumption

MCInit == subject \in {"trap", "input", "sched"} /\ Init /\ Input!Init /\ Sched!Init

MCNext ==
  \/ subject = "trap"  /\ Next /\ UNCHANGED <<input, table, subject>>
  \/ subject = "input" /\ Input!Next /\ UNCHANGED <<vars, table, subject>>
  \/ subject = "sched" /\ Sched!Next /\ UNCHANGED <<vars, input, subject>>

MCSpec == MCInit /\ [][MCNext]_<<vars, input, table, subject>>

-----------------------------------------------------------------------------
\* See VirtioInput: every descriptor is in one place, and the interrupt of the last event
\* is never lost.
QueueIsSound == subject = "input" => Input!QueueIsSound

\* See VirtioInput: events are handled once each and in order.
ImplementsAbstractEvents ==
  /\ Input!EventQueue!Init
  /\ [][subject = "input" => Input!EventQueue!Step]_input

\* See Proc: with one CPU a killed process does not sleep.
KilledIsAwake == Sched!KilledIsAwake

\* See Proc: with one CPU the best process is the one that runs next.
BestIsRun == Sched!BestIsRun
=============================================================================
