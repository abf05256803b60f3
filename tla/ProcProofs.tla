----------------------------- MODULE ProcProofs -----------------------------
(***************************************************************************)
(* What holds of Proc for every number of CPUs and slots, every set of     *)
(* processes that main() creates, every set of calls and every failure.    *)
(*                                                                         *)
(* That two CPUs never execute one process is not inductive.  The argument *)
(* is in RunInv: a process that a CPU executes is RUNNING, except between  *)
(* the store of its new state and the switch, when that CPU holds its lock *)
(* (OnCpu); the scan holds the lock of the best process, which is RUNNABLE *)
(* (Scanning); the scheduler still holds it when the process has switched  *)
(* back (Switched).  So whatever a scheduler picks is on no CPU.  Who      *)
(* changes the state of a process without its lock must be known too:      *)
(* fork() makes RUNNABLE only the process it has made itself (Forks).      *)
(*                                                                         *)
(* Each step is shown to keep that invariant and to be a step of ProcLife  *)
(* (Stays).  Steps of one kind are proved together: a process that goes on *)
(* (QuietStep), that gives up its CPU (GiveUpStep), the scan (ScanStep),   *)
(* the two switches (DispatchStep, SchedStep), and a slot that comes into  *)
(* use or is freed (FreshStep).                                            *)
(*                                                                         *)
(* Six more invariants stand on this one, each with a part of its own      *)
(* below: LockInv (who holds which lock, and the interrupt flag), WakeInv  *)
(* (a wakeup on its way), BootInv (the panics by design), FamilyInv (exit  *)
(* hands over its children before it dies), and for one CPU AwakeInv and   *)
(* BestSoFar.                                                              *)
(***************************************************************************)
EXTENDS Proc, NaturalsInduction, WellFoundedInduction, TLAPS

Switching == {"yield_sched", "sleep_sched", "exit_sched"}
Forking   == {"fork_copy", "fork_parent", "fork_ready"}
Parked    == {"born", "yielded", "slept", "zombie"}

\* Before the schedulers run no process has started.
Booting ==
  \A c \in Cpus :
    /\ cpu[c].pc \in {"boot", "off"} => cpu[c].on = NoProc
    /\ cpu[c].pc = "boot" => \A d \in Cpus : cpu[d].pc \in {"boot", "off"}

\* The thread of a process that no CPU executes is at its beginning or inside
\* sched().
ParkedOffCpu ==
  \A p \in Slots : thread[p].pc \notin Parked => \E c \in Cpus : cpu[c].on = p

Scanning ==
  \A c \in Cpus :
    cpu[c].on = NoProc /\ cpu[c].pc = "scan" /\ cpu[c].best # NoProc =>
      /\ locks[cpu[c].best] = c
      /\ proc[cpu[c].best].state = "RUNNABLE"

Switched ==
  \A c \in Cpus :
    cpu[c].on = NoProc /\ cpu[c].pc = "switched" =>
      /\ cpu[c].best # NoProc
      /\ locks[cpu[c].best] = c
      /\ proc[cpu[c].best].state \in {"RUNNABLE", "SLEEPING", "ZOMBIE"}
      /\ \A d \in Cpus : cpu[d].on # cpu[c].best

\* exit_sched is reached with the lock by exit(), but without it by a kernel
\* task that returns.
OnCpuOf(c, p) ==
  /\ cpu[c].best = p
  /\ thread[p].pc \notin Switching => proc[p].state = "RUNNING"
  /\ thread[p].pc = "yield_sched" => proc[p].state = "RUNNABLE"
  /\ thread[p].pc = "sleep_sched" => proc[p].state = "SLEEPING"
  /\ thread[p].pc = "exit_sched"  => proc[p].state = "ZOMBIE"
  /\ thread[p].pc \in Switching =>
       \/ locks[p] = c
       \/ thread[p].pc = "exit_sched" /\ "return" \in Calls

OnCpu == \A c \in Cpus : cpu[c].on # NoProc => OnCpuOf(c, cpu[c].on)

Forks ==
  \A p \in Slots :
    thread[p].pc \in Forking =>
      /\ thread[p].arg \in Slots
      /\ proc[thread[p].arg].state = "USED"
      /\ \A q \in Slots \ {p} :
           thread[q].pc \in Forking => thread[q].arg # thread[p].arg

RunInv ==
  /\ Booting
  /\ ParkedOffCpu
  /\ Scanning
  /\ Switched
  /\ OnCpu
  /\ Forks
  /\ OneCpuPerProcess

PidInv ==
  /\ \A p \in Slots : proc[p].state # "UNUSED" => proc[p].pid < next_pid
  /\ PidsDistinct

IInv ==
  /\ TypeOK
  /\ RunInv
  /\ PidInv
  /\ CurrentProcExact

-----------------------------------------------------------------------------
CpuType == [on : Proc_t, pc : {"boot", "off", "scan", "switched"},
            scan : Nat, best : Proc_t, proc : Proc_t, noff : Int,
            intena : Bit, sie : Bit, panic : Panics]
ProcType == [state : States, priority : Nat, chan : Proc_t, killed : BOOLEAN,
             xstate : Bit, pid : Nat, parent : Proc_t, is_kernel : BOOLEAN]
ThreadType == [pc : Labels, i : 0..NPROC, j : Slots, arg : Int, saved : Bit,
               before : Bit]

\* Entering and leaving a section with interrupts off keeps the type of a CPU.
LEMMA PushPopType ==
  ASSUME NEW k \in CpuType
  PROVE  Push(k) \in CpuType /\ Pop(k) \in CpuType
<1>1. /\ k.noff + 1 \in Int
      /\ k.noff - 1 \in Int
      /\ (IF k.noff = 0 THEN k.sie ELSE k.intena) \in Bit
      /\ (IF k.noff = 1 /\ k.intena = 1 THEN 1 ELSE k.sie) \in Bit
      /\ 0 \in Bit
  BY DEF CpuType, Bit
<1>2. Push(k) \in CpuType
  BY <1>1 DEF CpuType, Push
<1>3. Pop(k) \in CpuType
  BY <1>1 DEF CpuType, Pop
<1> QED
  BY <1>2, <1>3

\* The constants that the types mention.
LEMMA Constants ==
  /\ NPROC \in Nat \ {0}
  /\ \A p \in Proc_t : p # NoProc => p \in Slots
  /\ 0 \in Slots /\ NoProc \in Proc_t /\ NoProc \in Int
  /\ \A p \in Slots : p \in Proc_t /\ p \in Int /\ p # NoProc /\ p + 1 \in 0..NPROC
BY NprocAssumption DEF Slots, Proc_t, NoProc

\* A process that exists at a label is in the table.
LEMMA OnCpuType ==
  ASSUME TypeOK, NEW c \in Cpus, cpu[c].on # NoProc
  PROVE  /\ cpu[c].on \in Slots
         /\ cpu[c] \in CpuType
         /\ thread[cpu[c].on] \in ThreadType
         /\ proc[cpu[c].on] \in ProcType
BY Constants DEF TypeOK, CpuType, ThreadType, ProcType

LEMMA TypeInit == Init => TypeOK
BY CpusAssumption, NprocAssumption, Constants
   DEF Init, TypeOK, UnusedProc, AtPc, InitCpu, States, Labels, Panics, Bit, Proc_t

-----------------------------------------------------------------------------
\* How the parts of a step keep the types.
LEMMA LocksType ==
  ASSUME TypeOK, NEW c \in Cpus, NEW l, NEW ls,
         Acquire(c, l) \/ Visit(c, l) \/ Release(ls) \/ UNCHANGED locks
  PROVE  locks' \in [Locks -> Cpus \cup {Free}]
BY DEF TypeOK, Acquire, Visit, Release

LEMMA PushType ==
  ASSUME TypeOK, NEW c \in Cpus,
         \/ cpu' = [cpu EXCEPT ![c] = Push(@)]
         \/ cpu' = [cpu EXCEPT ![c] = Pop(@)]
         \/ cpu' = [cpu EXCEPT ![c] = Pop(Push(@))]
         \/ UNCHANGED cpu
  PROVE  cpu' \in [Cpus -> CpuType]
<1>1. cpu \in [Cpus -> CpuType] /\ cpu[c] \in CpuType
  BY DEF TypeOK, CpuType
<1>2. Push(cpu[c]) \in CpuType /\ Pop(cpu[c]) \in CpuType
      /\ Pop(Push(cpu[c])) \in CpuType
  BY <1>1, PushPopType
<1> QED
  BY <1>1, <1>2

LEMMA GotoType ==
  ASSUME TypeOK, NEW c \in Cpus, cpu[c].on # NoProc,
         Finish(c) \/ \E label \in Labels : Goto(c, label)
  PROVE  thread' \in [Slots -> ThreadType]
<1>1. thread \in [Slots -> ThreadType] /\ Me(c) \in Slots
  BY OnCpuType DEF TypeOK, ThreadType, Me
<1>2. CASE Finish(c)
  BY <1>1, <1>2, Constants DEF Finish, AtPc, My, Me, ThreadType, Labels, Bit
<1>3. CASE \E label \in Labels : Goto(c, label)
  BY <1>1, <1>3 DEF Goto, ThreadType
<1> QED
  BY <1>2, <1>3

\* What the steps do to single records keeps the types of their fields.
LEMMA CpuRecords ==
  ASSUME NEW k \in CpuType, NEW p \in Proc_t, NEW n \in Nat, NEW b \in Bit
  PROVE  /\ [k EXCEPT !.scan = n, !.best = p] \in CpuType
         /\ [k EXCEPT !.scan = @ + 1] \in CpuType
         /\ [k EXCEPT !.scan = 0, !.sie = 1] \in CpuType
         /\ [k EXCEPT !.on = p, !.proc = p, !.intena = b] \in CpuType
         /\ [k EXCEPT !.on = p, !.pc = "switched"] \in CpuType
         /\ \A x \in Panics : [k EXCEPT !.panic = x] \in CpuType
<1>1. k.scan + 1 \in Nat /\ 0 \in Nat /\ 1 \in Bit
  BY DEF CpuType, Bit
<1>2. [k EXCEPT !.scan = n, !.best = p] \in CpuType
  BY DEF CpuType
<1>3. [k EXCEPT !.scan = @ + 1] \in CpuType
  BY <1>1 DEF CpuType
<1>4. [k EXCEPT !.scan = 0, !.sie = 1] \in CpuType
  BY <1>1 DEF CpuType
<1>5. [k EXCEPT !.on = p, !.proc = p, !.intena = b] \in CpuType
  BY DEF CpuType
<1>6. [k EXCEPT !.on = p, !.pc = "switched"] \in CpuType
  BY DEF CpuType
<1>7. ASSUME NEW x \in Panics
      PROVE  [k EXCEPT !.panic = x] \in CpuType
  BY DEF CpuType
<1> QED
  BY <1>2, <1>3, <1>4, <1>5, <1>6, <1>7

LEMMA ThreadRecords ==
  ASSUME NEW t \in ThreadType, NEW label \in Labels, NEW j \in Slots,
         NEW i \in 0..NPROC, NEW n \in Int, NEW b \in Bit
  PROVE  /\ [t EXCEPT !.pc = label, !.i = i, !.j = j, !.arg = n] \in ThreadType
         /\ [t EXCEPT !.pc = label, !.j = j, !.arg = n] \in ThreadType
         /\ [t EXCEPT !.pc = label, !.saved = b] \in ThreadType
         /\ [t EXCEPT !.j = j] \in ThreadType
         /\ AtPc(label) \in ThreadType
         /\ [AtPc(label) EXCEPT !.arg = n, !.before = 1] \in ThreadType
<1>1. [t EXCEPT !.pc = label, !.i = i, !.j = j, !.arg = n] \in ThreadType
  BY DEF ThreadType
<1>2. [t EXCEPT !.pc = label, !.j = j, !.arg = n] \in ThreadType
  BY DEF ThreadType
<1>3. [t EXCEPT !.pc = label, !.saved = b] \in ThreadType
  BY DEF ThreadType
<1>4. [t EXCEPT !.j = j] \in ThreadType
  BY DEF ThreadType
<1>5. 0 \in 0..NPROC /\ 0 \in Slots /\ NoProc \in Int /\ 0 \in Bit /\ 1 \in Bit
  BY Constants DEF Bit
<1>6. AtPc(label) \in ThreadType
  BY <1>5 DEF ThreadType, AtPc
<1>7. [AtPc(label) EXCEPT !.arg = n, !.before = 1] \in ThreadType
  BY <1>5, <1>6 DEF ThreadType
<1> QED
  BY <1>1, <1>2, <1>3, <1>4, <1>6, <1>7

LEMMA ProcRecords ==
  ASSUME NEW r \in ProcType, NEW kind \in Kinds
  PROVE  /\ free_process(r) \in ProcType
         /\ FromCode(r) \in ProcType
         /\ KernelTask(r, kind) \in ProcType
         /\ [r EXCEPT !.killed = TRUE] \in ProcType
         /\ Killed(r) \in ProcType
<1>1. 0 \in Nat /\ NoProc \in Proc_t /\ 0 \in Bit
      /\ "UNUSED" \in States /\ "RUNNABLE" \in States
      /\ r.state \in States
      /\ (IF r.state = "SLEEPING" THEN "RUNNABLE" ELSE r.state) \in States
  BY Constants DEF Bit, States, ProcType
<1>2. free_process(r) \in ProcType
  BY <1>1 DEF ProcType, free_process
<1>3. FromCode(r) \in ProcType
  BY <1>1 DEF ProcType, FromCode
<1>4. PRIORITY[kind] \in Nat
  BY DEF PRIORITY, Kinds
<1>5. KernelTask(r, kind) \in ProcType
  BY <1>1, <1>4 DEF ProcType, KernelTask
<1>6. [r EXCEPT !.killed = TRUE] \in ProcType
  BY DEF ProcType
<1>7. Killed(r) \in ProcType
  BY <1>1 DEF ProcType, Killed
<1> QED
  BY <1>2, <1>3, <1>5, <1>6, <1>7

\* A step that changes one process keeps the type of the table.
LEMMA ProcUpdate ==
  ASSUME proc \in [Slots -> ProcType], NEW x, NEW r, x \in Slots => r \in ProcType
  PROVE  [proc EXCEPT ![x] = r] \in [Slots -> ProcType]
OBVIOUS

LEMMA ProcFields ==
  ASSUME NEW r \in ProcType, NEW st \in States, NEW q \in Proc_t
  PROVE  /\ [r EXCEPT !.state = st] \in ProcType
         /\ [r EXCEPT !.chan = q, !.state = st] \in ProcType
         /\ [r EXCEPT !.state = st, !.xstate = 1] \in ProcType
         /\ [r EXCEPT !.parent = q] \in ProcType
<1>1. [r EXCEPT !.state = st] \in ProcType
  BY DEF ProcType
<1>2. [r EXCEPT !.chan = q, !.state = st] \in ProcType
  BY DEF ProcType
<1>3. [r EXCEPT !.state = st, !.xstate = 1] \in ProcType
  BY DEF ProcType, Bit
<1>4. [r EXCEPT !.parent = q] \in ProcType
  BY DEF ProcType
<1> QED
  BY <1>1, <1>2, <1>3, <1>4

LEMMA MadeType ==
  ASSUME TypeOK, NEW p \in Slots
  PROVE  Made(p, next_pid) \in ProcType
<1>1. proc[p] \in ProcType /\ next_pid \in Nat
  BY DEF TypeOK, ProcType
<1>2. "USED" \in States /\ PRIORITY["code"] \in Nat
  BY DEF States, PRIORITY
<1> QED
  BY <1>1, <1>2 DEF Made, ProcType

\* Every step keeps the types.
LEMMA TypeNext == TypeOK /\ [Next]_vars => TypeOK'
<1> SUFFICES ASSUME TypeOK, [Next]_vars PROVE TypeOK'
  OBVIOUS
<1>st. /\ "RUNNABLE" \in States /\ "SLEEPING" \in States
       /\ "ZOMBIE" \in States /\ "RUNNING" \in States
  BY DEF States
<1>p. proc \in [Slots -> ProcType]
  BY DEF TypeOK, ProcType
<1>t. thread \in [Slots -> ThreadType]
  BY DEF TypeOK, ThreadType
<1>c. cpu \in [Cpus -> CpuType]
  BY DEF TypeOK, CpuType
<1>l. locks \in [Locks -> Cpus \cup {Free}] /\ next_pid \in Nat /\ init_proc \in Proc_t
  BY DEF TypeOK
<1>k. /\ NoProc \in Proc_t /\ NoProc \in Int /\ 0 \in Slots /\ 0 \in 0..NPROC
      /\ \A p \in Slots : p \in Proc_t /\ p \in Int /\ p + 1 \in 0..NPROC
  BY Constants
<1>at. ASSUME NEW c \in Cpus, cpu[c].on # NoProc
       PROVE  /\ Me(c) \in Slots /\ Me(c) \in Proc_t /\ Me(c) \in Int
              /\ My(c).i \in 0..NPROC /\ My(c).j \in Slots /\ My(c).arg \in Int
              /\ My(c).before \in Bit
              /\ cpu[c].sie \in Bit /\ cpu[c].intena \in Bit
              /\ proc[Me(c)].parent \in Proc_t /\ proc[Me(c)].parent \in Int
  BY <1>at, OnCpuType, Constants DEF Me, My, ThreadType, CpuType, ProcType, Proc_t
<1>1. ASSUME NEW c \in Cpus, Boot(c) PROVE TypeOK'
  <2>1. PICK p \in Slots :
          \E r \in ProcType :
            /\ proc' = [proc EXCEPT ![p] = r]
            /\ init_proc' \in {p, init_proc}
    <3>1. BootKind(c) \in Kinds
      BY <1>1, <1>c, BootAssumption DEF Boot, AtBoot, AtScheduler, BootKind, CpuType
    <3>2. ASSUME NEW p \in Slots
          PROVE  /\ FromCode(Made(p, next_pid)) \in ProcType
                 /\ KernelTask(Made(p, next_pid), BootKind(c)) \in ProcType
      BY <3>1, MadeType, ProcRecords
    <3> QED
      BY <1>1, <3>2 DEF Boot
  <2>2. proc' \in [Slots -> ProcType] /\ init_proc' \in Proc_t
    BY <2>1, <1>p, <1>l, <1>k
  <2>3. cpu' \in [Cpus -> CpuType] /\ next_pid' \in Nat
    BY <1>1, <1>c, <1>l DEF Boot, CpuType
  <2> QED
    BY <1>1, <2>2, <2>3 DEF Boot, TypeOK, ProcType, ThreadType, CpuType
<1>2. ASSUME NEW c \in Cpus, BootFails(c) PROVE TypeOK'
  <2>1. ASSUME NEW p \in Slots
        PROVE  Made(p, next_pid) \in ProcType
               /\ free_process(Made(p, next_pid)) \in ProcType
    BY MadeType, ProcRecords DEF Kinds
  <2>2. \/ UNCHANGED <<proc, next_pid>>
        \/ \E p \in Slots, r \in ProcType :
             proc' = [proc EXCEPT ![p] = r] /\ next_pid' = next_pid + 1
    BY <1>2, <2>1 DEF BootFails
  <2>3. proc' \in [Slots -> ProcType] /\ next_pid' \in Nat
    BY <2>2, <1>p, <1>l
  <2>4. cpu' \in [Cpus -> CpuType]
    <3>1. [cpu[c] EXCEPT !.panic = "no first process"] \in CpuType
          /\ [cpu[c] EXCEPT !.scan = @ + 1] \in CpuType
      BY Zenon, <1>c, <1>k, CpuRecords DEF Panics, Bit
    <3> QED
      BY <1>2, <3>1, <1>c DEF BootFails
  <2> QED
    BY <1>2, <2>3, <2>4 DEF BootFails, TypeOK, ProcType, ThreadType, CpuType
<1>3. ASSUME NEW c \in Cpus, StartSchedulers(c) PROVE TypeOK'
  <2>1. cpu' \in [Cpus -> CpuType]
    BY <1>3, <1>k DEF StartSchedulers, InitCpu, CpuType, Bit, Panics
  <2> QED
    BY <1>3, <2>1 DEF StartSchedulers, TypeOK, ProcType, ThreadType, CpuType
<1>4. ASSUME NEW c \in Cpus, ScanSlot(c) PROVE TypeOK'
  <2>1. cpu[c].scan \in Slots /\ cpu[c].scan \in Proc_t
    BY <1>4, <1>c, NprocAssumption DEF ScanSlot, CpuType, Slots, Proc_t
  <2>2. PICK k \in CpuType, best \in Proc_t :
          cpu' = [cpu EXCEPT ![c] =
                    [k EXCEPT !.scan = cpu[c].scan + 1, !.best = best]]
    <3>1. Push(cpu[c]) \in CpuType /\ Pop(Push(cpu[c])) \in CpuType
          /\ cpu[c].best \in Proc_t
      BY <1>c, PushPopType DEF CpuType
    <3> QED
      BY <1>4, <2>1, <3>1 DEF ScanSlot
  <2>3. cpu' \in [Cpus -> CpuType]
    <3>1. cpu[c].scan + 1 \in Nat
      BY <2>1, NprocAssumption DEF Slots
    <3>2. 0 \in Bit
      BY DEF Bit
    <3>3. [k EXCEPT !.scan = cpu[c].scan + 1, !.best = best] \in CpuType
      BY Zenon, <3>1, <3>2, CpuRecords
    <3> QED
      BY <2>2, <3>3, <1>c
  <2>4. locks' \in [Locks -> Cpus \cup {Free}]
    BY <1>4, <1>l DEF ScanSlot
  <2> QED
    BY Zenon, <1>4, <2>3, <2>4 DEF ScanSlot, TypeOK, ProcType, ThreadType, CpuType
<1>5. ASSUME NEW c \in Cpus, Dispatch(c) PROVE TypeOK'
  <2>1. cpu[c].best \in Slots
    BY <1>5, <1>c, Constants DEF Dispatch, CpuType
  <2>2. proc' \in [Slots -> ProcType]
    BY <1>5, <2>1, <1>p DEF Dispatch, ProcType, States
  <2>3. Restored(c, cpu[c].best) \in Bit
    BY <2>1, <1>t, <1>c DEF ThreadType, CpuType, Restored
  <2>4. cpu' \in [Cpus -> CpuType]
    <3>1. [cpu[c] EXCEPT !.on = cpu[c].best, !.proc = cpu[c].best,
                         !.intena = Restored(c, cpu[c].best)] \in CpuType
      BY Zenon, <2>1, <2>3, <1>c, <1>k, CpuRecords
    <3> QED
      BY <1>5, <3>1, <1>c DEF Dispatch
  <2> QED
    BY <1>5, <2>2, <2>4 DEF Dispatch, TypeOK, ProcType, ThreadType, CpuType
<1>6. ASSUME NEW c \in Cpus, Idle(c) PROVE TypeOK'
  <2>1. cpu' \in [Cpus -> CpuType]
    BY <1>6, <1>c DEF Idle, CpuType, Bit
  <2> QED
    BY <1>6, <2>1 DEF Idle, TypeOK, ProcType, ThreadType, CpuType
<1>7. ASSUME NEW c \in Cpus, SchedulerResumes(c) PROVE TypeOK'
  <2>1. Pop(cpu[c]) \in CpuType
    BY <1>c, PushPopType
  <2>2. cpu' \in [Cpus -> CpuType]
    BY <1>7, <2>1, <1>c, <1>k DEF SchedulerResumes, CpuType, Bit
  <2>3. locks' \in [Locks -> Cpus \cup {Free}]
    BY <1>7, LocksType DEF SchedulerResumes
  <2> QED
    BY <1>7, <2>2, <2>3 DEF SchedulerResumes, TypeOK, ProcType, ThreadType, CpuType
<1>8. ASSUME NEW c \in Cpus, AcquirePanic(c) PROVE TypeOK'
  <2>1. Push(cpu[c]) \in CpuType
    BY <1>c, PushPopType
  <2>2. cpu' \in [Cpus -> CpuType]
    BY <1>8, <2>1, <1>c DEF AcquirePanic, CpuType, Panics
  <2> QED
    BY <1>8, <2>2 DEF AcquirePanic, TypeOK, ProcType, ThreadType, CpuType
<1>9. ASSUME NEW c \in Cpus, Sched(c) PROVE TypeOK'
  <2>1. PICK from \in Labels, to \in Labels : sched(c, from, to)
    BY <1>9 DEF Sched, Labels
  <2>2. cpu[c].on # NoProc /\ SchedComplaint(c) \in Panics
    BY <2>1 DEF sched, At, SchedComplaint, Panics
  <2>3. cpu' \in [Cpus -> CpuType]
    <3>1. /\ [cpu[c] EXCEPT !.on = NoProc, !.pc = "switched"] \in CpuType
          /\ [cpu[c] EXCEPT !.panic = SchedComplaint(c)] \in CpuType
      BY Zenon, <2>2, <1>c, <1>k, CpuRecords DEF Bit
    <3> QED
      BY <2>1, <3>1, <1>c DEF sched
  <2>4. thread' \in [Slots -> ThreadType]
    <3>1. [thread[Me(c)] EXCEPT !.pc = to, !.saved = cpu[c].intena] \in ThreadType
      BY Zenon, <2>2, <1>t, <1>at, <1>k, ThreadRecords
    <3> QED
      BY <2>1, <3>1, <1>t DEF sched
  <2> QED
    BY <2>1, <2>3, <2>4 DEF sched, TypeOK, ProcType, ThreadType, CpuType
<1>10. ASSUME NEW c \in Cpus, Start(c) PROVE TypeOK'
  <2>1. thread' \in [Slots -> ThreadType]
    BY <1>10, <1>t, <1>at, <1>k DEF Start, At, AtPc, ThreadType, Labels, Bit
  <2>2. cpu' \in [Cpus -> CpuType]
    BY <1>10, <1>c, PushType DEF Start, WaitReturns
  <2>3. locks' \in [Locks -> Cpus \cup {Free}]
    BY <1>10, <1>l, LocksType DEF Start, WaitReturns
  <2> QED
    BY <1>10, <2>1, <2>2, <2>3 DEF Start, TypeOK, ProcType, ThreadType,
       CpuType
<1>11. ASSUME NEW c \in Cpus, Return(c) PROVE TypeOK'
  <2>1. thread' \in [Slots -> ThreadType]
    BY <1>11, <1>t, <1>at, <1>k DEF Return, At, AtPc, ThreadType, Labels, Bit
  <2>2. cpu' \in [Cpus -> CpuType]
    BY <1>11, <1>c DEF Return, CpuType, Bit
  <2> QED
    BY <1>11, <2>1, <2>2 DEF Return, TypeOK, ProcType, ThreadType, CpuType
<1>12. ASSUME NEW c \in Cpus, Yield(c) PROVE TypeOK'
  <2>1. proc' \in [Slots -> ProcType]
    BY <1>12, <1>p, <1>at, <1>k DEF Yield, At, ProcType, States
  <2>2. thread' \in [Slots -> ThreadType]
    BY <1>12, <1>t, <1>at, <1>k, GotoType DEF Yield, At, Labels, WaitReturns
  <2>3. cpu' \in [Cpus -> CpuType]
    BY <1>12, <1>c, PushType DEF Yield, WaitReturns
  <2>4. locks' \in [Locks -> Cpus \cup {Free}]
    BY <1>12, <1>l, LocksType DEF Yield, WaitReturns
  <2> QED
    BY <1>12, <2>1, <2>2, <2>3, <2>4 DEF Yield, TypeOK, ProcType, ThreadType,
       CpuType
<1>13. ASSUME NEW c \in Cpus, Yielded(c) PROVE TypeOK'
  <2>1. thread' \in [Slots -> ThreadType]
    BY <1>13, <1>t, <1>at, <1>k, GotoType DEF Yielded, At, Labels, WaitReturns
  <2>2. cpu' \in [Cpus -> CpuType]
    BY <1>13, <1>c, PushType DEF Yielded, WaitReturns
  <2>3. locks' \in [Locks -> Cpus \cup {Free}]
    BY <1>13, <1>l, LocksType DEF Yielded, WaitReturns
  <2> QED
    BY <1>13, <2>1, <2>2, <2>3 DEF Yielded, TypeOK, ProcType, ThreadType,
       CpuType
<1>14. ASSUME NEW c \in Cpus, Exit(c) PROVE TypeOK'
  <2>1. thread' \in [Slots -> ThreadType]
    BY <1>14, <1>t, <1>at, <1>k, GotoType DEF Exit, At, Labels, WaitReturns
  <2>2. cpu' \in [Cpus -> CpuType]
    BY <1>14, <1>c, PushType DEF Exit, WaitReturns
  <2>3. locks' \in [Locks -> Cpus \cup {Free}]
    BY <1>14, <1>l, LocksType DEF Exit, WaitReturns
  <2> QED
    BY <1>14, <2>1, <2>2, <2>3 DEF Exit, TypeOK, ProcType, ThreadType, CpuType
<1>15. ASSUME NEW c \in Cpus, Reparent(c) PROVE TypeOK'
  <2>1. proc' \in [Slots -> ProcType]
    <3>1. ASSUME NEW kid \in Slots
          PROVE  [proc[kid] EXCEPT !.parent = init_proc] \in ProcType
      BY <1>p, <1>l DEF ProcType
    <3>2. \/ proc' = proc
          \/ \E kid \in Slots : proc' = [proc EXCEPT ![kid].parent = init_proc]
      BY <1>15 DEF Reparent
    <3> QED
      BY <3>1, <3>2, <1>p
  <2>2. \E r \in ThreadType : thread' = [thread EXCEPT ![Me(c)] = r]
    <3>1. cpu[c].on # NoProc /\ My(c) = thread[Me(c)]
      BY Zenon, <1>15 DEF Reparent, At, My, Me
    <3>2. ASSUME NEW kid \in Slots
          PROVE  [My(c) EXCEPT !.pc = "reparent_wake", !.i = kid + 1, !.j = 0,
                               !.arg = init_proc] \in ThreadType
      <4>1. kid + 1 \in 0..NPROC /\ init_proc \in Int
        BY <1>k, <1>l DEF Proc_t
      <4>2. My(c) \in ThreadType /\ 0 \in Slots /\ 0 \in Bit
            /\ "reparent_wake" \in Labels
        BY <3>1, <1>t, <1>at, <1>k DEF Labels, Bit
      <4> QED
        BY Zenon, <4>1, <4>2, ThreadRecords
    <3>3. [My(c) EXCEPT !.pc = "exit_wake", !.i = 0, !.j = 0,
                        !.arg = proc[Me(c)].parent] \in ThreadType
      <4>1. My(c) \in ThreadType /\ 0 \in Slots /\ 0 \in 0..NPROC /\ 0 \in Bit
            /\ "exit_wake" \in Labels /\ proc[Me(c)].parent \in Int
        BY <3>1, <1>t, <1>at, <1>k DEF Labels, Bit
      <4> QED
        BY Zenon, <4>1, ThreadRecords
    <3> QED
      BY Zenon, <1>15, <3>1, <3>2, <3>3 DEF Reparent
  <2>3. thread' \in [Slots -> ThreadType]
    BY <2>2, <1>t
  <2> QED
    BY <1>15, <2>1, <2>3 DEF Reparent, TypeOK, ProcType, ThreadType, CpuType
<1>16. ASSUME NEW c \in Cpus, Wakeup(c) PROVE TypeOK'
  <2>1. PICK label \in Labels, next \in Labels : WakeSlot(c, label, next)
    BY <1>16 DEF Wakeup, Labels
  <2>2. cpu[c].on # NoProc /\ My(c) = thread[Me(c)]
    BY <2>1 DEF WakeSlot, At, My, Me
  <2>3. proc' \in [Slots -> ProcType]
    <3>1. \/ proc' = proc
          \/ proc' = [proc EXCEPT ![My(c).j] =
                         [proc[My(c).j] EXCEPT !.state = "RUNNABLE"]]
      BY <2>1 DEF WakeSlot
    <3>2. My(c).j \in Slots =>
            [proc[My(c).j] EXCEPT !.state = "RUNNABLE"] \in ProcType
      BY Zenon, <1>p, <1>st, <1>k, ProcFields
    <3> QED
      BY <3>1, <3>2, <1>p, ProcUpdate
  <2>4. \E r \in ThreadType : thread' = [thread EXCEPT ![Me(c)] = r]
    <3>1. My(c).j + 1 < NPROC => My(c).j + 1 \in Slots
      BY <2>2, <1>at, NprocAssumption DEF Slots
    <3>2. My(c).j + 1 < NPROC => [My(c) EXCEPT !.j = My(c).j + 1] \in ThreadType
      BY <3>1, <2>2, <1>t, <1>at DEF ThreadType
    <3>3. [My(c) EXCEPT !.pc = next, !.j = 0, !.arg = NoProc] \in ThreadType
      BY Zenon, <2>2, <1>t, <1>at, <1>k, ThreadRecords DEF Bit
    <3> QED
      BY <2>1, <2>2, <3>2, <3>3 DEF WakeSlot
  <2>5. thread' \in [Slots -> ThreadType]
    BY <2>4, <1>t
  <2> QED
    BY <2>1, <2>3, <2>5 DEF WakeSlot, Visit, TypeOK, ProcType, ThreadType, CpuType
<1>17. ASSUME NEW c \in Cpus, BecomeZombie(c) PROVE TypeOK'
  <2>1. proc' \in [Slots -> ProcType]
    <3>1. proc' = [proc EXCEPT ![Me(c)] = [proc[Me(c)] EXCEPT !.state = "ZOMBIE", !.xstate = 1]]
      BY <1>17 DEF BecomeZombie
    <3>2. Me(c) \in Slots => [proc[Me(c)] EXCEPT !.state = "ZOMBIE", !.xstate = 1] \in ProcType
      BY Zenon, <1>p, <1>st, <1>k, <1>at, ProcFields, ProcRecords DEF Kinds
    <3> QED
      BY <3>1, <3>2, <1>p, ProcUpdate
  <2>2. thread' \in [Slots -> ThreadType]
    BY <1>17, <1>t, <1>at, <1>k, GotoType DEF BecomeZombie, At, Labels,
       WaitReturns, Bit
  <2>3. cpu' \in [Cpus -> CpuType]
    BY <1>17, <1>c, PushType DEF BecomeZombie, WaitReturns, Bit
  <2>4. locks' \in [Locks -> Cpus \cup {Free}]
    BY <1>17, <1>l DEF BecomeZombie, Bit
  <2> QED
    BY <1>17, <2>1, <2>2, <2>3, <2>4 DEF BecomeZombie, TypeOK, ProcType,
       ThreadType, CpuType
<1>18. ASSUME NEW c \in Cpus, WaitEnter(c) PROVE TypeOK'
  <2>1. thread' \in [Slots -> ThreadType]
    BY <1>18, <1>t, <1>at, <1>k, GotoType DEF WaitEnter, At, Labels,
       WaitReturns
  <2>2. cpu' \in [Cpus -> CpuType]
    BY <1>18, <1>c, PushType DEF WaitEnter, WaitReturns
  <2>3. locks' \in [Locks -> Cpus \cup {Free}]
    BY <1>18, <1>l, LocksType DEF WaitEnter, WaitReturns
  <2> QED
    BY <1>18, <2>1, <2>2, <2>3 DEF WaitEnter, TypeOK, ProcType, ThreadType,
       CpuType
<1>19. ASSUME NEW c \in Cpus, WaitFails(c) PROVE TypeOK'
  <2>1. thread' \in [Slots -> ThreadType]
    BY <1>19, <1>t, <1>at, <1>k, GotoType DEF WaitFails, At, Labels,
       WaitReturns
  <2>2. cpu' \in [Cpus -> CpuType]
    BY <1>19, <1>c, PushType DEF WaitFails, WaitReturns
  <2>3. locks' \in [Locks -> Cpus \cup {Free}]
    BY <1>19, <1>l, LocksType DEF WaitFails, WaitReturns
  <2> QED
    BY <1>19, <2>1, <2>2, <2>3 DEF WaitFails, TypeOK, ProcType, ThreadType,
       CpuType, WaitReturns
<1>20. ASSUME NEW c \in Cpus, AwaitEnter(c) PROVE TypeOK'
  <2>1. thread' \in [Slots -> ThreadType]
    BY <1>20, <1>t, <1>at, <1>k, GotoType DEF AwaitEnter, At, Labels,
       WaitReturns
  <2>2. cpu' \in [Cpus -> CpuType]
    BY <1>20, <1>c, PushType DEF AwaitEnter, WaitReturns
  <2>3. locks' \in [Locks -> Cpus \cup {Free}]
    BY <1>20, <1>l, LocksType DEF AwaitEnter, WaitReturns
  <2> QED
    BY <1>20, <2>1, <2>2, <2>3 DEF AwaitEnter, TypeOK, ProcType, ThreadType,
       CpuType
<1>21. ASSUME NEW c \in Cpus, Awaited(c) PROVE TypeOK'
  <2>1. thread' \in [Slots -> ThreadType]
    BY <1>21, <1>t, <1>at, <1>k, GotoType DEF Awaited, At, Labels, WaitReturns
  <2>2. cpu' \in [Cpus -> CpuType]
    BY <1>21, <1>c, PushType DEF Awaited, WaitReturns
  <2>3. locks' \in [Locks -> Cpus \cup {Free}]
    BY <1>21, <1>l, LocksType DEF Awaited, WaitReturns
  <2> QED
    BY <1>21, <2>1, <2>2, <2>3 DEF Awaited, TypeOK, ProcType, ThreadType,
       CpuType, WaitReturns
<1>22. ASSUME NEW c \in Cpus, AwaitMore(c) PROVE TypeOK'
  <2>1. thread' \in [Slots -> ThreadType]
    BY <1>22, <1>t, <1>at, <1>k, GotoType DEF AwaitMore, At, Labels,
       WaitReturns
  <2> QED
    BY <1>22, <2>1 DEF AwaitMore, TypeOK, ProcType, ThreadType, CpuType
<1>23. ASSUME NEW c \in Cpus, AwaitKilled(c) PROVE TypeOK'
  <2>1. thread' \in [Slots -> ThreadType]
    BY <1>23, <1>t, <1>at, <1>k, GotoType DEF AwaitKilled, At, Labels,
       WaitReturns
  <2>2. cpu' \in [Cpus -> CpuType]
    BY <1>23, <1>c, PushType DEF AwaitKilled, WaitReturns
  <2>3. locks' \in [Locks -> Cpus \cup {Free}]
    BY <1>23, <1>l, LocksType DEF AwaitKilled, WaitReturns
  <2> QED
    BY <1>23, <2>1, <2>2, <2>3 DEF AwaitKilled, TypeOK, ProcType, ThreadType,
       CpuType, WaitReturns
<1>24. ASSUME NEW c \in Cpus, Sleep(c) PROVE TypeOK'
  <2>1. proc' \in [Slots -> ProcType]
    <3>1. proc' = [proc EXCEPT ![Me(c)] = [proc[Me(c)] EXCEPT !.chan = Me(c), !.state = "SLEEPING"]]
      BY <1>24 DEF Sleep
    <3>2. Me(c) \in Slots => [proc[Me(c)] EXCEPT !.chan = Me(c), !.state = "SLEEPING"] \in ProcType
      BY Zenon, <1>p, <1>st, <1>k, <1>at, ProcFields DEF Me
    <3> QED
      BY <3>1, <3>2, <1>p, ProcUpdate
  <2>2. thread' \in [Slots -> ThreadType]
    BY <1>24, <1>t, <1>at, <1>k, GotoType DEF Sleep, At, Labels, WaitReturns
  <2>3. cpu' \in [Cpus -> CpuType]
    BY <1>24, <1>c, PushType DEF Sleep, WaitReturns
  <2>4. locks' \in [Locks -> Cpus \cup {Free}]
    BY <1>24, <1>l DEF Sleep
  <2> QED
    BY <1>24, <2>1, <2>2, <2>3, <2>4 DEF Sleep, TypeOK, ProcType, ThreadType,
       CpuType
<1>25. ASSUME NEW c \in Cpus, Slept(c) PROVE TypeOK'
  <2>1. proc' \in [Slots -> ProcType]
    BY <1>25, <1>p, <1>at, <1>k DEF Slept, At, ProcType, States
  <2>2. thread' \in [Slots -> ThreadType]
    BY <1>25, <1>t, <1>at, <1>k, GotoType DEF Slept, At, Labels, WaitReturns
  <2>3. cpu' \in [Cpus -> CpuType]
    BY <1>25, <1>c, PushType DEF Slept, WaitReturns
  <2>4. locks' \in [Locks -> Cpus \cup {Free}]
    BY <1>25, <1>l, LocksType DEF Slept, WaitReturns
  <2> QED
    BY <1>25, <2>1, <2>2, <2>3, <2>4 DEF Slept, TypeOK, ProcType, ThreadType,
       CpuType
<1>26. ASSUME NEW c \in Cpus, Rewait(c) PROVE TypeOK'
  <2>1. thread' \in [Slots -> ThreadType]
    BY <1>26, <1>t, <1>at, <1>k, GotoType DEF Rewait, At, Labels, WaitReturns
  <2>2. cpu' \in [Cpus -> CpuType]
    BY <1>26, <1>c, PushType DEF Rewait, WaitReturns
  <2>3. locks' \in [Locks -> Cpus \cup {Free}]
    BY <1>26, <1>l, LocksType DEF Rewait, WaitReturns
  <2> QED
    BY <1>26, <2>1, <2>2, <2>3 DEF Rewait, TypeOK, ProcType, ThreadType,
       CpuType
<1>27. ASSUME NEW c \in Cpus, Kill(c) PROVE TypeOK'
  <2>1. cpu[c].on # NoProc /\ My(c) = thread[Me(c)]
    BY <1>27 DEF Kill, At, My, Me
  <2>2. Killed(proc[My(c).j]) \in ProcType
    BY <2>1, <1>p, <1>at, ProcRecords DEF Kinds
  <2>3. proc' \in [Slots -> ProcType]
    <3>1. \/ UNCHANGED proc
          \/ \E r \in ProcType : proc' = [proc EXCEPT ![My(c).j] = r]
      BY <1>27, <2>2 DEF Kill
    <3> QED
      BY <3>1, <1>p
  <2>4. thread' \in [Slots -> ThreadType]
    <3>1. CASE Finish(c)
      BY <3>1, <2>1, GotoType
    <3>2. CASE /\ My(c).j + 1 < NPROC
               /\ thread' = [thread EXCEPT ![Me(c)].j = My(c).j + 1]
      <4>1. My(c).j + 1 \in Slots
        BY <3>2, <2>1, <1>at, NprocAssumption DEF Slots
      <4>2. [thread[Me(c)] EXCEPT !.j = My(c).j + 1] \in ThreadType
        BY Zenon, <4>1, <2>1, <1>t, <1>at, <1>k, ThreadRecords DEF Labels, Bit
      <4> QED
        BY <4>2, <3>2, <1>t
    <3> QED
      BY <1>27, <3>1, <3>2 DEF Kill
  <2> QED
    BY <1>27, <2>3, <2>4 DEF Kill, Visit, TypeOK, ProcType, ThreadType, CpuType
<1>28. ASSUME NEW c \in Cpus, Setkilled(c) PROVE TypeOK'
  <2>1. proc' \in [Slots -> ProcType]
    <3>1. proc' = [proc EXCEPT ![My(c).arg] = [proc[My(c).arg] EXCEPT !.killed = TRUE]]
      BY <1>28 DEF Setkilled
    <3>2. My(c).arg \in Slots => [proc[My(c).arg] EXCEPT !.killed = TRUE] \in ProcType
      BY <1>p, ProcRecords DEF Kinds
    <3> QED
      BY <3>1, <3>2, <1>p, ProcUpdate
  <2>2. thread' \in [Slots -> ThreadType]
    BY <1>28, <1>t, <1>at, <1>k, GotoType DEF Setkilled, At, Labels,
       WaitReturns
  <2>3. locks' \in [Locks -> Cpus \cup {Free}]
    BY <1>28, <1>l, LocksType DEF Setkilled, WaitReturns
  <2> QED
    BY <1>28, <2>1, <2>2, <2>3 DEF Setkilled, TypeOK, ProcType, ThreadType,
       CpuType
<1>29. ASSUME NEW c \in Cpus, ForkSlot(c) PROVE TypeOK'
  <2>1. cpu[c].on # NoProc /\ My(c) = thread[Me(c)] /\ My(c).j \in Slots
    BY Zenon, <1>29, <1>at DEF ForkSlot, At, My, Me
  <2>2. Made(My(c).j, next_pid) \in ProcType
    BY <2>1, MadeType
  <2>3. proc' \in [Slots -> ProcType] /\ next_pid' \in Nat
    BY <1>29, <2>2, <1>p, <1>l DEF ForkSlot
  <2>4. cpu' \in [Cpus -> CpuType]
    BY <1>29, PushType DEF ForkSlot
  <2>5. locks' \in [Locks -> Cpus \cup {Free}]
    BY <1>29, <1>l DEF ForkSlot
  <2>6. thread' \in [Slots -> ThreadType]
    <3>1. CASE Finish(c)
      BY <3>1, <2>1, GotoType
    <3>2. CASE /\ My(c).j + 1 < NPROC
               /\ thread' = [thread EXCEPT ![Me(c)].j = My(c).j + 1]
      <4>1. My(c).j + 1 \in Slots
        BY <3>2, <2>1, NprocAssumption DEF Slots
      <4>2. [thread[Me(c)] EXCEPT !.j = My(c).j + 1] \in ThreadType
        BY Zenon, <4>1, <2>1, <1>t, <1>at, <1>k, ThreadRecords DEF Labels, Bit
      <4> QED
        BY <4>2, <3>2, <1>t
    <3>3. CASE thread' = [thread EXCEPT
                 ![My(c).j] = AtPc("born"),
                 ![Me(c)] = [@ EXCEPT !.pc = "fork_copy", !.j = 0,
                                      !.arg = My(c).j]]
      <4>1. AtPc("born") \in ThreadType
        BY Zenon, <2>1, <1>t, <1>k, ThreadRecords DEF Labels, Bit
      <4>2. \A r \in ThreadType :
              [r EXCEPT !.pc = "fork_copy", !.j = 0, !.arg = My(c).j] \in ThreadType
        <5>1. "fork_copy" \in Labels /\ My(c).j \in Slots /\ My(c).j \in Int
              /\ 0 \in 0..NPROC /\ 0 \in Slots /\ 0 \in Bit
          BY <2>1, <1>k DEF Labels, Bit
        <5> QED
          BY Zenon, <5>1, ThreadRecords
      <4> QED
        BY <3>3, <4>1, <4>2, <1>t, <2>1, <1>at
    <3> QED
      BY <1>29, <3>1, <3>2, <3>3 DEF ForkSlot
  <2> QED
    BY <1>29, <2>3, <2>4, <2>5, <2>6
       DEF ForkSlot, TypeOK, ProcType, ThreadType, CpuType
<1>30. ASSUME NEW c \in Cpus, ForkCopy(c) PROVE TypeOK'
  <2>1. cpu[c].on # NoProc
    BY <1>30 DEF ForkCopy, At
  <2>2. proc' \in [Slots -> ProcType]
    <3>1. CASE My(c).arg \in Slots
      <4>1. free_process(proc[My(c).arg]) \in ProcType
        BY <3>1, <1>p, ProcRecords DEF Kinds
      <4> QED
        BY <1>30, <3>1, <4>1, <1>p DEF ForkCopy
    <3>2. CASE My(c).arg \notin Slots
      BY <1>30, <3>2, <1>p DEF ForkCopy
    <3> QED
      BY <3>1, <3>2
  <2>3. thread' \in [Slots -> ThreadType]
    BY <1>30, <2>1, GotoType DEF ForkCopy, Labels
  <2>4. cpu' \in [Cpus -> CpuType]
    BY <1>30, PushType DEF ForkCopy
  <2>5. locks' \in [Locks -> Cpus \cup {Free}]
    BY <1>30, LocksType DEF ForkCopy
  <2> QED
    BY <1>30, <2>2, <2>3, <2>4, <2>5
       DEF ForkCopy, TypeOK, ProcType, ThreadType, CpuType
<1>31. ASSUME NEW c \in Cpus, ForkParent(c) PROVE TypeOK'
  <2>1. proc' \in [Slots -> ProcType]
    <3>1. proc' = [proc EXCEPT ![My(c).arg] = [proc[My(c).arg] EXCEPT !.parent = Me(c)]]
      BY <1>31 DEF ForkParent
    <3>2. Me(c) \in Proc_t
      BY <1>31, <1>at, <1>k DEF ForkParent, At, Me
    <3>3. My(c).arg \in Slots =>
            [proc[My(c).arg] EXCEPT !.parent = Me(c)] \in ProcType
      BY Zenon, <3>2, <1>p, <1>st, ProcFields
    <3> QED
      BY <3>1, <3>3, <1>p, ProcUpdate
  <2>2. thread' \in [Slots -> ThreadType]
    BY <1>31, <1>t, <1>at, <1>k, GotoType DEF ForkParent, At, Labels,
       WaitReturns
  <2>3. locks' \in [Locks -> Cpus \cup {Free}]
    BY <1>31, <1>l, LocksType DEF ForkParent, WaitReturns
  <2> QED
    BY <1>31, <2>1, <2>2, <2>3 DEF ForkParent, TypeOK, ProcType, ThreadType,
       CpuType
<1>32. ASSUME NEW c \in Cpus, ForkReady(c) PROVE TypeOK'
  <2>1. proc' \in [Slots -> ProcType]
    <3>1. proc' = [proc EXCEPT ![My(c).arg] = [proc[My(c).arg] EXCEPT !.state = "RUNNABLE"]]
      BY <1>32 DEF ForkReady
    <3>2. My(c).arg \in Slots => [proc[My(c).arg] EXCEPT !.state = "RUNNABLE"] \in ProcType
      BY Zenon, <1>p, <1>st, <1>k, <1>at, ProcFields
    <3> QED
      BY <3>1, <3>2, <1>p, ProcUpdate
  <2>2. thread' \in [Slots -> ThreadType]
    BY <1>32, <1>t, <1>at, <1>k, GotoType DEF ForkReady, At, Labels,
       WaitReturns
  <2>3. locks' \in [Locks -> Cpus \cup {Free}]
    BY <1>32, <1>l, LocksType DEF ForkReady, WaitReturns
  <2> QED
    BY <1>32, <2>1, <2>2, <2>3 DEF ForkReady, TypeOK, ProcType, ThreadType,
       CpuType
<1>33. ASSUME NEW c \in Cpus, CallYield(c) PROVE TypeOK'
  <2>1. thread' \in [Slots -> ThreadType]
    BY <1>33, <1>t, <1>at, <1>k DEF CallYield, At, AtPc, Me, My, ThreadType,
       CpuType, Labels, Bit
  <2> QED
    BY <1>33, <2>1 DEF CallYield, TypeOK, ProcType, ThreadType, CpuType
<1>34. ASSUME NEW c \in Cpus, ProcessCalls(c) PROVE TypeOK'
  <2>1. CASE \E call, arg, label :
              arg \in Int /\ label \in Labels /\ Call(c, call, label, arg)
    <3>1. PICK call, arg, label :
            arg \in Int /\ label \in Labels /\ Call(c, call, label, arg)
      BY <2>1
    <3>2. thread' \in [Slots -> ThreadType]
      <4>1. cpu[c].on # NoProc
        BY <3>1 DEF Call, At
      <4>2. PICK r \in ThreadType : r = [AtPc(label) EXCEPT !.arg = arg, !.before = 1]
        <5>1. thread[Me(c)] \in ThreadType /\ 0 \in Slots /\ 0 \in 0..NPROC
              /\ 0 \in Bit /\ arg \in Int /\ label \in Labels
          BY <3>1, <4>1, <1>t, <1>at, <1>k DEF Bit
        <5> QED
          BY Zenon, <5>1, ThreadRecords
      <4> QED
        BY <3>1, <4>1, <4>2, <1>t, <1>at DEF Call
    <3>3. cpu' \in [Cpus -> CpuType]
      BY <3>1, <1>c DEF Call, CpuType, Bit
    <3> QED
      BY <3>1, <3>2, <3>3 DEF Call, TypeOK, ProcType, ThreadType, CpuType
  <2>2. CASE InitExits(c)
    <3>1. cpu' \in [Cpus -> CpuType]
      <4>1. [cpu[c] EXCEPT !.panic = "init proc exiting"] \in CpuType
        BY Zenon, <1>c, <1>k, CpuRecords DEF Panics, Bit
      <4> QED
        BY <2>2, <4>1, <1>c DEF InitExits
    <3> QED
      BY <2>2, <3>1 DEF InitExits, TypeOK, ProcType, ThreadType, CpuType
  <2>3. CASE TaskReturns(c)
    <3>1. proc' \in [Slots -> ProcType]
      <4>1. proc' = [proc EXCEPT ![Me(c)] = [proc[Me(c)] EXCEPT !.state = "ZOMBIE"]]
        BY <2>3 DEF TaskReturns
      <4>2. Me(c) \in Slots => [proc[Me(c)] EXCEPT !.state = "ZOMBIE"] \in ProcType
        BY Zenon, <1>p, <1>st, <1>k, ProcFields
      <4> QED
        BY <4>1, <4>2, <1>p, ProcUpdate
    <3>2. thread' \in [Slots -> ThreadType]
      BY <2>3, GotoType DEF TaskReturns, At, Labels
    <3> QED
      BY <2>3, <3>1, <3>2 DEF TaskReturns, TypeOK, ProcType, ThreadType, CpuType
  <2> QED
    BY <1>34, <2>1, <2>2, <2>3, <1>k, <1>at, <1>l
       DEF ProcessCalls, CallExit, CallWait, CallAwait, CallFork, CallKill,
           CallSetkilled, Labels, User, Me
<1>stutter. CASE UNCHANGED vars
  BY <1>stutter DEF vars, TypeOK
<1> QED
  BY <1>1, <1>2, <1>3, <1>4, <1>5, <1>6, <1>7, <1>8, <1>9, <1>10, <1>11,
     <1>12, <1>13, <1>14, <1>15, <1>16, <1>17, <1>18, <1>19, <1>20, <1>21,
     <1>22, <1>23, <1>24, <1>25, <1>26, <1>27, <1>28, <1>29, <1>30, <1>31,
     <1>32, <1>33, <1>34, <1>stutter DEF Next, SchedulerStep, KernelStep

\* Every field of the table, of the CPUs and of the locks keeps its type,
\* whatever the processes do and whatever fails.
THEOREM TypeCorrect == Spec => []TypeOK
BY TypeInit, TypeNext, PTL DEF Spec

-----------------------------------------------------------------------------
(***************************************************************************)
(* Most steps do not concern the scheduling: the process that makes them   *)
(* keeps its CPU and its state, other processes are at most woken, and the *)
(* lock of a process that is not RUNNING is not taken from its holder.     *)
(***************************************************************************)
Stopped == {"RUNNABLE", "SLEEPING", "ZOMBIE"}

SameCpus ==
  \A d \in Cpus : /\ cpu'[d].on   = cpu[d].on
                  /\ cpu'[d].best = cpu[d].best
                  /\ cpu'[d].pc   = cpu[d].pc
                  /\ cpu'[d].proc = cpu[d].proc
                  /\ cpu'[d].panic = "no" => cpu[d].panic = "no"

OnlyThread(p) ==
  /\ \A q \in Slots : q # p => thread'[q].pc = thread[q].pc
                               /\ thread'[q].arg = thread[q].arg
  /\ thread'[p].pc \in Forking =>
       thread[p].pc \in Forking /\ thread'[p].arg = thread[p].arg

Woken(w) ==
  /\ proc[w].state = "SLEEPING" /\ locks[w] = Free
  /\ proc'[w].state = "RUNNABLE"
  /\ \A q \in Slots : q # w => proc'[q].state = proc[q].state

OnlyWakes ==
  \/ \A q \in Slots : proc'[q].state = proc[q].state
  \/ \E w \in Slots : Woken(w)

KeepsStoppedLocks ==
  \A q \in Slots :
    proc[q].state \in Stopped /\ locks[q] # Free => locks'[q] = locks[q]

SamePids ==
  /\ next_pid' = next_pid
  /\ \A q \in Slots : proc'[q].pid = proc[q].pid

Inv == RunInv /\ PidInv /\ CurrentProcExact

\* The step keeps the invariant and is one of the life of a process.
LifeStep == [Life!Next]_(Life!vars)
Stays    == Inv' /\ LifeStep

SameOn == \A d \in Cpus : cpu'[d].on = cpu[d].on

\* What a step does to the variables of ProcLife, process by process.
LEMMA LifeSame ==
  ASSUME SameOn, \A q \in Slots : proc'[q].state = proc[q].state
  PROVE  LifeStep
<1>1. UNCHANGED Life!vars
  BY DEF Life!vars, SameOn
<1> QED
  BY <1>1 DEF LifeStep

LEMMA LifeRunning ==
  ASSUME SameOn
  PROVE  UNCHANGED [c \in Cpus |-> cpu[c].on]
BY DEF SameOn


LEMMA QuietStep ==
  ASSUME TypeOK, TypeOK', Inv, NEW c \in Cpus, NEW p \in Slots,
         cpu[c].on = p, thread[p].pc \notin Switching,
         thread'[p].pc \notin Switching,
         SameCpus, OnlyThread(p), OnlyWakes, KeepsStoppedLocks, SamePids
  PROVE  Stays
<1>1. /\ Booting /\ ParkedOffCpu /\ Scanning /\ Switched /\ OnCpu /\ Forks
      /\ OneCpuPerProcess /\ PidInv /\ CurrentProcExact
  BY DEF Inv, RunInv
<1>2. \A d \in Cpus : d # Free
  BY CpusAssumption
<1>3. \A d \in Cpus : cpu[d].on \in Proc_t /\ cpu[d].best \in Proc_t
                      /\ (cpu[d].on # NoProc => cpu[d].on \in Slots)
                      /\ (cpu[d].best # NoProc => cpu[d].best \in Slots)
  BY Constants DEF TypeOK
<1>4. p # NoProc
  BY Constants
<1>5. proc[p].state = "RUNNING"
  BY <1>1, <1>4 DEF OnCpu, OnCpuOf
<1>wake. \A q \in Slots :
           \/ proc'[q].state = proc[q].state
           \/ /\ proc[q].state = "SLEEPING" /\ proc'[q].state = "RUNNABLE"
              /\ locks[q] = Free
  BY DEF OnlyWakes, Woken
<1>6. Booting'
  BY <1>1 DEF Booting, SameCpus
<1>7. ParkedOffCpu'
  BY <1>1 DEF ParkedOffCpu, SameCpus, OnlyThread
<1>8. Scanning'
  BY <1>1, <1>2, <1>3, <1>wake DEF Scanning, SameCpus, KeepsStoppedLocks, Stopped
<1>9. Switched'
  BY <1>1, <1>2, <1>3, <1>wake DEF Switched, SameCpus, KeepsStoppedLocks, Stopped
<1>10. OnCpu'
  <2> SUFFICES ASSUME NEW d \in Cpus, cpu'[d].on # NoProc
               PROVE  OnCpuOf(d, cpu[d].on)'
    BY DEF OnCpu, SameCpus
  <2>1. cpu[d].on \in Slots /\ cpu'[d].on = cpu[d].on /\ cpu'[d].best = cpu[d].best
    BY <1>3 DEF SameCpus
  <2>2. OnCpuOf(d, cpu[d].on)
    BY <1>1, <2>1 DEF OnCpu, SameCpus
  <2>3. CASE cpu[d].on = p
    BY <2>1, <2>2, <2>3, <1>5, <1>wake DEF OnCpuOf, Switching
  <2>4. CASE cpu[d].on # p
    BY <2>1, <2>2, <2>4, <1>2, <1>wake
       DEF OnCpuOf, OnlyThread, KeepsStoppedLocks, Stopped, Switching
  <2> QED
    BY <2>3, <2>4
<1>11. Forks'
  BY <1>1, <1>wake DEF Forks, OnlyThread
<1>12. OneCpuPerProcess'
  BY <1>1 DEF OneCpuPerProcess, SameCpus
<1>13. PidInv'
  BY <1>1, <1>wake DEF PidInv, PidsDistinct, SamePids
<1>14. CurrentProcExact'
  BY <1>1 DEF CurrentProcExact, SameCpus, AtScheduler
<1>life. LifeStep
  <2>1. SameOn
    BY DEF SameOn, SameCpus
  <2>2. ASSUME NEW w \in Slots, Woken(w) PROVE LifeStep
    <3>1. Life!OffCpu(w)
      <4> SUFFICES ASSUME NEW d \in Cpus, cpu[d].on = w PROVE FALSE
        BY DEF Life!OffCpu
      <4>1. OnCpuOf(d, w)
        BY <1>1, Constants DEF OnCpu
      <4> QED
        BY <4>1, <2>2, <1>2 DEF OnCpuOf, Woken, Switching
    <3>2. Life!Moves(w, "SLEEPING", "RUNNABLE")
      BY <2>2 DEF Woken, Life!Moves
    <3>3. Life!Wake(w)
      BY <3>1, <3>2, <2>1, LifeRunning DEF Life!Wake
    <3> QED
      BY <3>3 DEF LifeStep, Life!Next
  <2> QED
    BY <2>1, <2>2, LifeSame DEF OnlyWakes
<1> QED
  BY <1>6, <1>7, <1>8, <1>9, <1>10, <1>11, <1>12, <1>13, <1>14, <1>life DEF Inv, RunInv, Stays

\* Taking and releasing locks does not move a CPU.
LEMMA CpuKept ==
  ASSUME TypeOK, NEW c \in Cpus,
         \/ UNCHANGED cpu
         \/ cpu' = [cpu EXCEPT ![c] = Push(@)]
         \/ cpu' = [cpu EXCEPT ![c] = Pop(@)]
         \/ cpu' = [cpu EXCEPT ![c] = Pop(Push(@))]
         \/ cpu' = [cpu EXCEPT ![c].sie = 0]
         \/ cpu' = [cpu EXCEPT ![c].sie = 1]
         \/ cpu' = [cpu EXCEPT ![c].panic = "init proc exiting"]
         \/ cpu' = [cpu EXCEPT ![c] = [Push(@) EXCEPT !.panic = "acquire"]]
  PROVE  SameCpus
<1>1. cpu \in [Cpus -> CpuType]
  BY DEF TypeOK, CpuType
<1>2. ASSUME NEW k \in CpuType
      PROVE  /\ Push(k).on = k.on /\ Push(k).best = k.best /\ Push(k).pc = k.pc
             /\ Push(k).proc = k.proc /\ Push(k).panic = k.panic
             /\ Pop(k).on = k.on /\ Pop(k).best = k.best /\ Pop(k).pc = k.pc
             /\ Pop(k).proc = k.proc /\ Pop(k).panic = k.panic
  BY DEF CpuType, Push, Pop
<1>3. /\ cpu[c] \in CpuType /\ Push(cpu[c]) \in CpuType
  BY <1>1, PushPopType
<1>4. CASE cpu' = [cpu EXCEPT ![c] = [Push(@) EXCEPT !.panic = "acquire"]]
  BY <1>1, <1>2, <1>3, <1>4 DEF SameCpus, CpuType
<1>5. CASE UNCHANGED cpu
  BY <1>5 DEF SameCpus
<1>6. ASSUME NEW k \in CpuType, cpu' = [cpu EXCEPT ![c] = k],
             k.on = cpu[c].on, k.best = cpu[c].best, k.pc = cpu[c].pc,
             k.proc = cpu[c].proc, k.panic = cpu[c].panic
      PROVE  SameCpus
  BY <1>1, <1>6 DEF SameCpus
<1>7. CASE \/ cpu' = [cpu EXCEPT ![c] = Push(@)]
           \/ cpu' = [cpu EXCEPT ![c] = Pop(@)]
           \/ cpu' = [cpu EXCEPT ![c] = Pop(Push(@))]
  BY <1>2, <1>3, <1>6, <1>7, PushPopType
<1>8. CASE cpu' = [cpu EXCEPT ![c].sie = 0]
  BY <1>1, <1>8 DEF SameCpus, CpuType
<1>9. CASE cpu' = [cpu EXCEPT ![c].sie = 1]
  BY <1>1, <1>9 DEF SameCpus, CpuType
<1>10. CASE cpu' = [cpu EXCEPT ![c].panic = "init proc exiting"]
  <2>1. cpu[c] \in CpuType
    BY <1>1
  <2>2. /\ cpu'[c].on = cpu[c].on /\ cpu'[c].best = cpu[c].best
        /\ cpu'[c].pc = cpu[c].pc /\ cpu'[c].proc = cpu[c].proc
        /\ cpu'[c].panic = "init proc exiting"
    BY <1>1, <1>10, <2>1 DEF CpuType
  <2>3. \A d \in Cpus : d # c => cpu'[d] = cpu[d]
    BY <1>1, <1>10
  <2>4. "init proc exiting" # "no"
    OBVIOUS
  <2> QED
    BY <2>2, <2>3, <2>4 DEF SameCpus
<1> QED
  BY <1>4, <1>5, <1>7, <1>8, <1>9, <1>10

\* One process at most is changed, and woken if its state changes.
OneProc ==
  \/ UNCHANGED proc
  \/ \E q \in Slots : \E r :
       /\ proc' = [proc EXCEPT ![q] = r]
       /\ r.pid = proc[q].pid
       /\ \/ r.state = proc[q].state
          \/ /\ proc[q].state = "SLEEPING" /\ r.state = "RUNNABLE"
             /\ locks[q] = Free

\* The steps of a process that do not concern the scheduling.
LEMMA QuietSteps ==
  ASSUME TypeOK, TypeOK', Inv, NEW c \in Cpus,
         \/ AcquirePanic(c) /\ cpu[c].on # NoProc
         \/ Start(c) \/ Return(c) \/ CallYield(c) \/ Yielded(c)
         \/ Exit(c) \/ Reparent(c) \/ Wakeup(c)
         \/ WaitEnter(c) \/ WaitFails(c)
         \/ AwaitEnter(c) \/ Awaited(c) \/ AwaitMore(c) \/ AwaitKilled(c)
         \/ Slept(c) \/ Rewait(c) \/ Kill(c) \/ Setkilled(c) \/ ForkParent(c)
         \/ InitExits(c)
         \/ \E call, label, arg :
              label \notin Switching \cup Forking /\ Call(c, call, label, arg)
  PROVE  Stays
<1> DEFINE p == cpu[c].on
<1>1. cpu[c].on # NoProc
  BY Zenon DEF Start, Return, CallYield, Yielded, Exit, Reparent, Wakeup, WakeSlot,
         WaitEnter, WaitFails, AwaitEnter, Awaited, AwaitMore, AwaitKilled,
         Slept, Rewait, Kill, Setkilled, ForkParent, InitExits, Call, At
<1>2. /\ p \in Slots /\ proc \in [Slots -> ProcType]
      /\ thread \in [Slots -> ThreadType]
      /\ locks \in [Locks -> Cpus \cup {Free}]
      /\ OnCpuOf(c, p)
      /\ WaitLock \notin Slots
  <2>1. p \in Slots
    BY <1>1, OnCpuType
  <2>2. WaitLock \notin Slots
    BY NprocAssumption DEF WaitLock, Slots
  <2>3. OnCpuOf(c, p)
    BY <1>1 DEF Inv, RunInv, OnCpu
  <2> QED
    BY <2>1, <2>2, <2>3 DEF TypeOK, ProcType, ThreadType
<1>go. ASSUME thread[p].pc \notin Switching, thread'[p].pc \notin Switching,
              SameCpus, OnlyThread(p), OnlyWakes, KeepsStoppedLocks, SamePids
       PROVE  Stays
  BY <1>1, <1>2, <1>go, QuietStep
<1>run. thread[p].pc \notin Switching => proc[p].state = "RUNNING"
  BY <1>2 DEF OnCpuOf
<1>one. ASSUME OneProc, next_pid' = next_pid PROVE OnlyWakes /\ SamePids
  <2>1. CASE UNCHANGED proc
    BY <2>1, <1>one DEF OnlyWakes, SamePids
  <2>2. ASSUME NEW q \in Slots, NEW r, proc' = [proc EXCEPT ![q] = r],
               r.pid = proc[q].pid,
               \/ r.state = proc[q].state
               \/ /\ proc[q].state = "SLEEPING" /\ r.state = "RUNNABLE"
                  /\ locks[q] = Free
        PROVE  OnlyWakes /\ SamePids
    <3>1. /\ proc'[q] = r
          /\ \A o \in Slots : o # q => proc'[o] = proc[o]
      BY <2>2, <1>2
    <3>2. SamePids
      BY <3>1, <2>2, <1>one DEF SamePids
    <3>3. OnlyWakes
      BY <3>1, <2>2 DEF OnlyWakes, Woken
    <3> QED
      BY <3>2, <3>3
  <2> QED
    BY <2>1, <2>2, <1>one DEF OneProc
<1>3. CASE Start(c)
  <2>1. thread[p].pc \notin Switching
    BY <1>3 DEF Start, At, Switching
  <2>2. SameCpus
    BY <1>3, CpuKept DEF Start
  <2>3. OnlyThread(p) /\ thread'[p].pc \notin Switching
    BY <1>3, <1>2 DEF Start, At, Goto, Finish, AtPc, Me, My, ThreadType,
       Switching, Forking, OnlyThread
  <2>4. OnlyWakes /\ SamePids
    BY <1>3, <1>2, <2>1 DEF Start, Visit, At, Me, My, ProcType, OnlyWakes,
       SamePids
  <2>5. KeepsStoppedLocks
    BY <1>3, <1>2, <2>1, <1>run DEF Start, Acquire, Release, Visit, Me, Locks,
       KeepsStoppedLocks, Stopped
  <2> QED
    BY <2>1, <2>2, <2>3, <2>4, <2>5, <1>go
<1>4. CASE Return(c)
  <2>1. thread[p].pc \notin Switching
    BY <1>4 DEF Return, At, Switching
  <2>2. SameCpus
    BY <1>4, CpuKept DEF Return
  <2>3. OnlyThread(p) /\ thread'[p].pc \notin Switching
    BY <1>4, <1>2 DEF Return, At, Goto, Finish, AtPc, Me, My, ThreadType,
       Switching, Forking, OnlyThread
  <2>4. OnlyWakes /\ SamePids
    BY <1>4, <1>2, <2>1 DEF Return, Visit, At, Me, My, ProcType, OnlyWakes,
       SamePids
  <2>5. KeepsStoppedLocks
    BY <1>4, <1>2, <2>1, <1>run DEF Return, Acquire, Release, Visit, Me,
       Locks, KeepsStoppedLocks, Stopped
  <2> QED
    BY <2>1, <2>2, <2>3, <2>4, <2>5, <1>go
<1>5. CASE CallYield(c)
  <2>1. thread[p].pc \notin Switching
    BY <1>5 DEF CallYield, At, Switching
  <2>2. SameCpus
    BY <1>5, CpuKept DEF CallYield
  <2>3. OnlyThread(p) /\ thread'[p].pc \notin Switching
    BY <1>5, <1>2 DEF CallYield, At, Goto, Finish, AtPc, Me, My, ThreadType,
       Switching, Forking, OnlyThread
  <2>4. OnlyWakes /\ SamePids
    BY <1>5, <1>2, <2>1 DEF CallYield, Visit, At, Me, My, ProcType, OnlyWakes,
       SamePids
  <2>5. KeepsStoppedLocks
    BY <1>5, <1>2, <2>1, <1>run DEF CallYield, Acquire, Release, Visit, Me,
       Locks, KeepsStoppedLocks, Stopped
  <2> QED
    BY <2>1, <2>2, <2>3, <2>4, <2>5, <1>go
<1>6. CASE Yielded(c)
  <2>1. thread[p].pc \notin Switching
    BY <1>6 DEF Yielded, At, Switching
  <2>2. SameCpus
    BY <1>6, CpuKept DEF Yielded
  <2>3. OnlyThread(p) /\ thread'[p].pc \notin Switching
    BY <1>6, <1>2 DEF Yielded, At, Goto, Finish, AtPc, Me, My, ThreadType,
       Switching, Forking, OnlyThread
  <2>4. OnlyWakes /\ SamePids
    BY <1>6, <1>2, <2>1 DEF Yielded, Visit, At, Me, My, ProcType, OnlyWakes,
       SamePids
  <2>5. KeepsStoppedLocks
    BY <1>6, <1>2, <2>1, <1>run DEF Yielded, Acquire, Release, Visit, Me,
       Locks, KeepsStoppedLocks, Stopped
  <2> QED
    BY <2>1, <2>2, <2>3, <2>4, <2>5, <1>go
<1>7. CASE Exit(c)
  <2>1. thread[p].pc \notin Switching
    BY <1>7 DEF Exit, At, Switching
  <2>2. SameCpus
    BY <1>7, CpuKept DEF Exit
  <2>3. OnlyThread(p) /\ thread'[p].pc \notin Switching
    BY <1>7, <1>2 DEF Exit, At, Goto, Finish, AtPc, Me, My, ThreadType,
       Switching, Forking, OnlyThread
  <2>4. OnlyWakes /\ SamePids
    BY <1>7, <1>2, <2>1 DEF Exit, Visit, At, Me, My, ProcType, OnlyWakes,
       SamePids
  <2>5. KeepsStoppedLocks
    BY <1>7, <1>2, <2>1, <1>run DEF Exit, Acquire, Release, Visit, Me, Locks,
       KeepsStoppedLocks, Stopped
  <2> QED
    BY <2>1, <2>2, <2>3, <2>4, <2>5, <1>go
<1>8. CASE Reparent(c)
  <2>1. thread[p].pc \notin Switching \cup Forking /\ My(c) = thread[p]
    BY Zenon, <1>8 DEF Reparent, At, My, Me, Switching, Forking
  <2>2. SameCpus
    BY Zenon, <1>8, CpuKept DEF Reparent
  <2>3. \E r : thread' = [thread EXCEPT ![p] = r]
               /\ (r.pc = thread[p].pc \/ r.pc \in {"reparent_wake", "exit_wake"})
    <3>1. \A kid \in Slots :
            [thread[p] EXCEPT !.pc = "reparent_wake", !.i = kid + 1, !.j = 0,
                              !.arg = init_proc].pc = "reparent_wake"
      BY <1>2 DEF ThreadType
    <3>2. [thread[p] EXCEPT !.pc = "exit_wake", !.i = 0, !.j = 0,
                            !.arg = proc[p].parent].pc = "exit_wake"
      BY <1>2 DEF ThreadType
    <3> QED
      BY Zenon, <1>8, <3>1, <3>2 DEF Reparent, Me
  <2>4. OnlyThread(p) /\ thread'[p].pc \notin Switching
    BY <2>1, <2>3, <1>2 DEF OnlyThread, Switching, Forking
  <2>5. OneProc
    <3>1. My(c).j \in Slots
      BY <2>1, <1>2 DEF ThreadType
    <3>2. \A kid \in Slots :
            /\ [proc[kid] EXCEPT !.parent = init_proc].pid = proc[kid].pid
            /\ [proc[kid] EXCEPT !.parent = init_proc].state = proc[kid].state
      BY <1>2 DEF ProcType
    <3>3. CASE UNCHANGED proc
      BY <3>3 DEF OneProc
    <3>4. ASSUME NEW kid \in Slots,
                 proc' = [proc EXCEPT ![kid].parent = init_proc]
          PROVE  OneProc
      BY <3>2, <3>4 DEF OneProc
    <3> QED
      BY Zenon, <1>8, <3>3, <3>4 DEF Reparent
  <2>6. OnlyWakes /\ SamePids
    BY Zenon, <1>8, <2>5, <1>one DEF Reparent
  <2>7. KeepsStoppedLocks
    BY Zenon, <1>8 DEF Reparent, Visit, KeepsStoppedLocks
  <2> QED
    BY <2>1, <2>2, <2>4, <2>6, <2>7, <1>go
<1>9. CASE Wakeup(c)
  <2>1. thread[p].pc \notin Switching \cup Forking /\ My(c) = thread[p]
    BY Zenon, <1>9 DEF Wakeup, WakeSlot, At, My, Me, Switching, Forking
  <2>2. SameCpus
    BY <1>9, CpuKept DEF Wakeup, WakeSlot
  <2>3. /\ \A q \in Slots : q # p => thread'[q] = thread[q]
        /\ thread'[p].pc \in {thread[p].pc, "reparent", "exit_lock"}
    <3>1. PICK label, next : /\ next \in {"reparent", "exit_lock"}
                             /\ WakeSlot(c, label, next)
      BY <1>9 DEF Wakeup
    <3>2. thread' = [thread EXCEPT ![p] =
             IF My(c).j + 1 < NPROC THEN [thread[p] EXCEPT !.j = My(c).j + 1]
             ELSE [thread[p] EXCEPT !.pc = next, !.j = 0, !.arg = NoProc]]
      BY <3>1, <2>1 DEF WakeSlot, Me
    <3> QED
      BY <3>1, <3>2, <1>2 DEF ThreadType
  <2>4. OnlyThread(p) /\ thread'[p].pc \notin Switching
    BY <2>1, <2>3, <1>2 DEF OnlyThread, Switching, Forking
  <2>5. OneProc
    <3>1. My(c).j \in Slots
      BY <2>1, <1>2 DEF ThreadType
    <3> QED
      BY <1>9, <3>1, <1>2 DEF Wakeup, WakeSlot, Visit, ProcType, OneProc
  <2>6. OnlyWakes /\ SamePids
    BY <1>9, <2>5, <1>one DEF Wakeup, WakeSlot
  <2>7. KeepsStoppedLocks
    BY <1>9 DEF Wakeup, WakeSlot, Visit, KeepsStoppedLocks
  <2> QED
    BY <2>1, <2>2, <2>4, <2>6, <2>7, <1>go
<1>10. CASE Kill(c)
  <2>1. thread[p].pc \notin Switching \cup Forking /\ My(c) = thread[p]
    BY <1>10 DEF Kill, At, My, Me, Switching, Forking
  <2>2. SameCpus
    BY <1>10, CpuKept DEF Kill
  <2>3. \E r : thread' = [thread EXCEPT ![p] = r]
               /\ (r.pc = thread[p].pc \/ r.pc \in {"return"})
    BY <1>10, <1>2, <2>1 DEF Kill, Finish, AtPc, Me, ThreadType
  <2>4. OnlyThread(p) /\ thread'[p].pc \notin Switching
    BY <2>1, <2>3, <1>2 DEF OnlyThread, Switching, Forking
  <2>5. OneProc
    <3>1. My(c).j \in Slots
      BY <2>1, <1>2 DEF ThreadType
    <3>2. LET q == My(c).j IN
          /\ Killed(proc[q]).pid = proc[q].pid
          /\ \/ Killed(proc[q]).state = proc[q].state
             \/ proc[q].state = "SLEEPING" /\ Killed(proc[q]).state = "RUNNABLE"
      BY <3>1, <1>2 DEF ProcType, Killed
    <3> QED
      BY <1>10, <3>1, <3>2 DEF Kill, Visit, OneProc
  <2>6. OnlyWakes /\ SamePids
    BY <1>10, <2>5, <1>one DEF Kill
  <2>7. KeepsStoppedLocks
    BY <1>10 DEF Kill, Visit, KeepsStoppedLocks
  <2> QED
    BY <2>1, <2>2, <2>4, <2>6, <2>7, <1>go
<1>11. CASE WaitEnter(c)
  <2>1. thread[p].pc \notin Switching
    BY <1>11 DEF WaitEnter, At, Switching
  <2>2. SameCpus
    BY <1>11, CpuKept DEF WaitEnter
  <2>3. OnlyThread(p) /\ thread'[p].pc \notin Switching
    BY <1>11, <1>2 DEF WaitEnter, At, Goto, Finish, AtPc, Me, My, ThreadType,
       Switching, Forking, OnlyThread
  <2>4. OnlyWakes /\ SamePids
    BY <1>11, <1>2, <2>1 DEF WaitEnter, Visit, At, Me, My, ProcType,
       OnlyWakes, SamePids
  <2>5. KeepsStoppedLocks
    BY <1>11, <1>2, <2>1, <1>run DEF WaitEnter, Acquire, Release, Visit, Me,
       Locks, KeepsStoppedLocks, Stopped
  <2> QED
    BY <2>1, <2>2, <2>3, <2>4, <2>5, <1>go
<1>12. CASE WaitFails(c)
  <2>1. thread[p].pc \notin Switching
    BY <1>12 DEF WaitFails, WaitReturns, At, Switching
  <2>2. SameCpus
    BY <1>12, CpuKept DEF WaitFails, WaitReturns
  <2>3. OnlyThread(p) /\ thread'[p].pc \notin Switching
    BY <1>12, <1>2 DEF WaitFails, WaitReturns, At, Goto, Finish, AtPc, Me, My,
       ThreadType, Switching, Forking, OnlyThread
  <2>4. OnlyWakes /\ SamePids
    BY <1>12, <1>2, <2>1 DEF WaitFails, WaitReturns, Visit, At, Me, My,
       ProcType, OnlyWakes, SamePids
  <2>5. KeepsStoppedLocks
    BY <1>12, <1>2, <2>1, <1>run DEF WaitFails, WaitReturns, Acquire, Release,
       Visit, Me, Locks, KeepsStoppedLocks, Stopped
  <2> QED
    BY <2>1, <2>2, <2>3, <2>4, <2>5, <1>go
<1>13. CASE AwaitEnter(c)
  <2>1. thread[p].pc \notin Switching
    BY <1>13 DEF AwaitEnter, At, Switching
  <2>2. SameCpus
    BY <1>13, CpuKept DEF AwaitEnter
  <2>3. OnlyThread(p) /\ thread'[p].pc \notin Switching
    BY <1>13, <1>2 DEF AwaitEnter, At, Goto, Finish, AtPc, Me, My, ThreadType,
       Switching, Forking, OnlyThread
  <2>4. OnlyWakes /\ SamePids
    BY <1>13, <1>2, <2>1 DEF AwaitEnter, Visit, At, Me, My, ProcType,
       OnlyWakes, SamePids
  <2>5. KeepsStoppedLocks
    BY <1>13, <1>2, <2>1, <1>run DEF AwaitEnter, Acquire, Release, Visit, Me,
       Locks, KeepsStoppedLocks, Stopped
  <2> QED
    BY <2>1, <2>2, <2>3, <2>4, <2>5, <1>go
<1>14. CASE Awaited(c)
  <2>1. thread[p].pc \notin Switching
    BY <1>14 DEF Awaited, WaitReturns, At, Switching
  <2>2. SameCpus
    BY <1>14, CpuKept DEF Awaited, WaitReturns
  <2>3. OnlyThread(p) /\ thread'[p].pc \notin Switching
    BY <1>14, <1>2 DEF Awaited, WaitReturns, At, Goto, Finish, AtPc, Me, My,
       ThreadType, Switching, Forking, OnlyThread
  <2>4. OnlyWakes /\ SamePids
    BY <1>14, <1>2, <2>1 DEF Awaited, WaitReturns, Visit, At, Me, My,
       ProcType, OnlyWakes, SamePids
  <2>5. KeepsStoppedLocks
    BY <1>14, <1>2, <2>1, <1>run DEF Awaited, WaitReturns, Acquire, Release,
       Visit, Me, Locks, KeepsStoppedLocks, Stopped
  <2> QED
    BY <2>1, <2>2, <2>3, <2>4, <2>5, <1>go
<1>15. CASE AwaitMore(c)
  <2>1. thread[p].pc \notin Switching
    BY <1>15 DEF AwaitMore, At, Switching
  <2>2. SameCpus
    BY <1>15, CpuKept DEF AwaitMore
  <2>3. OnlyThread(p) /\ thread'[p].pc \notin Switching
    BY <1>15, <1>2 DEF AwaitMore, At, Goto, Finish, AtPc, Me, My, ThreadType,
       Switching, Forking, OnlyThread
  <2>4. OnlyWakes /\ SamePids
    BY <1>15, <1>2, <2>1 DEF AwaitMore, Visit, At, Me, My, ProcType,
       OnlyWakes, SamePids
  <2>5. KeepsStoppedLocks
    BY <1>15, <1>2, <2>1, <1>run DEF AwaitMore, Acquire, Release, Visit, Me,
       Locks, KeepsStoppedLocks, Stopped
  <2> QED
    BY <2>1, <2>2, <2>3, <2>4, <2>5, <1>go
<1>16. CASE AwaitKilled(c)
  <2>1. thread[p].pc \notin Switching
    BY <1>16 DEF AwaitKilled, WaitReturns, At, Switching
  <2>2. SameCpus
    BY <1>16, CpuKept DEF AwaitKilled, WaitReturns
  <2>3. OnlyThread(p) /\ thread'[p].pc \notin Switching
    BY <1>16, <1>2 DEF AwaitKilled, WaitReturns, At, Goto, Finish, AtPc, Me,
       My, ThreadType, Switching, Forking, OnlyThread
  <2>4. OnlyWakes /\ SamePids
    BY <1>16, <1>2, <2>1 DEF AwaitKilled, WaitReturns, Visit, At, Me, My,
       ProcType, OnlyWakes, SamePids
  <2>5. KeepsStoppedLocks
    BY <1>16, <1>2, <2>1, <1>run DEF AwaitKilled, WaitReturns, Acquire,
       Release, Visit, Me, Locks, KeepsStoppedLocks, Stopped
  <2> QED
    BY <2>1, <2>2, <2>3, <2>4, <2>5, <1>go
<1>17. CASE Slept(c)
  <2>1. thread[p].pc \notin Switching
    BY <1>17 DEF Slept, At, Switching
  <2>2. SameCpus
    BY <1>17, CpuKept DEF Slept
  <2>3. OnlyThread(p) /\ thread'[p].pc \notin Switching
    BY <1>17, <1>2 DEF Slept, At, Goto, Finish, AtPc, Me, My, ThreadType,
       Switching, Forking, OnlyThread
  <2>4. OnlyWakes /\ SamePids
    BY <1>17, <1>2, <2>1 DEF Slept, Visit, At, Me, My, ProcType, OnlyWakes,
       SamePids
  <2>5. KeepsStoppedLocks
    BY <1>17, <1>2, <2>1, <1>run DEF Slept, Acquire, Release, Visit, Me,
       Locks, KeepsStoppedLocks, Stopped
  <2> QED
    BY <2>1, <2>2, <2>3, <2>4, <2>5, <1>go
<1>18. CASE Rewait(c)
  <2>1. thread[p].pc \notin Switching
    BY <1>18 DEF Rewait, At, Switching
  <2>2. SameCpus
    BY <1>18, CpuKept DEF Rewait
  <2>3. OnlyThread(p) /\ thread'[p].pc \notin Switching
    BY <1>18, <1>2 DEF Rewait, At, Goto, Finish, AtPc, Me, My, ThreadType,
       Switching, Forking, OnlyThread
  <2>4. OnlyWakes /\ SamePids
    BY <1>18, <1>2, <2>1 DEF Rewait, Visit, At, Me, My, ProcType, OnlyWakes,
       SamePids
  <2>5. KeepsStoppedLocks
    BY <1>18, <1>2, <2>1, <1>run DEF Rewait, Acquire, Release, Visit, Me,
       Locks, KeepsStoppedLocks, Stopped
  <2> QED
    BY <2>1, <2>2, <2>3, <2>4, <2>5, <1>go
<1>19. CASE Setkilled(c)
  <2>1. thread[p].pc \notin Switching
    BY <1>19 DEF Setkilled, At, Switching
  <2>2. SameCpus
    BY <1>19, CpuKept DEF Setkilled
  <2>3. OnlyThread(p) /\ thread'[p].pc \notin Switching
    BY <1>19, <1>2 DEF Setkilled, At, Goto, Finish, AtPc, Me, My, ThreadType,
       Switching, Forking, OnlyThread
  <2>4. OnlyWakes /\ SamePids
    <3>1. /\ next_pid' = next_pid
          /\ proc' = [proc EXCEPT ![My(c).arg] = [proc[My(c).arg] EXCEPT !.killed = TRUE]]
      BY <1>19 DEF Setkilled
    <3>2. ASSUME NEW q \in Slots
          PROVE  proc'[q].state = proc[q].state /\ proc'[q].pid = proc[q].pid
      <4>1. /\ [proc[q] EXCEPT !.killed = TRUE].state = proc[q].state
            /\ [proc[q] EXCEPT !.killed = TRUE].pid = proc[q].pid
        BY <1>2 DEF ProcType
      <4> QED
        BY <3>1, <4>1, <1>2
    <3> QED
      BY <3>1, <3>2 DEF OnlyWakes, SamePids
  <2>5. KeepsStoppedLocks
    BY <1>19, <1>2, <2>1, <1>run DEF Setkilled, Acquire, Release, Visit, Me,
       Locks, KeepsStoppedLocks, Stopped
  <2> QED
    BY <2>1, <2>2, <2>3, <2>4, <2>5, <1>go
<1>20. CASE ForkParent(c)
  <2>1. thread[p].pc \notin Switching
    BY <1>20 DEF ForkParent, At, Switching
  <2>2. SameCpus
    BY <1>20, CpuKept DEF ForkParent
  <2>3. OnlyThread(p) /\ thread'[p].pc \notin Switching
    BY <1>20, <1>2 DEF ForkParent, At, Goto, Finish, AtPc, Me, My, ThreadType,
       Switching, Forking, OnlyThread
  <2>4. OnlyWakes /\ SamePids
    <3>1. /\ next_pid' = next_pid
          /\ proc' = [proc EXCEPT ![My(c).arg] = [proc[My(c).arg] EXCEPT !.parent = Me(c)]]
      BY <1>20 DEF ForkParent
    <3>2. ASSUME NEW q \in Slots
          PROVE  proc'[q].state = proc[q].state /\ proc'[q].pid = proc[q].pid
      <4>1. /\ [proc[q] EXCEPT !.parent = Me(c)].state = proc[q].state
            /\ [proc[q] EXCEPT !.parent = Me(c)].pid = proc[q].pid
        BY <1>2 DEF ProcType
      <4> QED
        BY <3>1, <4>1, <1>2
    <3> QED
      BY <3>1, <3>2 DEF OnlyWakes, SamePids
  <2>5. KeepsStoppedLocks
    BY <1>20, <1>2, <2>1, <1>run DEF ForkParent, Acquire, Release, Visit, Me,
       Locks, KeepsStoppedLocks, Stopped
  <2> QED
    BY <2>1, <2>2, <2>3, <2>4, <2>5, <1>go
<1>21. CASE InitExits(c)
  <2>1. thread[p].pc \notin Switching
    BY <1>21 DEF InitExits, At, Switching
  <2>2. SameCpus
    BY <1>21, CpuKept DEF InitExits
  <2>3. OnlyThread(p) /\ thread'[p].pc \notin Switching
    BY <1>21, <1>2 DEF InitExits, At, Goto, Finish, AtPc, Me, My, ThreadType,
       Switching, Forking, OnlyThread
  <2>4. OnlyWakes /\ SamePids
    BY <1>21, <1>2, <2>1 DEF InitExits, Visit, At, Me, My, ProcType,
       OnlyWakes, SamePids
  <2>5. KeepsStoppedLocks
    BY <1>21, <1>2, <2>1, <1>run DEF InitExits, Acquire, Release, Visit, Me,
       Locks, KeepsStoppedLocks, Stopped
  <2> QED
    BY <2>1, <2>2, <2>3, <2>4, <2>5, <1>go
<1>22. CASE AcquirePanic(c) /\ cpu[c].on # NoProc
  <2>1. CASE thread[p].pc \in Switching
    BY <1>22, <2>1 DEF AcquirePanic, Wants, My, Switching, NoLock
  <2>2. CASE thread[p].pc \notin Switching
    <3>1. SameCpus
      BY <1>22, CpuKept DEF AcquirePanic
    <3>2. OnlyThread(p) /\ OnlyWakes /\ SamePids /\ KeepsStoppedLocks
          /\ thread'[p].pc \notin Switching
      BY <1>22, <2>2 DEF AcquirePanic, OnlyThread, OnlyWakes, SamePids, KeepsStoppedLocks
    <3> QED
      BY <3>1, <3>2, <2>2, <1>go
  <2> QED
    BY <2>1, <2>2
<1>23. CASE \E call, label, arg :
             label \notin Switching \cup Forking /\ Call(c, call, label, arg)
  <2>1. PICK call, label, arg :
          label \notin Switching \cup Forking /\ Call(c, call, label, arg)
    BY <1>23
  <2>2. thread[p].pc \notin Switching
    BY <2>1 DEF Call, At, Switching
  <2>3. SameCpus
    BY <2>1, CpuKept DEF Call
  <2>4. OnlyThread(p) /\ thread'[p].pc \notin Switching
    BY <2>1, <1>2 DEF Call, At, AtPc, Me, OnlyThread
  <2>5. OnlyWakes /\ SamePids /\ KeepsStoppedLocks
    BY <2>1 DEF Call, OnlyWakes, SamePids, KeepsStoppedLocks
  <2> QED
    BY <2>2, <2>3, <2>4, <2>5, <1>go
<1> QED
  BY <1>3, <1>4, <1>5, <1>6, <1>7, <1>8, <1>9, <1>10, <1>11, <1>12, <1>13,
     <1>14, <1>15, <1>16, <1>17, <1>18, <1>19, <1>20, <1>21, <1>22, <1>23

(***************************************************************************)
(* A process gives up its CPU: it stores its new state with its lock held. *)
(***************************************************************************)
LEMMA GiveUpStep ==
  ASSUME TypeOK, TypeOK', Inv, NEW c \in Cpus, NEW p \in Slots,
         cpu[c].on = p, thread[p].pc \notin Switching,
         SameCpus, SamePids, KeepsStoppedLocks, OnlyThread(p),
         \A q \in Slots : q # p => proc'[q].state = proc[q].state,
         \/ thread'[p].pc = "yield_sched" /\ proc'[p].state = "RUNNABLE"
         \/ thread'[p].pc = "sleep_sched" /\ proc'[p].state = "SLEEPING"
         \/ thread'[p].pc = "exit_sched"  /\ proc'[p].state = "ZOMBIE",
         \/ locks'[p] = c
         \/ thread'[p].pc = "exit_sched" /\ "return" \in Calls
  PROVE  Stays
<1>1. /\ Booting /\ ParkedOffCpu /\ Scanning /\ Switched /\ OnCpu /\ Forks
      /\ OneCpuPerProcess /\ PidInv /\ CurrentProcExact
  BY DEF Inv, RunInv
<1>2. \A d \in Cpus : d # Free
  BY CpusAssumption
<1>3. \A d \in Cpus : /\ cpu[d].on # NoProc => cpu[d].on \in Slots
                      /\ cpu[d].best # NoProc => cpu[d].best \in Slots
  BY Constants DEF TypeOK
<1>4. p # NoProc
  BY Constants
<1>5. proc[p].state = "RUNNING" /\ proc'[p].state \in Stopped
  BY <1>1, <1>4 DEF OnCpu, OnCpuOf, Stopped
<1>6. Booting'
  BY <1>1 DEF Booting, SameCpus
<1>7. ParkedOffCpu'
  BY <1>1 DEF ParkedOffCpu, SameCpus, OnlyThread
<1>8. Scanning'
  BY <1>1, <1>2, <1>3, <1>5 DEF Scanning, SameCpus, KeepsStoppedLocks, Stopped
<1>9. Switched'
  BY <1>1, <1>2, <1>3, <1>5 DEF Switched, SameCpus, KeepsStoppedLocks, Stopped
<1>10. OnCpu'
  <2> SUFFICES ASSUME NEW d \in Cpus, cpu'[d].on # NoProc
               PROVE  OnCpuOf(d, cpu[d].on)'
    BY DEF OnCpu, SameCpus
  <2>1. cpu[d].on \in Slots /\ cpu'[d].on = cpu[d].on /\ cpu'[d].best = cpu[d].best
    BY <1>3 DEF SameCpus
  <2>2. OnCpuOf(d, cpu[d].on)
    BY <1>1, <2>1 DEF OnCpu, SameCpus
  <2>3. CASE cpu[d].on = p
    <3>1. d = c
      BY <2>3, <1>1, <1>4 DEF OneCpuPerProcess
    <3> QED
      BY <2>1, <2>2, <2>3, <3>1 DEF OnCpuOf, Switching
  <2>4. CASE cpu[d].on # p
    BY <2>1, <2>2, <2>4, <1>2
       DEF OnCpuOf, OnlyThread, KeepsStoppedLocks, Stopped, Switching
  <2> QED
    BY <2>3, <2>4
<1>11. Forks'
  BY <1>1, <1>5 DEF Forks, OnlyThread, Forking
<1>12. OneCpuPerProcess'
  BY <1>1 DEF OneCpuPerProcess, SameCpus
<1>13. PidInv'
  BY <1>1, <1>5 DEF PidInv, PidsDistinct, SamePids, Stopped
<1>14. CurrentProcExact'
  BY <1>1 DEF CurrentProcExact, SameCpus, AtScheduler
<1>life. LifeStep
  <2>1. SameOn
    BY DEF SameOn, SameCpus
  <2>2. Life!GiveUp(c, p)
    <3>1. Life!Moves(p, "RUNNING", proc'[p].state)
      BY <1>5 DEF Life!Moves
    <3>2. UNCHANGED [d \in Cpus |-> cpu[d].on]
      BY <2>1, LifeRunning
    <3> QED
      BY <3>1, <3>2, <1>5 DEF Life!GiveUp, Life!Moves, Stopped
  <2> QED
    BY <2>2 DEF LifeStep, Life!Next
<1> QED
  BY <1>6, <1>7, <1>8, <1>9, <1>10, <1>11, <1>12, <1>13, <1>14, <1>life DEF Inv, RunInv, Stays

LEMMA GiveUpSteps ==
  ASSUME TypeOK, TypeOK', Inv, NEW c \in Cpus,
         Yield(c) \/ Sleep(c) \/ BecomeZombie(c) \/ TaskReturns(c)
  PROVE  Stays
<1> DEFINE p == cpu[c].on
<1>1. /\ cpu[c].on # NoProc
      /\ thread[p].pc \notin Switching \cup Forking
  BY DEF Yield, Sleep, BecomeZombie, TaskReturns, At, Switching, Forking
<1>2. p \in Slots
  BY <1>1, OnCpuType
<1>3. WaitLock \notin Slots
  BY NprocAssumption DEF WaitLock, Slots
<1>4. /\ proc \in [Slots -> ProcType]
      /\ thread \in [Slots -> ThreadType]
      /\ locks \in [Locks -> Cpus \cup {Free}]
      /\ p \in Locks
  BY <1>2 DEF TypeOK, ProcType, ThreadType, Locks
<1>5. SameCpus
  BY CpuKept DEF Yield, Sleep, BecomeZombie, TaskReturns
<1>6. OnlyThread(p)
  <2>1. PICK label \in Switching : Goto(c, label)
    BY DEF Yield, Sleep, BecomeZombie, TaskReturns, Switching
  <2>2. /\ thread'[p].pc \notin Forking
        /\ \A q \in Slots : q # p => thread'[q] = thread[q]
    BY <2>1, <1>2, <1>4 DEF Goto, Me, ThreadType, Switching, Forking
  <2> QED
    BY <2>2 DEF OnlyThread
<1>7. SamePids /\ \A q \in Slots : q # p => proc'[q].state = proc[q].state
  <2>1. \E r : proc' = [proc EXCEPT ![p] = r] /\ r.pid = proc[p].pid
    <3>1. proc[p] \in ProcType
      BY <1>2, <1>4
    <3>2. [proc[p] EXCEPT !.chan = p, !.state = "SLEEPING"].pid = proc[p].pid
      BY <3>1 DEF ProcType
    <3>3. [proc[p] EXCEPT !.state = "ZOMBIE", !.xstate = 1].pid = proc[p].pid
      BY <3>1 DEF ProcType
    <3>4. \A st : [proc[p] EXCEPT !.state = st].pid = proc[p].pid
      BY <3>1 DEF ProcType
    <3> QED
      BY <3>2, <3>3, <3>4 DEF Yield, Sleep, BecomeZombie, TaskReturns, Me
  <2>2. next_pid' = next_pid
    BY DEF Yield, Sleep, BecomeZombie, TaskReturns
  <2> QED
    BY <2>1, <2>2, <1>2, <1>4 DEF SamePids
<1>8. KeepsStoppedLocks
  BY <1>2, <1>3, <1>4 DEF Yield, Sleep, BecomeZombie, TaskReturns, Acquire, Me,
                          KeepsStoppedLocks, Locks
<1>9. CASE Yield(c)
  <2>1. thread'[p].pc = "yield_sched" /\ proc'[p].state = "RUNNABLE"
        /\ locks'[p] = c
    BY <1>9, <1>2, <1>4 DEF Yield, Goto, Me, Acquire, ThreadType, ProcType
  <2> QED
    BY <2>1, <1>1, <1>2, <1>5, <1>6, <1>7, <1>8, GiveUpStep
<1>10. CASE Sleep(c)
  <2>1. thread'[p].pc = "sleep_sched" /\ proc'[p].state = "SLEEPING"
        /\ locks'[p] = c
    BY <1>10, <1>2, <1>3, <1>4 DEF Sleep, Goto, Me, ThreadType, ProcType
  <2> QED
    BY <2>1, <1>1, <1>2, <1>5, <1>6, <1>7, <1>8, GiveUpStep
<1>11. CASE BecomeZombie(c)
  <2>1. thread'[p].pc = "exit_sched" /\ proc'[p].state = "ZOMBIE"
        /\ locks'[p] = c
    BY <1>11, <1>2, <1>3, <1>4 DEF BecomeZombie, Goto, Me, ThreadType, ProcType
  <2> QED
    BY <2>1, <1>1, <1>2, <1>5, <1>6, <1>7, <1>8, GiveUpStep
<1>12. CASE TaskReturns(c)
  <2>1. thread'[p].pc = "exit_sched" /\ proc'[p].state = "ZOMBIE"
        /\ "return" \in Calls
    BY <1>12, <1>2, <1>4 DEF TaskReturns, Goto, Me, ThreadType, ProcType
  <2> QED
    BY <2>1, <1>1, <1>2, <1>5, <1>6, <1>7, <1>8, GiveUpStep
<1> QED
  BY <1>9, <1>10, <1>11, <1>12

(***************************************************************************)
(* A scheduler takes and releases locks while it looks for a process.      *)
(***************************************************************************)
LEMMA ScanStep ==
  ASSUME TypeOK, TypeOK', Inv, NEW c \in Cpus, UNCHANGED <<proc, thread, next_pid>>,
         cpu[c].on = NoProc, cpu'[c].on = NoProc,
         \A d \in Cpus : d # c => cpu'[d] = cpu[d],
         cpu[c].pc \in {"scan", "switched"}, cpu'[c].pc = "scan",
         cpu'[c].proc = NoProc,
         cpu'[c].best # NoProc =>
           /\ locks'[cpu'[c].best] = c
           /\ proc[cpu'[c].best].state = "RUNNABLE",
         \A q \in Slots : locks[q] \in Cpus \ {c} => locks'[q] = locks[q]
  PROVE  Stays
<1>1. /\ Booting /\ ParkedOffCpu /\ Scanning /\ Switched /\ OnCpu /\ Forks
      /\ OneCpuPerProcess /\ PidInv /\ CurrentProcExact
  BY DEF Inv, RunInv
<1>3. \A d \in Cpus : /\ cpu[d].on # NoProc => cpu[d].on \in Slots
                      /\ cpu[d].best # NoProc => cpu[d].best \in Slots
  BY Constants DEF TypeOK
<1>6. Booting'
  BY <1>1 DEF Booting
<1>7. ParkedOffCpu'
  <2> SUFFICES ASSUME NEW q \in Slots, thread[q].pc \notin Parked
               PROVE  \E d \in Cpus : cpu'[d].on = q
    BY DEF ParkedOffCpu
  <2>1. PICK d \in Cpus : cpu[d].on = q
    BY <1>1 DEF ParkedOffCpu
  <2>2. d # c
    BY <2>1, Constants
  <2> QED
    BY <2>1, <2>2
<1>8. Scanning'
  BY <1>1, <1>3 DEF Scanning
<1>9. Switched'
  BY <1>1, <1>3 DEF Switched
<1>10. OnCpu'
  BY <1>1, <1>3 DEF OnCpu, OnCpuOf
<1>11. Forks'
  BY <1>1 DEF Forks
<1>12. OneCpuPerProcess'
  BY <1>1 DEF OneCpuPerProcess
<1>13. PidInv'
  BY <1>1 DEF PidInv, PidsDistinct
<1>14. CurrentProcExact'
  BY <1>1 DEF CurrentProcExact, AtScheduler
<1>life. LifeStep
  BY LifeSame DEF SameOn
<1> QED
  BY <1>6, <1>7, <1>8, <1>9, <1>10, <1>11, <1>12, <1>13, <1>14, <1>life DEF Inv, RunInv, Stays

LEMMA ScanSteps ==
  ASSUME TypeOK, TypeOK', Inv, NEW c \in Cpus,
         ScanSlot(c) \/ Idle(c) \/ SchedulerResumes(c)
  PROVE  Stays
<1>1. cpu \in [Cpus -> CpuType] /\ cpu[c] \in CpuType
      /\ locks \in [Locks -> Cpus \cup {Free}]
      /\ Slots \subseteq Locks
  BY DEF TypeOK, CpuType, Locks
<1>2. Scanning /\ Switched /\ CurrentProcExact
  BY DEF Inv, RunInv
<1>3. /\ UNCHANGED <<proc, thread, next_pid>>
      /\ cpu[c].on = NoProc
      /\ cpu[c].pc \in {"scan", "switched"}
  BY DEF ScanSlot, Idle, SchedulerResumes, AtScheduler
<1>4. \A d \in Cpus : d # c => cpu'[d] = cpu[d]
  BY <1>1 DEF ScanSlot, Idle, SchedulerResumes
<1>5. ASSUME NEW k \in CpuType
      PROVE  /\ Push(k).on = k.on /\ Push(k).pc = k.pc /\ Push(k).proc = k.proc
             /\ Pop(k).on = k.on /\ Pop(k).pc = k.pc /\ Pop(k).proc = k.proc
  BY DEF CpuType, Push, Pop
<1>6. CASE ScanSlot(c)
  <2> DEFINE p    == cpu[c].scan
             take == /\ proc[p].state = "RUNNABLE"
                     /\ \/ cpu[c].best = NoProc
                        \/ proc[p].priority < proc[cpu[c].best].priority
  <2>1. /\ p \in Slots /\ p # NoProc
        /\ cpu[c].best # NoProc => cpu[c].best \in Slots
    BY <1>1, <1>6, NprocAssumption, Constants DEF ScanSlot, CpuType, Slots
  <2>2. locks' = IF take
                 THEN [l \in Locks |-> IF l = p THEN c
                                       ELSE IF l = cpu[c].best THEN Free ELSE locks[l]]
                 ELSE locks
    BY <1>6 DEF ScanSlot
  <2>3. \E k \in CpuType :
          /\ k.on = cpu[c].on /\ k.pc = cpu[c].pc /\ k.proc = cpu[c].proc
          /\ cpu'[c] = [k EXCEPT !.scan = p + 1,
                                 !.best = IF take THEN p ELSE cpu[c].best]
    <3>1. Push(cpu[c]) \in CpuType /\ Pop(Push(cpu[c])) \in CpuType
      BY <1>1, PushPopType
    <3>2. cpu'[c] = [(IF take /\ cpu[c].best = NoProc THEN Push(cpu[c])
                      ELSE Pop(Push(cpu[c])))
                       EXCEPT !.scan = p + 1,
                              !.best = IF take THEN p ELSE cpu[c].best]
      BY <1>6, <1>1 DEF ScanSlot
    <3> QED
      BY <3>1, <3>2, <1>1, <1>5
  <2>4. /\ cpu'[c].on = NoProc /\ cpu'[c].pc = "scan"
        /\ cpu'[c].proc = NoProc
        /\ cpu'[c].best = IF take THEN p ELSE cpu[c].best
    <3>1. /\ cpu'[c].on = cpu[c].on /\ cpu'[c].pc = cpu[c].pc
          /\ cpu'[c].proc = cpu[c].proc
          /\ cpu'[c].best = IF take THEN p ELSE cpu[c].best
      BY <2>3 DEF CpuType
    <3> QED
      BY <3>1, <1>2, <1>3, <1>6 DEF ScanSlot, AtScheduler, CurrentProcExact
  <2>5. cpu[c].best # NoProc =>
          locks[cpu[c].best] = c /\ proc[cpu[c].best].state = "RUNNABLE"
    BY <1>2, <1>6 DEF ScanSlot, AtScheduler, Scanning
  <2>6. cpu'[c].best # NoProc =>
          locks'[cpu'[c].best] = c /\ proc[cpu'[c].best].state = "RUNNABLE"
    BY <2>1, <2>2, <2>4, <2>5, <1>1
  <2>7. \A q \in Slots : locks[q] \in Cpus \ {c} => locks'[q] = locks[q]
    <3> SUFFICES ASSUME NEW q \in Slots, locks[q] \in Cpus \ {c}
                 PROVE  locks'[q] = locks[q]
      OBVIOUS
    <3>1. q # p
      BY <1>6, CpusAssumption DEF ScanSlot
    <3>2. q # cpu[c].best
      BY <2>5, Constants
    <3> QED
      BY <3>1, <3>2, <2>2, <1>1
  <2>8. cpu[c].pc = "scan"
    BY <1>6 DEF ScanSlot, AtScheduler
  <2> QED
    BY <1>3, <1>4, <2>4, <2>6, <2>7, <2>8, ScanStep
<1>7. CASE Idle(c)
  <2>1. cpu'[c].on = NoProc /\ cpu'[c].pc = "scan" /\ cpu'[c].proc = NoProc
        /\ cpu'[c].best = NoProc
    BY <1>1, <1>2, <1>7 DEF Idle, AtScheduler, CurrentProcExact, CpuType
  <2>2. locks' = locks
    BY <1>7 DEF Idle
  <2> QED
    BY <1>3, <1>4, <2>1, <2>2, ScanStep
<1>8. CASE SchedulerResumes(c)
  <2>1. cpu'[c].on = NoProc /\ cpu'[c].pc = "scan" /\ cpu'[c].proc = NoProc
        /\ cpu'[c].best = NoProc
    <3>1. cpu'[c] = [Pop(cpu[c]) EXCEPT !.pc = "scan", !.proc = NoProc,
                       !.best = NoProc, !.scan = 0, !.sie = 1]
      BY <1>1, <1>8 DEF SchedulerResumes
    <3>2. Pop(cpu[c]) \in CpuType /\ Pop(cpu[c]).on = NoProc
      BY <1>1, <1>3, <1>5, PushPopType
    <3> QED
      BY <3>1, <3>2 DEF CpuType
  <2>2. locks[cpu[c].best] = c
    BY <1>2, <1>8 DEF SchedulerResumes, AtScheduler, Switched
  <2>3. \A q \in Slots : locks[q] \in Cpus \ {c} => locks'[q] = locks[q]
    BY <2>2, <1>1, <1>8 DEF SchedulerResumes, Release
  <2> QED
    BY <1>3, <1>4, <2>1, <2>3, ScanStep
<1> QED
  BY <1>6, <1>7, <1>8

\* A CPU panics, and changes nothing else.
LEMMA PanicStep ==
  ASSUME Inv, SameCpus, UNCHANGED <<proc, thread, locks, next_pid>>
  PROVE  Stays
<1>1. /\ Booting /\ ParkedOffCpu /\ Scanning /\ Switched /\ OnCpu /\ Forks
      /\ OneCpuPerProcess /\ PidInv /\ CurrentProcExact
  BY DEF Inv, RunInv
<1>2. Booting' /\ ParkedOffCpu' /\ Scanning'
  BY <1>1 DEF Booting, ParkedOffCpu, Scanning, SameCpus
<1>3. Switched'
  BY <1>1 DEF Switched, SameCpus
<1>4. OnCpu'
  BY <1>1 DEF OnCpu, OnCpuOf, SameCpus
<1>5. Forks' /\ PidInv'
  BY <1>1 DEF Forks, PidInv, PidsDistinct
<1>6. OneCpuPerProcess' /\ CurrentProcExact'
  BY <1>1 DEF OneCpuPerProcess, CurrentProcExact, SameCpus, AtScheduler
<1>life. LifeStep
  BY LifeSame DEF SameOn, SameCpus
<1> QED
  BY <1>2, <1>3, <1>4, <1>5, <1>6, <1>life DEF Inv, RunInv, Stays

(***************************************************************************)
(* The switch to the process that the scan has chosen.  No CPU executes    *)
(* it: it is RUNNABLE, and a CPU that executes a RUNNABLE process holds    *)
(* its lock, which this scheduler holds.                                   *)
(***************************************************************************)
LEMMA DispatchStep ==
  ASSUME TypeOK, TypeOK', Inv, NEW c \in Cpus, Dispatch(c)
  PROVE  Stays
<1> DEFINE p == cpu[c].best
<1>1. /\ Booting /\ ParkedOffCpu /\ Scanning /\ Switched /\ OnCpu /\ Forks
      /\ OneCpuPerProcess /\ PidInv /\ CurrentProcExact
  BY DEF Inv, RunInv
<1>2. /\ cpu[c].on = NoProc /\ cpu[c].pc = "scan" /\ p # NoProc
      /\ UNCHANGED <<thread, locks, next_pid>>
  BY DEF Dispatch, AtScheduler
<1>3. \A d \in Cpus : /\ cpu[d].on # NoProc => cpu[d].on \in Slots
                      /\ cpu[d].best # NoProc => cpu[d].best \in Slots
  BY Constants DEF TypeOK
<1>4. p \in Slots /\ locks[p] = c /\ proc[p].state = "RUNNABLE"
  BY <1>1, <1>2, <1>3 DEF Scanning
<1>5. /\ cpu'[c].on = p /\ cpu'[c].best = p /\ cpu'[c].proc = p
      /\ cpu'[c].pc = "scan"
      /\ \A d \in Cpus : d # c => cpu'[d] = cpu[d]
  BY <1>2 DEF Dispatch, TypeOK
<1>6. /\ proc'[p].state = "RUNNING"
      /\ \A q \in Slots : q # p => proc'[q] = proc[q]
      /\ \A q \in Slots : proc'[q].pid = proc[q].pid
  BY <1>4 DEF Dispatch, TypeOK
<1>7. \A d \in Cpus : cpu[d].on # p
  <2> SUFFICES ASSUME NEW d \in Cpus, cpu[d].on = p PROVE FALSE
    OBVIOUS
  <2>1. OnCpuOf(d, p)
    BY <1>1, <1>2 DEF OnCpu
  <2>2. locks[p] = d
    BY <2>1, <1>4 DEF OnCpuOf, Switching
  <2> QED
    BY <2>2, <1>2, <1>4
<1>8. thread[p].pc \in Parked
  BY <1>1, <1>4, <1>7 DEF ParkedOffCpu
<1>9. Booting'
  BY <1>1, <1>2, <1>5 DEF Booting
<1>10. ParkedOffCpu'
  <2> SUFFICES ASSUME NEW q \in Slots, thread[q].pc \notin Parked
               PROVE  \E d \in Cpus : cpu'[d].on = q
    BY <1>2 DEF ParkedOffCpu
  <2>1. PICK d \in Cpus : cpu[d].on = q
    BY <1>1 DEF ParkedOffCpu
  <2>2. d # c
    BY <2>1, <1>2, Constants
  <2> QED
    BY <2>1, <2>2, <1>5
<1>11. Scanning'
  BY <1>1, <1>2, <1>3, <1>4, <1>5, <1>6 DEF Scanning
<1>12. Switched'
  BY <1>1, <1>2, <1>3, <1>4, <1>5, <1>6 DEF Switched
<1>13. OnCpu'
  <2> SUFFICES ASSUME NEW d \in Cpus, cpu'[d].on # NoProc
               PROVE  OnCpuOf(d, cpu[d].on)'
    BY DEF OnCpu
  <2>1. CASE d = c
    BY <2>1, <1>2, <1>5, <1>6, <1>8 DEF OnCpuOf, Parked, Switching
  <2>2. CASE d # c
    <3>1. OnCpuOf(d, cpu[d].on) /\ cpu[d].on \in Slots /\ cpu[d].on # p
      BY <2>2, <1>1, <1>3, <1>5, <1>7 DEF OnCpu
    <3> QED
      BY <3>1, <2>2, <1>2, <1>5, <1>6 DEF OnCpuOf
  <2> QED
    BY <2>1, <2>2
<1>14. Forks'
  BY <1>1, <1>2, <1>4, <1>6 DEF Forks
<1>15. OneCpuPerProcess'
  BY <1>1, <1>2, <1>5, <1>7 DEF OneCpuPerProcess
<1>16. PidInv'
  BY <1>1, <1>2, <1>4, <1>6 DEF PidInv, PidsDistinct
<1>17. CurrentProcExact'
  BY <1>1, <1>2, <1>5 DEF CurrentProcExact, AtScheduler
<1>life. LifeStep
  <2>1. Life!OffCpu(p)
    BY <1>7 DEF Life!OffCpu
  <2>2. Life!Moves(p, "RUNNABLE", "RUNNING")
    BY <1>4, <1>6 DEF Life!Moves
  <2>3. [d \in Cpus |-> cpu[d].on]' = [[d \in Cpus |-> cpu[d].on] EXCEPT ![c] = p]
    BY <1>5
  <2>4. PICK q \in Slots : q = p
    BY <1>4
  <2>5. Life!Run(c, q)
    BY <1>2, <2>1, <2>2, <2>3, <2>4 DEF Life!Run, Life!Moves
  <2> QED
    BY <2>5 DEF LifeStep, Life!Next
<1> QED
  BY <1>9, <1>10, <1>11, <1>12, <1>13, <1>14, <1>15, <1>16, <1>17, <1>life
     DEF Inv, RunInv, Stays

(***************************************************************************)
(* The switch back.  The scheduler goes on with the lock that the process  *)
(* took: sched() has made sure of it.                                      *)
(***************************************************************************)
LEMMA SchedStep ==
  ASSUME TypeOK, TypeOK', Inv, NEW c \in Cpus,
         NEW from \in Switching, NEW to \in Parked, sched(c, from, to)
  PROVE  Stays
<1> DEFINE p == cpu[c].on
<1>1. /\ Booting /\ ParkedOffCpu /\ Scanning /\ Switched /\ OnCpu /\ Forks
      /\ OneCpuPerProcess /\ PidInv /\ CurrentProcExact
  BY DEF Inv, RunInv
<1>2. /\ p # NoProc /\ thread[p].pc = from
      /\ UNCHANGED <<proc, locks, next_pid>>
  BY DEF sched, At
<1>3. \A d \in Cpus : /\ cpu[d].on # NoProc => cpu[d].on \in Slots
                      /\ cpu[d].best # NoProc => cpu[d].best \in Slots
  BY Constants DEF TypeOK
<1>4. CASE SchedComplaint(c) # "no"
  <2>1. UNCHANGED thread /\ cpu' = [cpu EXCEPT ![c].panic = SchedComplaint(c)]
    BY <1>4 DEF sched
  <2>2. SameCpus
    <3>1. cpu \in [Cpus -> CpuType] /\ cpu[c] \in CpuType
      BY DEF TypeOK, CpuType
    <3>2. /\ cpu'[c].on = cpu[c].on /\ cpu'[c].best = cpu[c].best
          /\ cpu'[c].pc = cpu[c].pc /\ cpu'[c].proc = cpu[c].proc
          /\ cpu'[c].panic = SchedComplaint(c)
      BY <2>1, <3>1 DEF CpuType
    <3> QED
      BY <2>1, <3>1, <3>2, <1>4 DEF SameCpus
  <2> QED
    BY <2>1, <2>2, <1>2, PanicStep
<1>5. CASE SchedComplaint(c) = "no"
  <2>1. locks[p] = c
    BY <1>5 DEF SchedComplaint, Me
  <2>2. /\ cpu'[c].on = NoProc /\ cpu'[c].pc = "switched"
        /\ cpu'[c].best = cpu[c].best
        /\ \A d \in Cpus : d # c => cpu'[d] = cpu[d]
    <3>1. cpu \in [Cpus -> CpuType] /\ cpu[c] \in CpuType
      BY DEF TypeOK, CpuType
    <3>2. cpu' = [cpu EXCEPT ![c] = [@ EXCEPT !.on = NoProc, !.pc = "switched"]]
      BY <1>5 DEF sched
    <3> QED
      BY <3>1, <3>2 DEF CpuType
  <2>3. /\ thread'[p].pc = to
        /\ \A q \in Slots : q # p => thread'[q] = thread[q]
    <3>1. thread \in [Slots -> ThreadType] /\ p \in Slots
      BY <1>2, <1>3 DEF TypeOK, ThreadType
    <3>2. thread' = [thread EXCEPT
                       ![p] = [@ EXCEPT !.pc = to, !.saved = cpu[c].intena]]
      BY <1>5 DEF sched, Me
    <3> QED
      BY <3>1, <3>2 DEF ThreadType
  <2>4. /\ OnCpuOf(c, p) /\ p \in Slots /\ cpu[c].best = p
        /\ proc[p].state \in {"RUNNABLE", "SLEEPING", "ZOMBIE"}
    BY <1>1, <1>2, <1>3 DEF OnCpu, OnCpuOf, Switching
  <2>5. \A d \in Cpus : d # c => cpu[d].on # p
    BY <1>1, <1>2 DEF OneCpuPerProcess
  <2>6. Booting'
    BY <1>1, <1>2, <2>2 DEF Booting
  <2>7. ParkedOffCpu'
    <3> SUFFICES ASSUME NEW q \in Slots, thread'[q].pc \notin Parked
                 PROVE  \E d \in Cpus : cpu'[d].on = q
      BY DEF ParkedOffCpu
    <3>1. q # p /\ thread[q].pc \notin Parked
      BY <2>3
    <3>2. PICK d \in Cpus : cpu[d].on = q
      BY <3>1, <1>1 DEF ParkedOffCpu
    <3> QED
      BY <3>1, <3>2, <2>2
  <2>8. Scanning'
    BY <1>1, <1>2, <2>2 DEF Scanning
  <2>9. Switched'
    <3> SUFFICES ASSUME NEW d \in Cpus, cpu'[d].on = NoProc,
                        cpu'[d].pc = "switched"
                 PROVE  /\ cpu'[d].best # NoProc
                        /\ locks[cpu'[d].best] = d
                        /\ proc[cpu'[d].best].state
                             \in {"RUNNABLE", "SLEEPING", "ZOMBIE"}
                        /\ \A e \in Cpus : cpu'[e].on # cpu'[d].best
      BY <1>2 DEF Switched
    <3>1. CASE d = c
      BY <3>1, <1>2, <2>1, <2>2, <2>4, <2>5
    <3>2. CASE d # c
      BY <3>2, <1>1, <2>2 DEF Switched
    <3> QED
      BY <3>1, <3>2
  <2>10. OnCpu'
    <3> SUFFICES ASSUME NEW d \in Cpus, cpu'[d].on # NoProc
                 PROVE  OnCpuOf(d, cpu[d].on)'
      BY DEF OnCpu
    <3>1. d # c /\ cpu[d].on \in Slots /\ cpu[d].on # p
      BY <1>3, <2>2, <2>5
    <3>2. OnCpuOf(d, cpu[d].on)
      BY <3>1, <1>1, <2>2 DEF OnCpu
    <3> QED
      BY <3>1, <3>2, <1>2, <2>2, <2>3 DEF OnCpuOf
  <2>11. Forks'
    BY <1>1, <1>2, <2>3 DEF Forks, Parked, Forking
  <2>12. OneCpuPerProcess'
    BY <1>1, <2>2 DEF OneCpuPerProcess
  <2>13. PidInv'
    BY <1>1, <1>2 DEF PidInv, PidsDistinct
  <2>14. CurrentProcExact'
    BY <1>1, <2>2 DEF CurrentProcExact, AtScheduler
  <2>15. LifeStep
    <3>1. UNCHANGED [q \in Slots |-> proc[q].state]
      BY <1>2
    <3>2. [d \in Cpus |-> cpu[d].on]'
            = [[d \in Cpus |-> cpu[d].on] EXCEPT ![c] = NoProc]
      BY <2>2
    <3>3. Life!Leave(c)
      BY <3>1, <3>2, <1>2, <2>4 DEF Life!Leave
    <3> QED
      BY <3>3 DEF LifeStep, Life!Next
  <2> QED
    BY <2>6, <2>7, <2>8, <2>9, <2>10, <2>11, <2>12, <2>13, <2>14,
     <2>15 DEF Inv, RunInv, Stays
<1> QED
  BY <1>4, <1>5

(***************************************************************************)
(* A process comes into being or is freed again: nobody executes it, no    *)
(* scheduler has chosen it, and its maker alone changes its state.         *)
(***************************************************************************)
Fresh(j) ==
  /\ proc[j].state \in {"UNUSED", "USED"}
  /\ proc'[j].state \in {"UNUSED", "USED", "RUNNABLE"}
  /\ \A q \in Slots : q # j => /\ proc'[q].state = proc[q].state
                               /\ proc'[q].pid = proc[q].pid
                               /\ locks'[q] = locks[q]
  /\ \/ proc'[j].state = "UNUSED" /\ next_pid' \in {next_pid, next_pid + 1}
     \/ /\ proc[j].state # "UNUSED"
        /\ proc'[j].pid = proc[j].pid /\ next_pid' = next_pid
     \/ proc'[j].pid = next_pid /\ next_pid' = next_pid + 1

LEMMA FreshStep ==
  ASSUME TypeOK, TypeOK', Inv, NEW c \in Cpus, NEW j \in Slots,
         SameCpus, Fresh(j), Forks',
         \A q \in Slots :
           \/ thread'[q].pc = thread[q].pc
           \/ q = j /\ thread'[q].pc = "born"
           \/ /\ cpu[c].on = q
              /\ thread[q].pc \notin Switching /\ thread'[q].pc \notin Switching
  PROVE  Stays
<1>1. /\ Booting /\ ParkedOffCpu /\ Scanning /\ Switched /\ OnCpu /\ Forks
      /\ OneCpuPerProcess /\ PidInv /\ CurrentProcExact
  BY DEF Inv, RunInv
<1>2. \A d \in Cpus : /\ cpu[d].on # NoProc => cpu[d].on \in Slots
                      /\ cpu[d].best # NoProc => cpu[d].best \in Slots
  BY Constants DEF TypeOK
<1>3. j # NoProc
  BY Constants
<1>4. \A d \in Cpus : cpu[d].on # j
  BY <1>1, <1>3 DEF OnCpu, OnCpuOf, Fresh, Switching
<1>5. Booting'
  BY <1>1 DEF Booting, SameCpus
<1>6. ParkedOffCpu'
  <2> SUFFICES ASSUME NEW q \in Slots, thread'[q].pc \notin Parked
               PROVE  \E d \in Cpus : cpu'[d].on = q
    BY DEF ParkedOffCpu
  <2>1. thread[q].pc \notin Parked \/ cpu[c].on = q
    BY DEF Parked
  <2>2. PICK d \in Cpus : cpu[d].on = q
    BY <2>1, <1>1 DEF ParkedOffCpu
  <2> QED
    BY <2>2 DEF SameCpus
<1>7. Scanning'
  BY <1>1, <1>2 DEF Scanning, SameCpus, Fresh
<1>8. Switched'
  BY <1>1, <1>2 DEF Switched, SameCpus, Fresh
<1>9. OnCpu'
  <2> SUFFICES ASSUME NEW d \in Cpus, cpu'[d].on # NoProc
               PROVE  OnCpuOf(d, cpu[d].on)'
    BY DEF OnCpu, SameCpus
  <2>1. /\ cpu[d].on \in Slots /\ cpu[d].on # j
        /\ cpu'[d].on = cpu[d].on /\ cpu'[d].best = cpu[d].best
    BY <1>2, <1>4 DEF SameCpus
  <2>2. OnCpuOf(d, cpu[d].on)
    BY <1>1, <2>1 DEF OnCpu
  <2>3. CASE thread'[cpu[d].on].pc = thread[cpu[d].on].pc
    BY <2>1, <2>2, <2>3 DEF OnCpuOf, Fresh
  <2>4. CASE /\ thread[cpu[d].on].pc \notin Switching
             /\ thread'[cpu[d].on].pc \notin Switching
    BY <2>1, <2>2, <2>4 DEF OnCpuOf, Fresh, Switching
  <2> QED
    BY <2>1, <2>3, <2>4
<1>10. OneCpuPerProcess'
  BY <1>1 DEF OneCpuPerProcess, SameCpus
<1>11. PidInv'
  <2>1. next_pid \in Nat /\ \A q \in Slots : proc[q].pid \in Nat /\ proc'[q].pid \in Nat
    BY DEF TypeOK
  <2>2. ASSUME NEW q \in Slots, proc'[q].state # "UNUSED"
        PROVE  proc'[q].pid < next_pid'
    BY <1>1, <2>1, <2>2 DEF PidInv, Fresh
  <2>3. ASSUME NEW p \in Slots, NEW q \in Slots, p # q,
               proc'[p].state # "UNUSED", proc'[q].state # "UNUSED"
        PROVE  proc'[p].pid # proc'[q].pid
    BY <1>1, <2>1, <2>3 DEF PidInv, PidsDistinct, Fresh
  <2> QED
    BY <2>2, <2>3 DEF PidInv, PidsDistinct
<1>12. CurrentProcExact'
  BY <1>1 DEF CurrentProcExact, SameCpus, AtScheduler
<1>life. LifeStep
  <2>1. SameOn
    BY DEF SameOn, SameCpus
  <2>2. CASE proc'[j].state = proc[j].state
    BY <2>1, <2>2, LifeSame DEF Fresh
  <2>3. CASE proc'[j].state # proc[j].state
    <3>1. Life!OffCpu(j)
      BY <1>4 DEF Life!OffCpu
    <3>2. Life!Moves(j, proc[j].state, proc'[j].state)
      BY DEF Fresh, Life!Moves
    <3>3. UNCHANGED [d \in Cpus |-> cpu[d].on]
      BY <2>1, LifeRunning
    <3>4. Life!Create(j)
      BY <3>1, <3>2, <3>3, <2>3 DEF Fresh, Life!Create, Life!Moves
    <3> QED
      BY <3>4 DEF LifeStep, Life!Next
  <2> QED
    BY <2>2, <2>3
<1> QED
  BY <1>5, <1>6, <1>7, <1>8, <1>9, <1>10, <1>11, <1>12, <1>life DEF Inv, RunInv, Stays

\* What main() and fork() make of a slot.
LEMMA NewProc ==
  ASSUME NEW p \in Slots, proc \in [Slots -> ProcType], next_pid \in Nat
  PROVE  /\ \A kind : /\ KernelTask(Made(p, next_pid), kind).pid = next_pid
                      /\ KernelTask(Made(p, next_pid), kind).state = "RUNNABLE"
         /\ FromCode(Made(p, next_pid)).pid = next_pid
         /\ FromCode(Made(p, next_pid)).state = "RUNNABLE"
         /\ Made(p, next_pid).pid = next_pid
         /\ Made(p, next_pid).state = "USED"
         /\ free_process(Made(p, next_pid)).state = "UNUSED"
         /\ free_process(proc[p]).state = "UNUSED"
BY DEF ProcType, Made, KernelTask, FromCode, free_process

LEMMA BootSteps ==
  ASSUME TypeOK, TypeOK', Inv, NEW c \in Cpus, Boot(c) \/ BootFails(c)
  PROVE  Stays
<1>1. /\ cpu[c] \in CpuType /\ cpu \in [Cpus -> CpuType]
      /\ proc \in [Slots -> ProcType] /\ next_pid \in Nat
  BY DEF TypeOK, CpuType, ProcType
<1>2. UNCHANGED <<thread, locks>>
  BY DEF Boot, BootFails
<1>3. SameCpus
  <2>1. CASE cpu' = [cpu EXCEPT ![c].scan = @ + 1]
    BY <2>1, <1>1 DEF SameCpus, CpuType
  <2>2. CASE cpu' = [cpu EXCEPT ![c].panic = "no first process"]
    <3>1. /\ cpu'[c].on = cpu[c].on /\ cpu'[c].best = cpu[c].best
          /\ cpu'[c].pc = cpu[c].pc /\ cpu'[c].proc = cpu[c].proc
          /\ cpu'[c].panic = "no first process"
      BY <2>2, <1>1 DEF CpuType
    <3>2. \A d \in Cpus : d # c => cpu'[d] = cpu[d]
      BY <2>2, <1>1
    <3>3. "no first process" # "no"
      OBVIOUS
    <3> QED
      BY <3>1, <3>2, <3>3 DEF SameCpus
  <2> QED
    BY <2>1, <2>2 DEF Boot, BootFails
<1>4. CASE UNCHANGED <<proc, next_pid>>
  BY <1>2, <1>3, <1>4, PanicStep
<1>5. ASSUME NEW p \in Slots, NEW r,
             proc[p].state = "UNUSED",
             proc' = [proc EXCEPT ![p] = r],
             r.state = "UNUSED" \/ r.pid = next_pid,
             r.state \in {"UNUSED", "USED", "RUNNABLE"},
             next_pid' = next_pid + 1
      PROVE  Stays
  <2>2. Fresh(p)
    BY <1>5, <1>1, <1>2 DEF Fresh
  <2>3. Forks'
    BY <1>5, <1>1, <1>2 DEF Inv, RunInv, Forks
  <2> QED
    BY <2>2, <2>3, <1>2, <1>3, FreshStep
<1>6. CASE Boot(c)
  <2>1. PICK p \in Slots :
          /\ proc[p].state = "UNUSED"
          /\ \/ proc' = [proc EXCEPT ![p] =
                           KernelTask(Made(p, next_pid), BootKind(c))]
             \/ proc' = [proc EXCEPT ![p] = FromCode(Made(p, next_pid))]
    BY <1>6 DEF Boot, First, Unused
  <2>2. next_pid' = next_pid + 1
    BY <1>6 DEF Boot
  <2> QED
    BY <2>1, <2>2, <1>1, <1>5, NewProc
<1>7. CASE BootFails(c)
  <2>1. CASE \E p \in Slots :
               /\ First(p, Unused)
               /\ \/ proc' = [proc EXCEPT ![p] = Made(p, next_pid)]
                  \/ proc' = [proc EXCEPT
                                ![p] = free_process(Made(p, next_pid))]
               /\ next_pid' = next_pid + 1
    BY <2>1, <1>1, <1>5, NewProc DEF First, Unused
  <2> QED
    BY <2>1, <1>4, <1>7 DEF BootFails
<1> QED
  BY <1>6, <1>7

\* The schedulers start when nothing has run yet.
LEMMA StartSchedulersStep ==
  ASSUME TypeOK, TypeOK', Inv, NEW c \in Cpus, StartSchedulers(c)
  PROVE  Stays
<1>1. Booting /\ ParkedOffCpu /\ Forks /\ PidInv
  BY DEF Inv, RunInv
<1>2. UNCHANGED <<proc, thread, locks, next_pid>>
  BY DEF StartSchedulers
<1>3. \A d \in Cpus : cpu[d].on = NoProc
  BY <1>1 DEF StartSchedulers, AtScheduler, Booting
<1>4. \A q \in Slots : thread[q].pc \in Parked
  BY <1>1, <1>3, Constants DEF ParkedOffCpu
<1>5. \A d \in Cpus : /\ cpu'[d].on = NoProc /\ cpu'[d].best = NoProc
                      /\ cpu'[d].pc = "scan" /\ cpu'[d].proc = NoProc
  BY DEF StartSchedulers, InitCpu
<1>6. Booting' /\ ParkedOffCpu' /\ Scanning' /\ Switched' /\ OnCpu'
  BY <1>2, <1>4, <1>5 DEF Booting, ParkedOffCpu, Scanning, Switched, OnCpu
<1>7. Forks' /\ PidInv'
  BY <1>1, <1>2 DEF Forks, PidInv, PidsDistinct
<1>8. OneCpuPerProcess' /\ CurrentProcExact'
  BY <1>5 DEF OneCpuPerProcess, CurrentProcExact, AtScheduler
<1>life. LifeStep
  BY <1>2, <1>3, <1>5, LifeSame DEF SameOn
<1> QED
  BY <1>6, <1>7, <1>8, <1>life DEF Inv, RunInv, Stays

(***************************************************************************)
(* fork(): the child is USED, and its maker's alone, until it is RUNNABLE. *)
(***************************************************************************)
LEMMA ForkSlotStep ==
  ASSUME TypeOK, TypeOK', Inv, NEW c \in Cpus, ForkSlot(c)
  PROVE  Stays
<1> DEFINE p == cpu[c].on
           j == thread[p].j
<1>1. /\ p # NoProc /\ thread[p].pc = "fork"
      /\ My(c) = thread[p] /\ Me(c) = p
  BY DEF ForkSlot, At, My, Me
<1>2. /\ p \in Slots /\ j \in Slots /\ j \in Locks
      /\ proc \in [Slots -> ProcType] /\ thread \in [Slots -> ThreadType]
      /\ locks \in [Locks -> Cpus \cup {Free}] /\ next_pid \in Nat
  BY <1>1, OnCpuType DEF TypeOK, ProcType, ThreadType, Locks
<1>3. OnCpuOf(c, p) /\ Forks
  BY <1>1 DEF Inv, RunInv, OnCpu
<1>4. proc[p].state = "RUNNING" /\ p # NoProc
  BY <1>1, <1>3 DEF OnCpuOf, Switching
<1>5. SameCpus
  BY CpuKept DEF ForkSlot
<1>6. ASSUME thread'[p].pc \in {"fork", "return"},
             \A q \in Slots : q # p => thread'[q] = thread[q]
      PROVE  OnlyThread(p)
  BY <1>6 DEF OnlyThread, Forking
<1>7. CASE proc[j].state # "UNUSED"
  <2>1. /\ UNCHANGED <<proc, cpu, locks, next_pid>>
        /\ Finish(c) \/ thread' = [thread EXCEPT ![p].j = j + 1]
    BY <1>1, <1>7 DEF ForkSlot
  <2>2. /\ thread'[p].pc \in {"fork", "return"}
        /\ \A q \in Slots : q # p => thread'[q] = thread[q]
    BY <1>1, <1>2, <2>1 DEF Finish, AtPc, Me, ThreadType
  <2>3. OnlyThread(p)
    BY <2>2, <1>6
  <2>4. OnlyWakes /\ KeepsStoppedLocks /\ SamePids
    BY <2>1 DEF OnlyWakes, KeepsStoppedLocks, SamePids
  <2> QED
    BY <1>1, <1>2, <1>5, <2>2, <2>3, <2>4, QuietStep DEF Switching
<1>8. CASE proc[j].state = "UNUSED"
  <2>1. /\ proc' = [proc EXCEPT ![j] = Made(j, next_pid)]
        /\ next_pid' = next_pid + 1
        /\ \/ /\ locks' = [locks EXCEPT ![j] = c]
              /\ thread' = [thread EXCEPT
                   ![j] = AtPc("born"),
                   ![p] = [@ EXCEPT !.pc = "fork_copy", !.j = 0, !.arg = j]]
           \/ Finish(c) /\ UNCHANGED locks
    BY <1>1, <1>8 DEF ForkSlot
  <2>2. /\ proc'[j].state = "USED" /\ proc'[j].pid = next_pid
        /\ \A q \in Slots : q # j => proc'[q] = proc[q]
    BY <2>1, <1>2, NewProc
  <2>3. Fresh(j)
    <3>1. \A q \in Slots : q # j => locks'[q] = locks[q]
      <4>1. locks' = [locks EXCEPT ![j] = c] \/ locks' = locks
        BY <2>1
      <4> QED
        BY <4>1, <1>2 DEF Locks
    <3> QED
      BY <1>8, <2>1, <2>2, <3>1 DEF Fresh
  <2>4. j # p
    BY <1>4, <1>8
  <2>5. CASE Finish(c)
    <3>1. thread'[p].pc = "return" /\ \A q \in Slots : q # p => thread'[q] = thread[q]
      BY <2>5, <1>1, <1>2 DEF Finish, AtPc
    <3>2. Forks'
      BY <3>1, <2>2, <1>3, <1>8 DEF Forks, Forking
    <3> QED
      BY <3>1, <3>2, <2>3, <1>1, <1>2, <1>5, FreshStep DEF Switching
  <2>6. CASE thread' = [thread EXCEPT
                 ![j] = AtPc("born"),
                 ![p] = [@ EXCEPT !.pc = "fork_copy", !.j = 0, !.arg = j]]
    <3>1. /\ thread'[p].pc = "fork_copy" /\ thread'[p].arg = j
          /\ thread'[j].pc = "born"
          /\ \A q \in Slots : q # p /\ q # j => thread'[q] = thread[q]
      <4>1. /\ thread'[p] = [thread[p] EXCEPT !.pc = "fork_copy", !.j = 0,
                                              !.arg = j]
            /\ thread'[j] = AtPc("born")
            /\ \A q \in Slots : q # p /\ q # j => thread'[q] = thread[q]
        BY <2>4, <2>6, <1>2
      <4>2. thread[p] \in ThreadType
        BY <1>2
      <4> QED
        BY <4>1, <4>2 DEF AtPc, ThreadType
    <3>2. Forks'
      BY <3>1, <2>2, <2>4, <1>2, <1>3, <1>8 DEF Forks, Forking
    <3> QED
      BY <3>1, <3>2, <2>3, <1>1, <1>2, <1>5, FreshStep DEF Switching
  <2> QED
    BY <2>1, <2>5, <2>6
<1> QED
  BY <1>7, <1>8

LEMMA ForkedSteps ==
  ASSUME TypeOK, TypeOK', Inv, NEW c \in Cpus, ForkCopy(c) \/ ForkReady(c)
  PROVE  Stays
<1> DEFINE p   == cpu[c].on
           new == thread[p].arg
<1>1. /\ p # NoProc /\ thread[p].pc \in {"fork_copy", "fork_ready"}
      /\ My(c) = thread[p] /\ Me(c) = p
  BY DEF ForkCopy, ForkReady, At, My, Me
<1>2. /\ p \in Slots
      /\ proc \in [Slots -> ProcType] /\ thread \in [Slots -> ThreadType]
      /\ locks \in [Locks -> Cpus \cup {Free}]
  BY <1>1, OnCpuType DEF TypeOK, ProcType, ThreadType
<1>3. /\ new \in Slots /\ proc[new].state = "USED"
      /\ \A q \in Slots \ {p} :
           thread[q].pc \in Forking => thread[q].arg # new
      /\ Forks
  BY <1>1, <1>2 DEF Inv, RunInv, Forks, Forking
<1>4. SameCpus /\ next_pid' = next_pid
  BY CpuKept DEF ForkCopy, ForkReady
<1>5. CASE /\ thread'[p].pc = "fork_parent" /\ thread'[p].arg = new
           /\ \A q \in Slots : q # p => thread'[q] = thread[q]
           /\ UNCHANGED proc
           /\ Release({new})
  <2>1. OnlyThread(p) /\ OnlyWakes /\ SamePids
    BY <1>1, <1>4, <1>5 DEF OnlyThread, OnlyWakes, SamePids, Forking
  <2>2. KeepsStoppedLocks
    BY <1>2, <1>3, <1>5 DEF KeepsStoppedLocks, Release, Stopped, Locks
  <2> QED
    BY <1>1, <1>2, <1>4, <1>5, <2>1, <2>2, QuietStep DEF Switching
<1>6. CASE /\ thread'[p].pc = "return"
           /\ \A q \in Slots : q # p => thread'[q] = thread[q]
           /\ \A q \in Slots : q # new => proc'[q] = proc[q]
           /\ \/ proc'[new].state = "UNUSED"
              \/ /\ proc'[new].pid = proc[new].pid
                 /\ proc'[new].state = "RUNNABLE"
           /\ UNCHANGED locks
  <2>1. Fresh(new)
    BY <1>3, <1>4, <1>6 DEF Fresh
  <2>2. Forks'
    BY <1>3, <1>6 DEF Forks, Forking
  <2> QED
    BY <2>1, <2>2, <1>1, <1>2, <1>3, <1>4, <1>6, FreshStep DEF Switching
<1>7. Finish(c) => /\ thread'[p].pc = "return"
                   /\ \A q \in Slots : q # p => thread'[q] = thread[q]
  BY <1>1, <1>2 DEF Finish, AtPc
<1>8. CASE ForkReady(c)
  <2>1. /\ proc' = [proc EXCEPT ![new].state = "RUNNABLE"]
        /\ Finish(c) /\ UNCHANGED locks
    BY <1>1, <1>8 DEF ForkReady, Visit
  <2>2. /\ proc'[new].pid = proc[new].pid /\ proc'[new].state = "RUNNABLE"
        /\ \A q \in Slots : q # new => proc'[q] = proc[q]
    BY <2>1, <1>2, <1>3 DEF ProcType
  <2> QED
    BY <2>1, <2>2, <1>6, <1>7
<1>9. CASE ForkCopy(c)
  <2>1. CASE /\ Goto(c, "fork_parent") /\ Release({new}) /\ UNCHANGED proc
    BY <2>1, <1>1, <1>2, <1>5 DEF Goto, ThreadType
  <2>2. CASE /\ proc' = [proc EXCEPT ![new] = free_process(proc[new])]
             /\ Finish(c) /\ UNCHANGED locks
    <3>1. /\ proc'[new].state = "UNUSED"
          /\ \A q \in Slots : q # new => proc'[q] = proc[q]
      BY <2>2, <1>2, <1>3 DEF free_process, ProcType
    <3> QED
      BY <3>1, <2>2, <1>6, <1>7
  <2> QED
    BY <2>1, <2>2, <1>1, <1>9 DEF ForkCopy
<1> QED
  BY <1>8, <1>9

-----------------------------------------------------------------------------
LEMMA InvInit == Init => Inv
<1> SUFFICES ASSUME Init PROVE Inv
  OBVIOUS
<1>1. /\ \A c \in Cpus : /\ cpu[c].on = NoProc /\ cpu[c].best = NoProc
                         /\ cpu[c].pc \in {"boot", "off"}
      /\ \A p \in Slots : /\ thread[p].pc = "born"
                          /\ proc[p].state = "UNUSED"
  BY DEF Init, InitCpu, AtPc, UnusedProc
<1>2. Booting /\ ParkedOffCpu /\ Scanning /\ Switched /\ OnCpu /\ OneCpuPerProcess
  BY <1>1 DEF Booting, ParkedOffCpu, Parked, Scanning, Switched, OnCpu,
              OneCpuPerProcess
<1>3. Forks /\ PidInv /\ CurrentProcExact
  BY <1>1 DEF Forks, Forking, PidInv, PidsDistinct, CurrentProcExact, AtScheduler
<1> QED
  BY <1>2, <1>3 DEF Inv, RunInv

LEMMA InvNext == TypeOK /\ TypeOK' /\ Inv /\ [Next]_vars => Stays
<1> SUFFICES ASSUME TypeOK, TypeOK', Inv, [Next]_vars PROVE Stays
  OBVIOUS
<1>1. CASE UNCHANGED vars
  <2>1. SameCpus
    BY <1>1 DEF vars, SameCpus
  <2> QED
    BY <1>1, <2>1, PanicStep DEF vars
<1>2. ASSUME NEW c \in Cpus, SchedulerStep(c) PROVE Stays
  BY <1>2, BootSteps, StartSchedulersStep, ScanSteps, DispatchStep
     DEF SchedulerStep
<1>3. ASSUME NEW c \in Cpus, KernelStep(c) PROVE Stays
  <2>1. CASE AcquirePanic(c)
    <3>1. SameCpus /\ UNCHANGED <<proc, thread, locks, next_pid>>
      BY <2>1, CpuKept DEF AcquirePanic
    <3> QED
      BY <3>1, PanicStep
  <2>2. CASE Sched(c)
    BY <2>2, SchedStep DEF Sched, Switching, Parked
  <2>3. CASE Yield(c) \/ Sleep(c) \/ BecomeZombie(c)
    BY <2>3, GiveUpSteps
  <2>4. CASE ForkSlot(c) \/ ForkCopy(c) \/ ForkReady(c)
    BY <2>4, ForkSlotStep, ForkedSteps
  <2> QED
    BY <1>3, <2>1, <2>2, <2>3, <2>4, QuietSteps DEF KernelStep
<1>4. ASSUME NEW c \in Cpus, CallYield(c) \/ ProcessCalls(c) PROVE Stays
  <2>1. CASE TaskReturns(c)
    BY <2>1, GiveUpSteps
  <2>2. CASE InitExits(c) \/ CallYield(c)
    BY <2>2, QuietSteps
  <2>3. CASE \E call, label, arg :
               label \notin Switching \cup Forking /\ Call(c, call, label, arg)
    BY <2>3, QuietSteps
  <2> QED
    BY <1>4, <2>1, <2>2, <2>3
       DEF ProcessCalls, CallExit, CallWait, CallAwait, CallFork, CallKill,
           CallSetkilled, Switching, Forking
<1> QED
  BY <1>1, <1>2, <1>3, <1>4 DEF Next

LEMMA IInvCorrect == Spec => []IInv
<1>1. Init => IInv
  BY TypeInit, InvInit DEF IInv, Inv
<1>2. IInv /\ [Next]_vars => IInv'
  BY TypeNext, InvNext DEF IInv, Inv, Stays
<1> QED
  BY <1>1, <1>2, PTL DEF Spec

\* No kernel thread is executed by two CPUs, however many CPUs and processes
\* there are: scheduler() and sched() hand the process lock over to each other.
THEOREM OneCpuPerProcessCorrect == Spec => []OneCpuPerProcess
<1>1. IInv => OneCpuPerProcess
  BY DEF IInv, RunInv
<1> QED
  BY <1>1, IInvCorrect, PTL

\* current_proc() is right whenever kernel code of a process runs.
THEOREM CurrentProcCorrect == Spec => []CurrentProcExact
<1>1. IInv => CurrentProcExact
  BY DEF IInv
<1> QED
  BY <1>1, IInvCorrect, PTL

\* Two processes that exist never share a pid: allocate_pid() hands each number
\* out once, and a slot gets its number before anybody else can see it in use.
THEOREM PidsCorrect == Spec => []PidsDistinct
<1>1. IInv => PidsDistinct
  BY DEF IInv, PidInv
<1> QED
  BY <1>1, IInvCorrect, PTL

\* Unless a kernel task returns from its entry function, whoever takes the lock
\* of a process that is not RUNNING finds no CPU on its kernel stack.
THEOREM StoppedCorrect ==
  ASSUME "return" \notin Calls
  PROVE  Spec => []StoppedIsOffCpu
<1>1. IInv => StoppedIsOffCpu
  <2> SUFFICES ASSUME IInv, NEW p \in Slots, NEW c \in Cpus,
                      proc[p].state # "RUNNING", locks[p] = Free, cpu[c].on = p
               PROVE  FALSE
    BY DEF StoppedIsOffCpu
  <2>1. OnCpuOf(c, p)
    BY Constants DEF IInv, RunInv, OnCpu
  <2> QED
    BY <2>1, CpusAssumption DEF OnCpuOf
<1> QED
  BY <1>1, IInvCorrect, PTL

\* Unless a kernel task returns from its entry function, table, CPUs and pids agree
\* about who runs where, for any number of CPUs and slots and whatever fails.
THEOREM ProcessesCorrect ==
  ASSUME "return" \notin Calls
  PROVE  Spec => []ProcessesAreSound
<1>1. Spec => []StoppedIsOffCpu
  BY StoppedCorrect
<1> QED
  BY <1>1, TypeCorrect, OneCpuPerProcessCorrect, CurrentProcCorrect, PidsCorrect, PTL
     DEF ProcessesAreSound

\* proc.c implements ProcLife: a process is started on no two CPUs, gives up
\* its CPU itself, is woken by others and freed only when it is off every CPU.
THEOREM Refinement == Spec => ImplementsProcLife
<1>1. Init => Life!Init
  BY DEF Init, UnusedProc, InitCpu, Life!Init
<1>2. TypeOK /\ TypeOK' /\ IInv /\ [Next]_vars => [Life!Next]_(Life!vars)
  BY InvNext DEF IInv, Inv, Stays, LifeStep
<1> QED
  BY <1>1, <1>2, TypeCorrect, IInvCorrect, PTL
     DEF Spec, ImplementsProcLife, Life!Spec

-----------------------------------------------------------------------------
(***************************************************************************)
(* Locks.  Which lock a CPU holds follows from where its thread is, and the*)
(* interrupt flag from which lock it holds.  A step of one CPU takes a lock*)
(* that is free or releases its own, so it says nothing of the others.     *)
(***************************************************************************)
HoldsOwn  == {"born", "yielded", "slept"} \cup Switching
HoldsWait == {"reparent", "reparent_wake", "exit_wake", "exit_lock", "wait",
              "await", "await_killed", "sleep"}

\* Between two steps a CPU holds one lock at most: the one its scheduler keeps for
\* the process found best, or the one the call in progress goes on with.
HeldLock(c) ==
  IF cpu[c].on = NoProc THEN cpu[c].best
  ELSE IF My(c).pc \in HoldsOwn THEN Me(c)
  ELSE IF My(c).pc \in HoldsWait THEN WaitLock
  ELSE IF My(c).pc = "fork_copy" THEN My(c).arg
  ELSE NoLock

HoldsOne(c) == \A l \in Locks : locks[l] = c <=> l = HeldLock(c)

Depth(c) == cpu[c].noff = IF HeldLock(c) = NoLock THEN 0 ELSE 1

\* While a lock is held interrupts are off, and intena says how they were before:
\* on in the scheduler and for a process that starts, as at the call otherwise.
SchedulerFlags(c) ==
  /\ cpu[c].pc # "switched" /\ cpu[c].best = NoProc => cpu[c].sie = 1
  /\ cpu[c].pc # "switched" /\ cpu[c].best # NoProc => cpu[c].intena = 1

ThreadFlags(c) ==
  /\ HeldLock(c) = NoLock /\ My(c).pc # "run" => cpu[c].sie = My(c).before
  /\ My(c).pc = "born" => cpu[c].intena = 1
  /\ HeldLock(c) # NoLock /\ My(c).pc # "born" => cpu[c].intena = My(c).before

Flags(c) ==
  /\ HeldLock(c) # NoLock => cpu[c].sie = 0
  /\ cpu[c].on = NoProc => SchedulerFlags(c)
  /\ cpu[c].on # NoProc => ThreadFlags(c)

BestIsBehind(c) ==
  cpu[c].on = NoProc /\ cpu[c].best # NoProc =>
    /\ cpu[c].pc \in {"scan", "switched"}
    /\ cpu[c].pc = "scan" => cpu[c].best < cpu[c].scan

NoLockPanic(c) ==
  cpu[c].panic \in {"no", "init proc exiting", "no first process"}

CpuOk(c) ==
  HoldsOne(c) /\ Depth(c) /\ Flags(c) /\ BestIsBehind(c) /\ NoLockPanic(c)

ThreadOk(p) ==
  /\ thread[p].pc \in {"yielded", "slept"} => thread[p].saved = thread[p].before
  /\ thread[p].pc = "setkilled" => thread[p].arg = p
  /\ thread[p].pc = "zombie" => proc[p].state = "ZOMBIE"

LockInv ==
  /\ \A c \in Cpus : CpuOk(c)
  /\ \A p \in Slots : ThreadOk(p)


\* What a step of CPU c leaves alone of the other CPUs.
OthersKept(c) ==
  \A d \in Cpus \ {c} :
    /\ cpu'[d] = cpu[d]
    /\ cpu[d].on # NoProc => thread'[cpu[d].on] = thread[cpu[d].on]

OwnLocks(c) ==
  \A l \in Locks :
    locks'[l] # locks[l] => locks[l] \in {c, Free} /\ locks'[l] \in {c, Free}

LEMMA OthersOk ==
  ASSUME TypeOK, LockInv, NEW c \in Cpus, OthersKept(c), OwnLocks(c)
  PROVE  \A d \in Cpus \ {c} : CpuOk(d)'
<1> SUFFICES ASSUME NEW d \in Cpus \ {c} PROVE CpuOk(d)'
  OBVIOUS
<1>1. /\ cpu'[d] = cpu[d]
      /\ cpu[d].on # NoProc => thread'[cpu[d].on] = thread[cpu[d].on]
      /\ CpuOk(d) /\ d # Free
  BY CpusAssumption DEF OthersKept, LockInv
<1>2. HeldLock(d)' = HeldLock(d)
  BY <1>1 DEF HeldLock, Me, My
<1>3. HoldsOne(d)'
  BY <1>1, <1>2 DEF CpuOk, HoldsOne, OwnLocks
<1>4. Depth(d)' /\ BestIsBehind(d)' /\ NoLockPanic(d)'
  BY <1>1, <1>2 DEF CpuOk, Depth, BestIsBehind, NoLockPanic
<1>5. Flags(d)'
  BY <1>1, <1>2 DEF CpuOk, Flags, SchedulerFlags, ThreadFlags, My
<1> QED
  BY <1>3, <1>4, <1>5 DEF CpuOk

\* What entering and leaving a section with interrupts off does to a CPU.
SameCpu(c) ==
  /\ cpu'[c].on = cpu[c].on /\ cpu'[c].best = cpu[c].best
  /\ cpu'[c].pc = cpu[c].pc /\ cpu'[c].scan = cpu[c].scan
  /\ cpu'[c].panic = cpu[c].panic
  /\ \A d \in Cpus \ {c} : cpu'[d] = cpu[d]

LEMMA PushPopFields ==
  ASSUME NEW k \in CpuType
  PROVE  /\ Push(k).noff = k.noff + 1 /\ Push(k).sie = 0
         /\ Push(k).intena = (IF k.noff = 0 THEN k.sie ELSE k.intena)
         /\ Pop(k).noff = k.noff - 1 /\ Pop(k).intena = k.intena
         /\ Pop(k).sie = (IF k.noff = 1 /\ k.intena = 1 THEN 1 ELSE k.sie)
         /\ Push(k).on = k.on /\ Push(k).best = k.best /\ Push(k).pc = k.pc
         /\ Push(k).scan = k.scan /\ Push(k).panic = k.panic
         /\ Pop(k).on = k.on /\ Pop(k).best = k.best /\ Pop(k).pc = k.pc
         /\ Pop(k).scan = k.scan /\ Pop(k).panic = k.panic
BY DEF CpuType, Push, Pop

LEMMA PushEffect ==
  ASSUME TypeOK, NEW c \in Cpus, cpu' = [cpu EXCEPT ![c] = Push(@)]
  PROVE  /\ SameCpu(c)
         /\ cpu'[c].noff = cpu[c].noff + 1
         /\ cpu'[c].sie = 0
         /\ cpu[c].noff = 0 => cpu'[c].intena = cpu[c].sie
<1>1. cpu \in [Cpus -> CpuType]
  BY DEF TypeOK, CpuType
<1>2. cpu'[c] = Push(cpu[c]) /\ \A d \in Cpus \ {c} : cpu'[d] = cpu[d]
  BY <1>1
<1> QED
  BY <1>1, <1>2, PushPopFields DEF SameCpu

LEMMA PopEffect ==
  ASSUME TypeOK, NEW c \in Cpus, cpu' = [cpu EXCEPT ![c] = Pop(@)],
         cpu[c].noff = 1, cpu[c].sie = 0
  PROVE  /\ SameCpu(c)
         /\ cpu'[c].noff = 0
         /\ cpu'[c].intena = cpu[c].intena
         /\ cpu'[c].sie = cpu[c].intena
<1>1. cpu \in [Cpus -> CpuType]
  BY DEF TypeOK, CpuType
<1>2. cpu'[c] = Pop(cpu[c]) /\ \A d \in Cpus \ {c} : cpu'[d] = cpu[d]
  BY <1>1
<1>3. cpu[c].intena \in {0, 1}
  BY <1>1 DEF CpuType, Bit
<1> QED
  BY <1>1, <1>2, <1>3, PushPopFields DEF SameCpu

LEMMA SwapEffect ==
  ASSUME TypeOK, NEW c \in Cpus, cpu' = [cpu EXCEPT ![c] = Pop(Push(@))],
         cpu[c].noff = 1, cpu[c].sie = 0
  PROVE  /\ SameCpu(c)
         /\ cpu'[c].noff = 1
         /\ cpu'[c].intena = cpu[c].intena
         /\ cpu'[c].sie = 0
<1>1. cpu \in [Cpus -> CpuType]
  BY DEF TypeOK, CpuType
<1>2. cpu'[c] = Pop(Push(cpu[c])) /\ \A d \in Cpus \ {c} : cpu'[d] = cpu[d]
  BY <1>1
<1>3. cpu[c] \in CpuType /\ Push(cpu[c]) \in CpuType
  BY <1>1, PushPopType
<1>4. /\ Push(cpu[c]).noff = 2 /\ Push(cpu[c]).sie = 0
      /\ Push(cpu[c]).intena = cpu[c].intena
  BY <1>3, PushPopFields
<1> QED
  BY <1>2, <1>3, <1>4, PushPopFields DEF SameCpu

\* What a step does to the thread of the process that makes it.
OnlyMine(c) == \A q \in Slots \ {Me(c)} : thread'[q] = thread[q]

LEMMA GotoEffect ==
  ASSUME TypeOK, NEW c \in Cpus, cpu[c].on # NoProc, NEW label, Goto(c, label)
  PROVE  /\ OnlyMine(c)
         /\ thread'[Me(c)].pc = label
         /\ thread'[Me(c)].i = My(c).i
         /\ thread'[Me(c)].j = My(c).j
         /\ thread'[Me(c)].arg = My(c).arg
         /\ thread'[Me(c)].saved = My(c).saved
         /\ thread'[Me(c)].before = My(c).before
<1>1. Me(c) \in Slots /\ thread \in [Slots -> ThreadType]
  BY OnCpuType DEF TypeOK, ThreadType, Me
<1> QED
  BY <1>1 DEF Goto, OnlyMine, My, Me, ThreadType

LEMMA FinishEffect ==
  ASSUME TypeOK, NEW c \in Cpus, cpu[c].on # NoProc, Finish(c)
  PROVE  /\ OnlyMine(c)
         /\ thread'[Me(c)].pc = "return"
         /\ thread'[Me(c)].before = My(c).before
<1>1. Me(c) \in Slots /\ thread \in [Slots -> ThreadType]
  BY OnCpuType DEF TypeOK, ThreadType, Me
<1> QED
  BY <1>1 DEF Finish, AtPc, OnlyMine, My, Me, ThreadType

\* A process that has died is never touched again: nothing reaps it.
DeadStay == \A q \in Slots : proc[q].state = "ZOMBIE" => proc'[q].state = "ZOMBIE"

LEMMA LockInvKept ==
  ASSUME TypeOK, LockInv, NEW c \in Cpus, OthersKept(c), OwnLocks(c), CpuOk(c)',
         DeadStay, \A q \in Slots : ThreadOk(q)' \/ thread'[q] = thread[q]
  PROVE  LockInv'
<1>1. \A d \in Cpus : CpuOk(d)'
  BY OthersOk
<1>2. \A q \in Slots : ThreadOk(q)'
  BY DEF LockInv, ThreadOk, DeadStay
<1> QED
  BY <1>1, <1>2 DEF LockInv

LEMMA OnlyMineKeepsOthers ==
  ASSUME TypeOK, Inv, NEW c \in Cpus, cpu[c].on # NoProc, OnlyMine(c),
         \A d \in Cpus \ {c} : cpu'[d] = cpu[d]
  PROVE  OthersKept(c)
<1>1. OneCpuPerProcess
  BY DEF Inv, RunInv
<1>2. \A d \in Cpus \ {c} : cpu[d].on # NoProc => cpu[d].on \in Slots \ {Me(c)}
  BY <1>1, OnCpuType DEF OneCpuPerProcess, Me
<1> QED
  BY <1>2 DEF OthersKept, OnlyMine

\* The locks of a CPU go from old to new, one of them at most each time.
LocksGo(c, old, new) ==
  /\ new # old /\ new # NoLock => locks[new] = Free
  /\ \A l \in Locks : locks'[l] = IF l = new THEN c
                                  ELSE IF l = old THEN Free ELSE locks[l]

LEMMA LocksGoOk ==
  ASSUME TypeOK, NEW c \in Cpus, HoldsOne(c), LocksGo(c, HeldLock(c), HeldLock(c)'),
         HeldLock(c)' \in Locks \cup {NoLock}
  PROVE  HoldsOne(c)' /\ OwnLocks(c)
<1>1. c # Free /\ NoLock \notin Locks
  BY CpusAssumption, NprocAssumption DEF NoLock, Locks, Slots, WaitLock
<1> DEFINE old == HeldLock(c)
           new == HeldLock(c)'
<1>2. \A l \in Locks : locks'[l] = IF l = new THEN c
                                   ELSE IF l = old THEN Free ELSE locks[l]
  BY DEF LocksGo
<1>3. new # old /\ new # NoLock => locks[new] = Free
  BY DEF LocksGo
<1>4. \A l \in Locks : locks[l] = c <=> l = old
  BY DEF HoldsOne
<1> HIDE DEF old, new
<1>5. \A l \in Locks : locks'[l] = c <=> l = new
  BY <1>1, <1>2, <1>3, <1>4
<1>6. OwnLocks(c)
  BY <1>1, <1>2, <1>3, <1>4 DEF OwnLocks
<1> QED
  BY <1>5, <1>6 DEF HoldsOne, new

\* A process keeps its CPU; whatever it does to its locks and flags.
LEMMA CallKept ==
  ASSUME TypeOK, LockInv, NEW c \in Cpus, cpu[c].on # NoProc,
         SameCpu(c), OthersKept(c), DeadStay,
         \A q \in Slots : ThreadOk(q)' \/ thread'[q] = thread[q],
         LocksGo(c, HeldLock(c), HeldLock(c)'), HeldLock(c)' \in Locks \cup {NoLock},
         Depth(c)',
         HeldLock(c)' # NoLock => cpu'[c].sie = 0,
         ThreadFlags(c)'
  PROVE  LockInv'
<1>1. CpuOk(c)
  BY DEF LockInv
<1>2. HoldsOne(c)' /\ OwnLocks(c)
  BY <1>1, LocksGoOk DEF CpuOk
<1>3. cpu'[c].on # NoProc /\ NoLockPanic(c)'
  BY <1>1 DEF SameCpu, CpuOk, NoLockPanic
<1>4. Flags(c)' /\ BestIsBehind(c)'
  BY <1>3 DEF Flags, BestIsBehind
<1> QED
  BY <1>2, <1>3, <1>4, LockInvKept DEF CpuOk

LEMMA ProcessKept ==
  ASSUME TypeOK, Inv, LockInv, NEW c \in Cpus, cpu[c].on # NoProc,
         SameCpu(c), OnlyMine(c), DeadStay, ThreadOk(Me(c))',
         LocksGo(c, HeldLock(c), HeldLock(c)'), HeldLock(c)' \in Locks \cup {NoLock},
         Depth(c)',
         HeldLock(c)' # NoLock => cpu'[c].sie = 0,
         ThreadFlags(c)'
  PROVE  LockInv'
<1>1. OthersKept(c)
  BY OnlyMineKeepsOthers DEF SameCpu
<1>2. \A q \in Slots : ThreadOk(q)' \/ thread'[q] = thread[q]
  BY DEF OnlyMine, SameCpu, Me
<1> QED
  BY <1>1, <1>2, CallKept

\* It goes on with the locks it has.
LEMMA KeepStep ==
  ASSUME TypeOK, Inv, LockInv, NEW c \in Cpus, cpu[c].on # NoProc,
         UNCHANGED <<cpu, locks>>, OnlyMine(c), DeadStay, ThreadOk(Me(c))',
         HeldLock(c)' = HeldLock(c), My(c).pc \notin {"run", "born"},
         thread'[Me(c)].pc # "born", thread'[Me(c)].before = My(c).before,
         HeldLock(c) \in Locks \cup {NoLock}
  PROVE  LockInv'
<1>1. CpuOk(c)
  BY DEF LockInv
<1>2. SameCpu(c) /\ LocksGo(c, HeldLock(c), HeldLock(c)')
  BY <1>1 DEF SameCpu, LocksGo, CpuOk, HoldsOne
<1>3. Depth(c)' /\ (HeldLock(c)' # NoLock => cpu'[c].sie = 0)
  BY <1>1 DEF CpuOk, Depth, Flags
<1>4. ThreadFlags(c)'
  BY <1>1 DEF CpuOk, Flags, ThreadFlags, My, Me
<1> QED
  BY <1>2, <1>3, <1>4, ProcessKept

\* It takes a lock, or gives one back, or changes one for another.
LEMMA EnterStep ==
  ASSUME TypeOK, Inv, LockInv, NEW c \in Cpus, cpu[c].on # NoProc, NEW l \in Locks,
         cpu' = [cpu EXCEPT ![c] = Push(@)], Acquire(c, l),
         OnlyMine(c), DeadStay, ThreadOk(Me(c))',
         HeldLock(c) = NoLock, HeldLock(c)' = l, My(c).pc # "run",
         thread'[Me(c)].pc # "born", thread'[Me(c)].before = My(c).before
  PROVE  LockInv'
<1>1. CpuOk(c) /\ l # NoLock
  BY NprocAssumption DEF LockInv, NoLock, Locks, Slots, WaitLock
<1>2. cpu[c].noff = 0 /\ cpu[c].sie = My(c).before
  BY <1>1 DEF CpuOk, Depth, Flags, ThreadFlags
<1>3. /\ SameCpu(c) /\ cpu'[c].noff = cpu[c].noff + 1
      /\ cpu'[c].sie = 0 /\ cpu'[c].intena = My(c).before
  BY <1>2, PushEffect
<1>4. LocksGo(c, HeldLock(c), HeldLock(c)')
  <2>1. locks \in [Locks -> Cpus \cup {Free}]
    BY DEF TypeOK
  <2>2. NoLock \notin Locks
    BY NprocAssumption DEF NoLock, Locks, Slots, WaitLock
  <2> QED
    BY <2>1, <2>2 DEF LocksGo, Acquire
<1>5. Depth(c)' /\ ThreadFlags(c)'
  BY <1>1, <1>2, <1>3 DEF Depth, ThreadFlags, SameCpu, My, Me
<1> QED
  BY <1>3, <1>4, <1>5, ProcessKept

LEMMA LeaveStep ==
  ASSUME TypeOK, Inv, LockInv, NEW c \in Cpus, cpu[c].on # NoProc, NEW l \in Locks,
         cpu' = [cpu EXCEPT ![c] = Pop(@)], Release({l}),
         OnlyMine(c), DeadStay, ThreadOk(Me(c))',
         HeldLock(c) = l, HeldLock(c)' = NoLock,
         thread'[Me(c)].pc # "born",
         thread'[Me(c)].before = IF My(c).pc = "born" THEN 1 ELSE My(c).before
  PROVE  LockInv'
<1>1. CpuOk(c) /\ l # NoLock
  BY NprocAssumption DEF LockInv, NoLock, Locks, Slots, WaitLock
<1>2. /\ cpu[c].noff = 1 /\ cpu[c].sie = 0
      /\ cpu[c].intena = thread'[Me(c)].before
  BY <1>1 DEF CpuOk, Depth, Flags, ThreadFlags
<1>3. /\ SameCpu(c) /\ cpu'[c].noff = 0
      /\ cpu'[c].sie = thread'[Me(c)].before
  BY <1>2, PopEffect
<1>4. LocksGo(c, HeldLock(c), HeldLock(c)')
  <2>1. NoLock \notin Locks
    BY NprocAssumption DEF NoLock, Locks, Slots, WaitLock
  <2> QED
    BY <2>1 DEF LocksGo, Release
<1>5. Depth(c)' /\ ThreadFlags(c)'
  BY <1>1, <1>3 DEF Depth, ThreadFlags, SameCpu, My, Me
<1> QED
  BY <1>3, <1>4, <1>5, ProcessKept

LEMMA SwapStep ==
  ASSUME TypeOK, Inv, LockInv, NEW c \in Cpus, cpu[c].on # NoProc,
         NEW l \in Locks, NEW m \in Locks, l # m,
         cpu' = [cpu EXCEPT ![c] = Pop(Push(@))],
         locks[m] = Free, locks' = [locks EXCEPT ![m] = c, ![l] = Free],
         OnlyMine(c), DeadStay, ThreadOk(Me(c))',
         HeldLock(c) = l, HeldLock(c)' = m, My(c).pc # "born",
         thread'[Me(c)].pc # "born", thread'[Me(c)].before = My(c).before
  PROVE  LockInv'
<1>1. CpuOk(c) /\ l # NoLock /\ m # NoLock
  BY NprocAssumption DEF LockInv, NoLock, Locks, Slots, WaitLock
<1>2. cpu[c].noff = 1 /\ cpu[c].sie = 0 /\ cpu[c].intena = My(c).before
  BY <1>1 DEF CpuOk, Depth, Flags, ThreadFlags
<1>3. /\ SameCpu(c) /\ cpu'[c].noff = 1 /\ cpu'[c].sie = 0
      /\ cpu'[c].intena = My(c).before
  BY <1>2, SwapEffect
<1>4. LocksGo(c, HeldLock(c), HeldLock(c)')
  <2>1. locks \in [Locks -> Cpus \cup {Free}]
    BY DEF TypeOK
  <2> QED
    BY <2>1 DEF LocksGo
<1>5. Depth(c)' /\ ThreadFlags(c)'
  BY <1>1, <1>3 DEF Depth, ThreadFlags, SameCpu, My, Me
<1> QED
  BY <1>3, <1>4, <1>5, ProcessKept

\* Nothing leaves the state ZOMBIE: the only step that could is free_process, and fork
\* gives it no process but its own.
LEMMA DeadStays ==
  ASSUME TypeOK, Inv, [Next]_vars
  PROVE  DeadStay
<1>1. proc \in [Slots -> ProcType]
  BY DEF TypeOK, ProcType
<1>2. OnCpu /\ Scanning /\ Forks
  BY DEF Inv, RunInv
<1>row. ASSUME NEW x, NEW r, proc' = [proc EXCEPT ![x] = r],
               x \in Slots /\ proc[x].state = "ZOMBIE" => r.state = "ZOMBIE"
        PROVE  DeadStay
  BY <1>1, <1>row DEF DeadStay
<1>same. UNCHANGED proc => DeadStay
  BY DEF DeadStay
<1>3. ASSUME NEW p \in Slots
      PROVE  /\ [proc[p] EXCEPT !.state = "ZOMBIE"].state = "ZOMBIE"
             /\ [proc[p] EXCEPT !.state = "ZOMBIE", !.xstate = 1].state = "ZOMBIE"
             /\ [proc[p] EXCEPT !.chan = NoProc].state = proc[p].state
             /\ [proc[p] EXCEPT !.killed = TRUE].state = proc[p].state
             /\ \A x : [proc[p] EXCEPT !.parent = x].state = proc[p].state
             /\ proc[p].state = "ZOMBIE" => Killed(proc[p]).state = "ZOMBIE"
  BY <1>1, <1>3 DEF ProcType, Killed, States
<1>4. ASSUME NEW c \in Cpus, SchedulerStep(c) PROVE DeadStay
  <2>1. CASE Boot(c) \/ BootFails(c)
    <3>1. \/ UNCHANGED proc
          \/ \E p \in Slots : \E r : p \in Unused /\ proc' = [proc EXCEPT ![p] = r]
      BY <2>1 DEF Boot, BootFails, First
    <3> QED
      BY <3>1, <1>row, <1>same DEF Unused
  <2>2. CASE Dispatch(c)
    <3>1. cpu[c].best \in Slots /\ proc[cpu[c].best].state = "RUNNABLE"
      BY <2>2, <1>2, Constants DEF Dispatch, AtScheduler, Scanning, TypeOK
    <3> QED
      BY <2>2, <3>1, <1>row DEF Dispatch
  <2>3. CASE StartSchedulers(c) \/ ScanSlot(c) \/ Idle(c) \/ SchedulerResumes(c)
    BY <2>3, <1>same DEF StartSchedulers, ScanSlot, Idle, SchedulerResumes
  <2> QED
    BY <1>4, <2>1, <2>2, <2>3 DEF SchedulerStep
<1>on. ASSUME NEW c \in Cpus, cpu[c].on # NoProc
       PROVE  /\ Me(c) \in Slots /\ My(c) = thread[Me(c)] /\ My(c).j \in Slots
              /\ My(c).pc \notin Switching => proc[Me(c)].state = "RUNNING"
              /\ My(c).pc \in Forking => /\ My(c).arg \in Slots
                                         /\ proc[My(c).arg].state = "USED"
  BY <1>on, <1>2, OnCpuType DEF Me, My, OnCpu, OnCpuOf, Forks, ThreadType
<1>5. ASSUME NEW c \in Cpus,
             Yield(c) \/ Sleep(c) \/ BecomeZombie(c) \/ TaskReturns(c) \/ Slept(c)
      PROVE  DeadStay
  <2>1. Me(c) \in Slots /\ (My(c).pc \notin Switching => proc[Me(c)].state = "RUNNING")
    BY <1>5, <1>on DEF Yield, Sleep, BecomeZombie, TaskReturns, Slept, At
  <2>2. CASE Yield(c) \/ Sleep(c)
    <3>1. proc[Me(c)].state = "RUNNING"
      BY <2>1, <2>2 DEF Yield, Sleep, At, My, Me, Switching
    <3>2. PICK r : proc' = [proc EXCEPT ![Me(c)] = r]
      BY <2>2 DEF Yield, Sleep
    <3>3. proc[Me(c)].state # "ZOMBIE"
      BY <3>1
    <3> QED
      BY <3>2, <3>3, <1>row
  <2>3. CASE BecomeZombie(c) \/ TaskReturns(c)
    <3>1. \/ proc' = [proc EXCEPT ![Me(c)] = [proc[Me(c)] EXCEPT !.state = "ZOMBIE"]]
          \/ proc' = [proc EXCEPT ![Me(c)] =
                         [proc[Me(c)] EXCEPT !.state = "ZOMBIE", !.xstate = 1]]
      BY <2>3 DEF BecomeZombie, TaskReturns
    <3>2. PICK r : proc' = [proc EXCEPT ![Me(c)] = r] /\ r.state = "ZOMBIE"
      BY <2>1, <3>1, <1>3, Zenon
    <3> QED
      BY <3>2, <1>row
  <2>4. CASE Slept(c)
    BY <2>1, <2>4, <1>3, <1>row DEF Slept
  <2> QED
    BY <1>5, <2>2, <2>3, <2>4
<1>6. ASSUME NEW c \in Cpus, Reparent(c) \/ ForkParent(c) PROVE DeadStay
  <2>1. CASE \E q, x : proc' = [proc EXCEPT ![q] = [proc[q] EXCEPT !.parent = x]]
    <3>1. PICK q, x : proc' = [proc EXCEPT ![q] = [proc[q] EXCEPT !.parent = x]]
      BY <2>1
    <3>2. q \in Slots => [proc[q] EXCEPT !.parent = x].state = proc[q].state
      BY <1>3
    <3> QED
      BY <3>1, <3>2, <1>row
  <2> QED
    BY Zenon, <2>1, <1>6, <1>same DEF Reparent, ForkParent
<1>7. ASSUME NEW c \in Cpus, Wakeup(c) PROVE DeadStay
  <2>1. CASE /\ proc' = [proc EXCEPT ![My(c).j].state = "RUNNABLE"]
             /\ proc[My(c).j].state = "SLEEPING"
    <3>1. PICK j, r : proc' = [proc EXCEPT ![j] = r] /\ proc[j].state = "SLEEPING"
      BY <2>1
    <3>2. proc[j].state # "ZOMBIE"
      BY <3>1
    <3> QED
      BY <3>1, <3>2, <1>row
  <2> QED
    BY <2>1, <1>7, <1>same DEF Wakeup, WakeSlot
<1>8. ASSUME NEW c \in Cpus, Kill(c) \/ Setkilled(c) PROVE DeadStay
  <2>1. CASE Kill(c) /\ proc' = [proc EXCEPT ![My(c).j] = Killed(proc[My(c).j])]
    BY <2>1, <1>3, <1>row
  <2>2. CASE Setkilled(c)
    <3>1. PICK q : proc' = [proc EXCEPT ![q] = [proc[q] EXCEPT !.killed = TRUE]]
      BY <2>2 DEF Setkilled
    <3> QED
      BY <3>1, <1>3, <1>row
  <2> QED
    BY <2>1, <2>2, <1>8, <1>same DEF Kill
<1>9. ASSUME NEW c \in Cpus, ForkSlot(c) \/ ForkCopy(c) \/ ForkReady(c)
      PROVE  DeadStay
  <2>1. /\ cpu[c].on # NoProc
        /\ ForkCopy(c) \/ ForkReady(c) => My(c).pc \in Forking
    BY Zenon, <1>9 DEF ForkSlot, ForkCopy, ForkReady, At, My, Forking
  <2>2. CASE ForkSlot(c)
    BY <2>1, <2>2, <1>on, <1>row, <1>same DEF ForkSlot
  <2>3. CASE ForkCopy(c) \/ ForkReady(c)
    BY <2>1, <2>3, <1>on, <1>row, <1>same DEF ForkCopy, ForkReady
  <2> QED
    BY <1>9, <2>2, <2>3
<1>10. ASSUME NEW c \in Cpus, KernelStep(c) PROVE DeadStay
  <2>1. CASE UNCHANGED proc
    BY <2>1, <1>same
  <2> QED
    BY <1>10, <2>1, <1>5, <1>6, <1>7, <1>8, <1>9
       DEF KernelStep, AcquirePanic, Sched, sched, Start, Return, Yielded, Exit,
           WaitEnter, WaitFails, WaitReturns, AwaitEnter, Awaited, AwaitMore,
           AwaitKilled, Rewait
<1>11. ASSUME NEW c \in Cpus, CallYield(c) \/ ProcessCalls(c) PROVE DeadStay
  BY Zenon, <1>11, <1>5, <1>same
     DEF CallYield, ProcessCalls, CallExit, CallWait, CallAwait, CallFork, CallKill,
         CallSetkilled, InitExits, Call
<1>12. UNCHANGED vars => DeadStay
  BY <1>same DEF vars
<1> QED
  BY <1>4, <1>10, <1>11, <1>12 DEF Next


LEMMA LockNames ==
  /\ WaitLock \in Locks /\ NoLock \notin Locks /\ WaitLock \notin Slots
  /\ NoLock = NoProc /\ WaitLock # NoLock
  /\ \A p \in Slots : p \in Locks /\ p # NoLock /\ p # WaitLock
BY NprocAssumption DEF Locks, Slots, WaitLock, NoLock, NoProc

LEMMA HeldLockType ==
  ASSUME TypeOK, Inv, NEW c \in Cpus
  PROVE  HeldLock(c) \in Locks \cup {NoLock}
<1>1. cpu[c].best \in Slots \cup {NoLock}
  BY LockNames, Constants DEF TypeOK
<1>2. cpu[c].on # NoProc => Me(c) \in Slots
  BY OnCpuType DEF Me
<1>3. cpu[c].on # NoProc /\ My(c).pc = "fork_copy" => My(c).arg \in Slots
  BY <1>2 DEF Inv, RunInv, Forks, Forking, My, Me
<1> QED
  BY <1>1, <1>2, <1>3, LockNames DEF HeldLock

\* The order of the locks: wait_lock comes before the lock of any process, and those
\* in the order of the table.
Before(l, m) ==
  \/ l = WaitLock /\ m \in Slots
  \/ l \in Slots /\ m \in Slots /\ l < m

InOrder(c) ==
  Wants(c) # NoLock =>
    /\ Wants(c) \in Locks
    /\ HeldLock(c) = NoLock \/ Before(HeldLock(c), Wants(c))

LEMMA WantsInOrder ==
  ASSUME TypeOK, Inv, LockInv, NEW c \in Cpus
  PROVE  InOrder(c)
<1> SUFFICES ASSUME Wants(c) # NoLock
             PROVE  /\ Wants(c) \in Locks
                    /\ HeldLock(c) = NoLock \/ Before(HeldLock(c), Wants(c))
  BY DEF InOrder
<1>1. CASE cpu[c].on = NoProc
  <2>1. /\ cpu[c].pc = "scan" /\ cpu[c].scan < NPROC /\ cpu[c].scan \in Nat
        /\ Wants(c) = cpu[c].scan
        /\ HeldLock(c) = cpu[c].best
    BY <1>1 DEF Wants, HeldLock, TypeOK
  <2>2. cpu[c].scan \in Slots
    BY <2>1, NprocAssumption DEF Slots
  <2>3. cpu[c].best # NoProc => cpu[c].best \in Slots /\ cpu[c].best < cpu[c].scan
    BY <1>1, <2>1, Constants DEF LockInv, CpuOk, BestIsBehind, TypeOK
  <2> QED
    BY <2>1, <2>2, <2>3, LockNames DEF Before
<1>2. CASE cpu[c].on # NoProc
  <2>1. /\ Me(c) \in Slots /\ My(c).j \in Slots /\ My(c) = thread[Me(c)]
        /\ ThreadOk(Me(c))
    BY <1>2, OnCpuType DEF Me, My, ThreadType, LockInv
  <2>2. My(c).pc = "fork_ready" => My(c).arg \in Slots
    BY <2>1 DEF Inv, RunInv, Forks, Forking
  <2>3. CASE My(c).pc \in {"sleep", "exit_lock", "reparent_wake", "exit_wake",
                           "await_killed"}
    <3>1. HeldLock(c) = WaitLock
      BY <1>2, <2>3 DEF HeldLock, HoldsOwn, HoldsWait, Switching
    <3>2. Wants(c) \in Slots
      BY <1>2, <2>1, <2>3 DEF Wants
    <3> QED
      BY <3>1, <3>2, LockNames DEF Before
  <2>4. CASE My(c).pc \in {"yield", "exit", "wait_enter", "await_enter", "rewait",
                           "fork_parent", "kill", "fork", "setkilled", "fork_ready"}
    <3>1. HeldLock(c) = NoLock
      BY <1>2, <2>4 DEF HeldLock, HoldsOwn, HoldsWait, Switching
    <3>2. Wants(c) \in Slots \cup {WaitLock}
      BY <1>2, <2>1, <2>2, <2>4 DEF Wants, ThreadOk
    <3> QED
      BY <3>1, <3>2, LockNames
  <2> QED
    BY <1>2, <2>3, <2>4 DEF Wants
<1> QED
  BY <1>1, <1>2

\* No CPU takes a lock it holds.
LEMMA NoAcquirePanic ==
  ASSUME TypeOK, Inv, LockInv, NEW c \in Cpus
  PROVE  ~AcquirePanic(c)
<1> SUFFICES ASSUME Wants(c) # NoLock, locks[Wants(c)] = c PROVE FALSE
  BY DEF AcquirePanic
<1>1. Wants(c) \in Locks /\ (HeldLock(c) = NoLock \/ Before(HeldLock(c), Wants(c)))
  BY WantsInOrder DEF InOrder
<1>2. HeldLock(c) = Wants(c)
  BY <1>1 DEF LockInv, CpuOk, HoldsOne
<1> QED
  BY <1>1, <1>2, LockNames, NprocAssumption DEF Before, Slots

-----------------------------------------------------------------------------
(***************************************************************************)
(* Step by step: the calls that take a lock (EnterSteps), release one      *)
(* (LeaveSteps), change one for another (SwapSteps) or keep what they have *)
(* (KeepSteps); then the switch, main() and the scan.                      *)
(***************************************************************************)
LEMMA HeldNow ==
  ASSUME NEW c \in Cpus, cpu[c].on # NoProc
  PROVE  /\ My(c).pc \in HoldsOwn => HeldLock(c) = Me(c)
         /\ My(c).pc \in HoldsWait => HeldLock(c) = WaitLock
         /\ My(c).pc = "fork_copy" => HeldLock(c) = My(c).arg
         /\ My(c).pc \notin HoldsOwn \cup HoldsWait \cup {"fork_copy"}
              => HeldLock(c) = NoLock
BY DEF HeldLock, HoldsOwn, HoldsWait, Switching

LEMMA HeldThen ==
  ASSUME NEW c \in Cpus, cpu[c].on # NoProc, cpu'[c].on = cpu[c].on,
         NEW t, thread'[Me(c)] = t
  PROVE  /\ t.pc \in HoldsOwn => HeldLock(c)' = Me(c)
         /\ t.pc \in HoldsWait => HeldLock(c)' = WaitLock
         /\ t.pc = "fork_copy" => HeldLock(c)' = t.arg
         /\ t.pc \notin HoldsOwn \cup HoldsWait \cup {"fork_copy"}
              => HeldLock(c)' = NoLock
<1>1. cpu'[c].on # NoProc /\ My(c)' = t /\ Me(c)' = Me(c)
  BY DEF My, Me
<1>2. HeldLock(c)' = IF t.pc \in HoldsOwn THEN Me(c)
                     ELSE IF t.pc \in HoldsWait THEN WaitLock
                     ELSE IF t.pc = "fork_copy" THEN t.arg
                     ELSE NoLock
  BY <1>1 DEF HeldLock
<1> QED
  BY <1>2 DEF HoldsOwn, HoldsWait, Switching

\* The calls that take, give back or change one lock.
LEMMA EnterSteps ==
  ASSUME TypeOK, Inv, LockInv, DeadStay, NEW c \in Cpus,
         Exit(c) \/ WaitEnter(c) \/ AwaitEnter(c) \/ Rewait(c) \/ Yield(c)
  PROVE  LockInv'
<1>1. /\ cpu[c].on # NoProc /\ Me(c) \in Slots
      /\ My(c).pc \in {"exit", "wait_enter", "await_enter", "rewait", "yield"}
      /\ cpu' = [cpu EXCEPT ![c] = Push(@)]
  BY OnCpuType DEF Exit, WaitEnter, AwaitEnter, Rewait, Yield, At, My, Me
<1>2. HeldLock(c) = NoLock
  BY <1>1, HeldNow DEF HoldsOwn, HoldsWait, Switching
<1>3. cpu'[c].on = cpu[c].on
  BY <1>1, PushEffect DEF SameCpu
<1>4. PICK label \in {"reparent", "wait", "await", "yield_sched"} :
        /\ Goto(c, label)
        /\ IF label = "yield_sched" THEN Acquire(c, Me(c)) ELSE Acquire(c, WaitLock)
  BY DEF Exit, WaitEnter, AwaitEnter, Rewait, Yield
<1>5. /\ OnlyMine(c) /\ thread'[Me(c)].pc = label
      /\ thread'[Me(c)].before = My(c).before
  BY <1>1, <1>4, GotoEffect
<1>6. ThreadOk(Me(c))' /\ label # "born"
  BY <1>3, <1>4, <1>5 DEF ThreadOk, Me
<1>7. HeldLock(c)' = IF label = "yield_sched" THEN Me(c) ELSE WaitLock
  BY <1>1, <1>3, <1>4, <1>5, HeldThen DEF HoldsOwn, HoldsWait, Switching
<1> QED
  BY <1>1, <1>2, <1>4, <1>5, <1>6, <1>7, EnterStep, LockNames

LEMMA LeaveSteps ==
  ASSUME TypeOK, Inv, LockInv, DeadStay, NEW c \in Cpus,
         \/ Start(c) \/ Yielded(c) \/ Slept(c)
         \/ WaitFails(c) \/ Awaited(c)
         \/ AwaitKilled(c) /\ proc[Me(c)].killed
         \/ ForkCopy(c) /\ "uvmcopy" \notin Failures
  PROVE  LockInv'
<1>1. /\ cpu[c].on # NoProc /\ Me(c) \in Slots /\ My(c) = thread[Me(c)]
      /\ My(c).pc \in {"born", "yielded", "slept", "wait", "await", "await_killed",
                       "fork_copy"}
      /\ cpu' = [cpu EXCEPT ![c] = Pop(@)]
  BY OnCpuType DEF Start, Yielded, Slept, WaitFails, Awaited, AwaitKilled,
                   WaitReturns, ForkCopy, At, My, Me
<1>2. /\ HeldLock(c) \in Locks
      /\ Release({HeldLock(c)})
  <2>1. /\ My(c).pc \in {"born", "yielded", "slept"} => HeldLock(c) = Me(c)
        /\ My(c).pc \in {"wait", "await", "await_killed"} => HeldLock(c) = WaitLock
        /\ My(c).pc = "fork_copy" => HeldLock(c) = My(c).arg
    BY <1>1, HeldNow DEF HoldsOwn, HoldsWait, Switching
  <2>2. HeldLock(c) # NoLock
    <3>1. My(c).pc = "fork_copy" => My(c).arg \in Slots
      BY <1>1 DEF Inv, RunInv, Forks, Forking
    <3> QED
      BY <1>1, <2>1, <3>1, LockNames
  <2>3. HeldLock(c) \in Locks
    BY <2>2, HeldLockType
  <2>4. CASE Start(c) \/ Yielded(c) \/ Slept(c)
    BY <2>1, <2>3, <2>4 DEF Start, Yielded, Slept, At, My
  <2>5. CASE WaitFails(c) \/ Awaited(c) \/ (AwaitKilled(c) /\ proc[Me(c)].killed)
    BY <2>1, <2>3, <2>5 DEF WaitFails, Awaited, AwaitKilled, WaitReturns, At, My
  <2>6. CASE ForkCopy(c) /\ "uvmcopy" \notin Failures
    BY <2>1, <2>3, <2>6 DEF ForkCopy, At, My
  <2> QED
    BY <2>4, <2>5, <2>6
<1>3. /\ OnlyMine(c) /\ thread'[Me(c)].pc \in {"return", "rewait", "fork_parent"}
      /\ thread'[Me(c)].before = IF My(c).pc = "born" THEN 1 ELSE My(c).before
  <2>1. CASE Finish(c) /\ My(c).pc # "born"
    BY <1>1, <2>1, FinishEffect
  <2>2. CASE (Goto(c, "rewait") \/ Goto(c, "fork_parent")) /\ My(c).pc # "born"
    BY <1>1, <2>2, GotoEffect
  <2>3. CASE Start(c)
    <3>1. thread \in [Slots -> ThreadType] /\ My(c).pc = "born"
      BY <2>3 DEF TypeOK, ThreadType, Start, At, My
    <3> QED
      BY <1>1, <2>3, <3>1 DEF Start, AtPc, OnlyMine
  <2> QED
    BY <1>1, <2>1, <2>2, <2>3 DEF Start, Yielded, Slept, WaitFails, Awaited,
       AwaitKilled, WaitReturns, ForkCopy, At, My
<1>4. cpu'[c].on = cpu[c].on
  <2>1. cpu[c].noff = 1 /\ cpu[c].sie = 0
    BY <1>2, LockNames DEF LockInv, CpuOk, Depth, Flags
  <2> QED
    BY <1>1, <2>1, PopEffect DEF SameCpu
<1>5. ThreadOk(Me(c))' /\ thread'[Me(c)].pc # "born"
  BY <1>3, <1>4 DEF ThreadOk, Me
<1>6. HeldLock(c)' = NoLock
  BY <1>1, <1>3, <1>4, HeldThen DEF HoldsOwn, HoldsWait, Switching
<1> QED
  BY <1>1, <1>2, <1>3, <1>5, <1>6, LeaveStep

LEMMA SwapSteps ==
  ASSUME TypeOK, Inv, LockInv, DeadStay, NEW c \in Cpus, Sleep(c) \/ BecomeZombie(c)
  PROVE  LockInv'
<1>1. /\ cpu[c].on # NoProc /\ Me(c) \in Slots
      /\ My(c).pc \in {"sleep", "exit_lock"}
      /\ cpu' = [cpu EXCEPT ![c] = Pop(Push(@))]
      /\ locks[Me(c)] = Free
      /\ locks' = [locks EXCEPT ![Me(c)] = c, ![WaitLock] = Free]
  BY OnCpuType DEF Sleep, BecomeZombie, At, My, Me
<1>2. HeldLock(c) = WaitLock
  BY <1>1, HeldNow DEF HoldsWait
<1>3. cpu'[c].on = cpu[c].on
  <2>1. cpu[c].noff = 1 /\ cpu[c].sie = 0
    BY <1>2, LockNames DEF LockInv, CpuOk, Depth, Flags
  <2> QED
    BY <1>1, <2>1, SwapEffect DEF SameCpu
<1>4. PICK label \in {"sleep_sched", "exit_sched"} : Goto(c, label)
  BY DEF Sleep, BecomeZombie
<1>5. /\ OnlyMine(c) /\ thread'[Me(c)].pc = label
      /\ thread'[Me(c)].before = My(c).before
  BY <1>1, <1>4, GotoEffect
<1>6. ThreadOk(Me(c))' /\ label # "born" /\ My(c).pc # "born"
  BY <1>1, <1>3, <1>4, <1>5 DEF ThreadOk, Me
<1>7. HeldLock(c)' = Me(c)
  BY <1>1, <1>3, <1>4, <1>5, HeldThen DEF HoldsOwn, HoldsWait, Switching
<1> QED
  BY <1>1, <1>2, <1>5, <1>6, <1>7, SwapStep, LockNames

\* The calls that go on with the lock they have, or with none.
LEMMA KeepSteps ==
  ASSUME TypeOK, Inv, LockInv, DeadStay, NEW c \in Cpus,
         \/ Reparent(c) \/ Wakeup(c) \/ AwaitMore(c)
         \/ AwaitKilled(c) /\ ~proc[Me(c)].killed
         \/ Kill(c) \/ Setkilled(c) \/ ForkParent(c) \/ ForkReady(c)
  PROVE  LockInv'
<1>1. /\ cpu[c].on # NoProc /\ Me(c) \in Slots /\ My(c) = thread[Me(c)]
      /\ thread \in [Slots -> ThreadType] /\ thread[Me(c)] \in ThreadType
      /\ UNCHANGED <<cpu, locks>>
  BY Zenon, OnCpuType
     DEF Reparent, Wakeup, WakeSlot, AwaitMore, AwaitKilled, Kill, Setkilled,
         ForkParent, ForkReady, Visit, At, My, Me, TypeOK, ThreadType
<1>keep. ASSUME OnlyMine(c), thread'[Me(c)].before = My(c).before,
                \/ My(c).pc \in HoldsWait /\ thread'[Me(c)].pc \in HoldsWait
                \/ /\ My(c).pc \in {"kill", "setkilled", "fork_parent", "fork_ready"}
                   /\ thread'[Me(c)].pc \in {"kill", "return", "fork_ready"}
         PROVE  LockInv'
  <2>1. HeldLock(c)' = HeldLock(c)
    BY <1>1, <1>keep, HeldNow, HeldThen DEF HoldsOwn, HoldsWait, Switching
  <2>2. /\ My(c).pc \notin {"run", "born"}
        /\ thread'[Me(c)].pc \notin {"born", "yielded", "slept", "setkilled", "zombie"}
    BY <1>keep DEF HoldsWait
  <2>3. ThreadOk(Me(c))'
    BY <1>1, <2>2 DEF ThreadOk, Me
  <2> QED
    BY <1>1, <1>keep, <2>1, <2>2, <2>3, HeldLockType, KeepStep
<1>goto. ASSUME NEW label, Goto(c, label)
         PROVE  /\ OnlyMine(c) /\ thread'[Me(c)].pc = label
                /\ thread'[Me(c)].before = My(c).before
  BY <1>1, <1>goto, GotoEffect
<1>rec. ASSUME NEW r, thread' = [thread EXCEPT ![Me(c)] = r]
        PROVE  OnlyMine(c) /\ thread'[Me(c)] = r
  BY <1>1, <1>rec DEF OnlyMine
<1>2. CASE Reparent(c)
  <2>1. \/ \E kid \in Slots : thread' = [thread EXCEPT ![Me(c)] =
              [My(c) EXCEPT !.pc = "reparent_wake", !.i = kid + 1, !.j = 0,
                            !.arg = init_proc]]
        \/ thread' = [thread EXCEPT ![Me(c)] =
              [My(c) EXCEPT !.pc = "exit_wake", !.i = 0, !.j = 0,
                            !.arg = proc[Me(c)].parent]]
    BY Zenon, <1>1, <1>2 DEF Reparent
  <2>2. PICK label \in {"reparent_wake", "exit_wake"} : \E i, a :
          /\ OnlyMine(c)
          /\ thread'[Me(c)] = [My(c) EXCEPT !.pc = label, !.i = i, !.j = 0, !.arg = a]
    <3>1. ASSUME NEW kid \in Slots, thread' = [thread EXCEPT ![Me(c)] =
                   [My(c) EXCEPT !.pc = "reparent_wake", !.i = kid + 1, !.j = 0,
                                 !.arg = init_proc]]
          PROVE  OnlyMine(c) /\ thread'[Me(c)] =
                   [My(c) EXCEPT !.pc = "reparent_wake", !.i = kid + 1, !.j = 0,
                                 !.arg = init_proc]
      BY <3>1, <1>rec
    <3>2. ASSUME thread' = [thread EXCEPT ![Me(c)] =
                   [My(c) EXCEPT !.pc = "exit_wake", !.i = 0, !.j = 0,
                                 !.arg = proc[Me(c)].parent]]
          PROVE  OnlyMine(c) /\ thread'[Me(c)] =
                   [My(c) EXCEPT !.pc = "exit_wake", !.i = 0, !.j = 0,
                                 !.arg = proc[Me(c)].parent]
      BY <3>2, <1>rec
    <3> QED
      BY <2>1, <3>1, <3>2, Zenon
  <2>3. thread'[Me(c)].pc = label /\ thread'[Me(c)].before = My(c).before
    BY <2>2, <1>1 DEF ThreadType
  <2>4. My(c).pc = "reparent"
    BY Zenon, <1>2 DEF Reparent, At, My
  <2> QED
    BY <2>2, <2>3, <2>4, <1>keep DEF HoldsWait
<1>3. CASE Wakeup(c)
  <2>1. PICK label \in {"reparent_wake", "exit_wake"}, next \in {"reparent", "exit_lock"} :
          WakeSlot(c, label, next)
    BY <1>3 DEF Wakeup
  <2>2. My(c).pc = label
    BY <2>1 DEF WakeSlot, At, My
  <2>3. \/ thread' = [thread EXCEPT ![Me(c)] = [My(c) EXCEPT !.j = My(c).j + 1]]
        \/ thread' = [thread EXCEPT ![Me(c)] =
                        [My(c) EXCEPT !.pc = next, !.j = 0, !.arg = NoProc]]
    BY <2>1, <1>1 DEF WakeSlot
  <2>4. /\ [My(c) EXCEPT !.j = My(c).j + 1].pc = label
        /\ [My(c) EXCEPT !.j = My(c).j + 1].before = My(c).before
        /\ [My(c) EXCEPT !.pc = next, !.j = 0, !.arg = NoProc].pc = next
        /\ [My(c) EXCEPT !.pc = next, !.j = 0, !.arg = NoProc].before = My(c).before
    BY <1>1, <2>2 DEF ThreadType
  <2>5. /\ OnlyMine(c)
        /\ thread'[Me(c)].pc \in {label, next}
        /\ thread'[Me(c)].before = My(c).before
    BY <2>3, <2>4, <1>rec
  <2> QED
    BY <2>2, <2>5, <1>keep DEF HoldsWait
<1>4. CASE AwaitMore(c) \/ (AwaitKilled(c) /\ ~proc[Me(c)].killed)
  <2>1. PICK label \in {"await_killed", "sleep"} : Goto(c, label)
    BY <1>4 DEF AwaitMore, AwaitKilled
  <2>2. My(c).pc \in HoldsWait
    BY <1>4 DEF AwaitMore, AwaitKilled, At, My, HoldsWait
  <2> QED
    BY <2>1, <2>2, <1>goto, <1>keep DEF HoldsWait
<1>fin. ASSUME Finish(c),
               My(c).pc \in {"kill", "setkilled", "fork_parent", "fork_ready"}
        PROVE  LockInv'
  <2>1. /\ OnlyMine(c)
        /\ thread'[Me(c)].pc = "return"
        /\ thread'[Me(c)].before = My(c).before
    BY <1>1, <1>fin, FinishEffect
  <2> QED
    BY <2>1, <1>fin, <1>keep
<1>5. CASE Kill(c)
  <2>1. My(c).pc = "kill"
    BY <1>5 DEF Kill, At, My
  <2>2. CASE thread' = [thread EXCEPT ![Me(c)].j = My(c).j + 1]
    <3>1. /\ OnlyMine(c)
          /\ thread'[Me(c)] = [My(c) EXCEPT !.j = My(c).j + 1]
      BY <2>2, <1>1 DEF OnlyMine
    <3>2. thread'[Me(c)].pc = "kill" /\ thread'[Me(c)].before = My(c).before
      BY <3>1, <2>1, <1>1 DEF ThreadType
    <3> QED
      BY <3>1, <3>2, <2>1, <1>keep
  <2> QED
    BY <1>5, <2>1, <2>2, <1>fin DEF Kill
<1>6. CASE Setkilled(c) \/ ForkReady(c)
  BY Zenon, <1>6, <1>fin DEF Setkilled, ForkReady, At, My
<1>7. CASE ForkParent(c)
  <2>1. My(c).pc = "fork_parent" /\ Goto(c, "fork_ready")
    BY <1>7 DEF ForkParent, At, My
  <2> QED
    BY <2>1, <1>goto, <1>keep
<1> QED
  BY <1>2, <1>3, <1>4, <1>5, <1>6, <1>7

\* A process leaves the kernel, or starts a call.
LEMMA EdgeSteps ==
  ASSUME TypeOK, Inv, LockInv, DeadStay, NEW c \in Cpus,
         \/ Return(c) \/ CallYield(c)
         \/ CallExit(c) \/ CallWait(c) \/ CallAwait(c) \/ CallFork(c) \/ CallKill(c)
         \/ CallSetkilled(c)
  PROVE  LockInv'
<1>1. /\ cpu[c].on # NoProc /\ Me(c) \in Slots /\ My(c) = thread[Me(c)]
      /\ thread \in [Slots -> ThreadType] /\ cpu \in [Cpus -> CpuType]
      /\ My(c).pc \in {"return", "run"} /\ UNCHANGED locks
  BY Zenon, OnCpuType
     DEF Return, CallYield, CallExit, CallWait, CallAwait, CallFork, CallKill,
         CallSetkilled, Call, At, My, Me, TypeOK, ThreadType, CpuType
<1>2. HeldLock(c) = NoLock /\ CpuOk(c)
  BY <1>1, HeldNow DEF HoldsOwn, HoldsWait, Switching, LockInv
<1>3. LocksGo(c, NoLock, NoLock)
  BY <1>1, LockNames DEF LocksGo
<1>go. ASSUME NEW t, thread' = [thread EXCEPT ![Me(c)] = t],
              t.pc \in {"run", "yield", "exit", "wait_enter", "await_enter", "fork",
                        "kill", "setkilled"},
              t.pc = "setkilled" => t.arg = Me(c),
              SameCpu(c), cpu'[c].noff = cpu[c].noff,
              t.pc # "run" => cpu'[c].sie = t.before
       PROVE  LockInv'
  <2>1. /\ OnlyMine(c) /\ thread'[Me(c)] = t /\ cpu'[c].on = cpu[c].on
        /\ My(c)' = t /\ Me(c)' = Me(c)
    BY <1>1, <1>go DEF OnlyMine, SameCpu, My, Me
  <2>2. HeldLock(c)' = NoLock
    BY <1>1, <1>go, <2>1, HeldThen DEF HoldsOwn, HoldsWait, Switching
  <2>3. ThreadOk(Me(c))' /\ ThreadFlags(c)'
    BY <1>go, <2>1, <2>2 DEF ThreadOk, ThreadFlags
  <2>4. Depth(c)'
    BY <1>2, <1>go, <2>2 DEF CpuOk, Depth
  <2> QED
    BY <1>1, <1>2, <1>3, <1>go, <2>1, <2>2, <2>3, <2>4, ProcessKept
<1>4. CASE Return(c)
  <2>1. SameCpu(c) /\ cpu'[c].noff = cpu[c].noff
    BY <1>1, <1>4 DEF Return, SameCpu, CpuType
  <2> QED
    BY <1>4, <2>1, <1>go DEF Return, AtPc
<1>5. CASE CallYield(c)
  <2>1. SameCpu(c) /\ cpu'[c].noff = cpu[c].noff /\ cpu'[c].sie = cpu[c].sie
    BY <1>5 DEF CallYield, SameCpu
  <2>2. [AtPc("yield") EXCEPT !.before = cpu[c].sie].pc = "yield"
        /\ [AtPc("yield") EXCEPT !.before = cpu[c].sie].before = cpu[c].sie
    BY DEF AtPc
  <2> QED
    BY <1>5, <2>1, <2>2, <1>go DEF CallYield
<1>6. ASSUME NEW call, NEW arg,
             NEW label \in {"exit", "wait_enter", "await_enter", "fork", "kill",
                            "setkilled"},
             Call(c, call, label, arg), label = "setkilled" => arg = Me(c)
      PROVE  LockInv'
  <2>1. SameCpu(c) /\ cpu'[c].noff = cpu[c].noff /\ cpu'[c].sie = 1
    BY <1>1, <1>6 DEF Call, SameCpu, CpuType
  <2>2. /\ [AtPc(label) EXCEPT !.arg = arg, !.before = 1].pc = label
        /\ [AtPc(label) EXCEPT !.arg = arg, !.before = 1].arg = arg
        /\ [AtPc(label) EXCEPT !.arg = arg, !.before = 1].before = 1
    BY DEF AtPc
  <2> QED
    BY <1>6, <2>1, <2>2, <1>go DEF Call
<1> QED
  BY <1>4, <1>5, <1>6 DEF CallExit, CallWait, CallAwait, CallFork, CallKill, CallSetkilled

\* fork() takes a slot that is on no CPU, and returns with its lock held.
LEMMA ForkSlotHolds ==
  ASSUME TypeOK, Inv, LockInv, DeadStay, NEW c \in Cpus, ForkSlot(c)
  PROVE  LockInv'
<1> DEFINE j == My(c).j
<1>1. /\ cpu[c].on # NoProc /\ Me(c) \in Slots /\ My(c) = thread[Me(c)]
      /\ thread \in [Slots -> ThreadType] /\ thread[Me(c)] \in ThreadType
      /\ My(c).pc = "fork" /\ j \in Slots
  BY OnCpuType DEF ForkSlot, At, My, Me, TypeOK, ThreadType
<1>2. HeldLock(c) = NoLock /\ CpuOk(c)
  BY <1>1, HeldNow DEF HoldsOwn, HoldsWait, Switching, LockInv
<1>3. ASSUME UNCHANGED <<cpu, locks>>, OnlyMine(c),
             thread'[Me(c)].pc \in {"fork", "return"},
             thread'[Me(c)].before = My(c).before
      PROVE  LockInv'
  <2>1. HeldLock(c)' = NoLock /\ ThreadOk(Me(c))'
    BY <1>1, <1>3, HeldThen DEF HoldsOwn, HoldsWait, Switching, ThreadOk, Me
  <2> QED
    BY <1>1, <1>2, <1>3, <2>1, KeepStep
<1>4. CASE Finish(c) /\ UNCHANGED <<cpu, locks>>
  BY <1>1, <1>3, <1>4, FinishEffect
<1>5. CASE thread' = [thread EXCEPT ![Me(c)].j = j + 1] /\ UNCHANGED <<cpu, locks>>
  <2>1. /\ OnlyMine(c)
        /\ thread'[Me(c)] = [My(c) EXCEPT !.j = j + 1]
    BY <1>1, <1>5 DEF OnlyMine
  <2>2. thread'[Me(c)].pc = "fork" /\ thread'[Me(c)].before = My(c).before
    BY <1>1, <2>1 DEF ThreadType
  <2> QED
    BY <1>3, <1>5, <2>1, <2>2
<1>6. CASE /\ proc[j].state = "UNUSED" /\ locks[j] = Free
           /\ locks' = [locks EXCEPT ![j] = c]
           /\ cpu' = [cpu EXCEPT ![c] = Push(@)]
           /\ thread' = [thread EXCEPT
                ![j] = AtPc("born"),
                ![Me(c)] = [@ EXCEPT !.pc = "fork_copy", !.j = 0, !.arg = j]]
  <2>1. \A d \in Cpus : cpu[d].on # j
    BY <1>1, <1>6, Constants DEF Inv, RunInv, OnCpu, OnCpuOf, Switching
  <2>2. j # Me(c)
    BY <2>1 DEF Me
  <2>3. /\ thread'[j] = AtPc("born")
        /\ thread'[Me(c)] = [My(c) EXCEPT !.pc = "fork_copy", !.j = 0, !.arg = j]
        /\ \A q \in Slots \ {j, Me(c)} : thread'[q] = thread[q]
    <3> DEFINE r == [My(c) EXCEPT !.pc = "fork_copy", !.j = 0, !.arg = j]
    <3>1. thread' = [thread EXCEPT ![j] = AtPc("born"), ![Me(c)] = r]
      BY <1>1, <1>6, <2>2
    <3> HIDE DEF r
    <3>2. /\ thread'[j] = AtPc("born") /\ thread'[Me(c)] = r
          /\ \A q \in Slots \ {j, Me(c)} : thread'[q] = thread[q]
      BY <1>1, <2>2, <3>1
    <3> QED
      BY <3>2 DEF r
  <2>4. /\ thread'[Me(c)].pc = "fork_copy" /\ thread'[Me(c)].arg = j
        /\ thread'[Me(c)].before = My(c).before
        /\ thread'[j].pc = "born"
    BY <1>1, <2>3 DEF ThreadType, AtPc
  <2>5. cpu[c].noff = 0 /\ cpu[c].sie = My(c).before
    BY <1>1, <1>2 DEF CpuOk, Depth, Flags, ThreadFlags
  <2>6. /\ SameCpu(c) /\ cpu'[c].noff = 1 /\ cpu'[c].sie = 0
        /\ cpu'[c].intena = My(c).before
    <3>1. /\ SameCpu(c) /\ cpu'[c].noff = cpu[c].noff + 1 /\ cpu'[c].sie = 0
          /\ cpu[c].noff = 0 => cpu'[c].intena = cpu[c].sie
      BY <1>6, PushEffect
    <3> QED
      BY <2>5, <3>1
  <2>7. cpu'[c].on = cpu[c].on /\ Me(c)' = Me(c) /\ My(c)' = thread'[Me(c)]
    BY <2>6 DEF SameCpu, Me, My
  <2>8. HeldLock(c)' = j /\ j \in Locks /\ j # NoLock
    BY <1>1, <2>4, <2>7, HeldThen, LockNames DEF HoldsOwn, HoldsWait, Switching
  <2>9. OthersKept(c)
    <3>1. OneCpuPerProcess
      BY DEF Inv, RunInv
    <3>2. \A d \in Cpus \ {c} : cpu[d].on # NoProc => cpu[d].on \in Slots \ {j, Me(c)}
      BY <1>1, <2>1, <3>1, OnCpuType DEF OneCpuPerProcess, Me
    <3> QED
      BY <2>3, <2>6, <3>2 DEF OthersKept, SameCpu
  <2>10. \A q \in Slots : ThreadOk(q)' \/ thread'[q] = thread[q]
    BY <2>3, <2>4 DEF ThreadOk
  <2>11. LocksGo(c, HeldLock(c), HeldLock(c)')
    <3>1. locks \in [Locks -> Cpus \cup {Free}]
      BY DEF TypeOK
    <3> QED
      BY <1>2, <1>6, <2>8, <3>1, LockNames DEF LocksGo
  <2>12. Depth(c)' /\ ThreadFlags(c)'
    BY <2>4, <2>6, <2>7, <2>8 DEF Depth, ThreadFlags
  <2> QED
    BY <1>1, <2>6, <2>8, <2>9, <2>10, <2>11, <2>12, CallKept
<1> QED
  BY <1>4, <1>5, <1>6 DEF ForkSlot

\* sched() finds what it asserts, and switches to the scheduler of its CPU with the
\* lock that this scheduler has kept.
LEMMA NoComplaint ==
  ASSUME TypeOK, Inv, LockInv, NEW c \in Cpus, cpu[c].on # NoProc,
         My(c).pc \in Switching
  PROVE  SchedComplaint(c) = "no"
<1>1. Me(c) \in Slots /\ HeldLock(c) = Me(c) /\ CpuOk(c)
  BY OnCpuType, HeldNow DEF HoldsOwn, LockInv, Me
<1>2. locks[Me(c)] = c
  BY <1>1, LockNames DEF CpuOk, HoldsOne
<1>3. cpu[c].noff = 1 /\ cpu[c].sie = 0
  BY <1>1, LockNames DEF CpuOk, Depth, Flags
<1>4. proc[Me(c)].state # "RUNNING"
  BY <1>1 DEF Inv, RunInv, OnCpu, OnCpuOf, My, Me, Switching
<1> QED
  BY <1>2, <1>3, <1>4 DEF SchedComplaint

LEMMA SchedHolds ==
  ASSUME TypeOK, Inv, LockInv, DeadStay, NEW c \in Cpus, Sched(c)
  PROVE  LockInv'
<1>1. PICK from \in Switching, to \in {"yielded", "slept", "zombie"} :
        sched(c, from, to) /\ (to = "zombie" => from = "exit_sched")
  BY DEF Sched, Switching
<1>2. /\ cpu[c].on # NoProc /\ Me(c) \in Slots /\ My(c) = thread[Me(c)]
      /\ My(c).pc = from /\ CpuOk(c) /\ HeldLock(c) = Me(c)
  BY <1>1, OnCpuType, HeldNow DEF sched, At, My, Me, HoldsOwn, LockInv
<1>3. SchedComplaint(c) = "no"
  BY <1>1, <1>2, NoComplaint
<1>4. /\ cpu' = [cpu EXCEPT ![c] = [cpu[c] EXCEPT !.on = NoProc, !.pc = "switched"]]
      /\ thread' = [thread EXCEPT ![Me(c)] =
                      [thread[Me(c)] EXCEPT !.pc = to, !.saved = cpu[c].intena]]
      /\ UNCHANGED <<proc, locks>>
  BY <1>1, <1>3 DEF sched
<1>5. /\ cpu'[c].on = NoProc /\ cpu'[c].pc = "switched"
      /\ cpu'[c].best = cpu[c].best /\ cpu'[c].noff = cpu[c].noff
      /\ cpu'[c].sie = cpu[c].sie /\ cpu'[c].panic = cpu[c].panic
      /\ \A d \in Cpus \ {c} : cpu'[d] = cpu[d]
  <2>1. cpu \in [Cpus -> CpuType]
    BY DEF TypeOK, CpuType
  <2> QED
    BY <1>4, <2>1 DEF CpuType
<1>6. /\ OnlyMine(c) /\ thread'[Me(c)].pc = to
      /\ thread'[Me(c)].saved = cpu[c].intena
      /\ thread'[Me(c)].before = My(c).before
  <2>1. thread \in [Slots -> ThreadType]
    BY DEF TypeOK, ThreadType
  <2>2. /\ OnlyMine(c)
        /\ thread'[Me(c)] = [thread[Me(c)] EXCEPT !.pc = to, !.saved = cpu[c].intena]
    BY <1>2, <1>4, <2>1 DEF OnlyMine
  <2>3. thread[Me(c)] \in ThreadType
    BY <1>2, <2>1
  <2> QED
    BY <1>2, <2>2, <2>3 DEF ThreadType
<1>7. OnCpuOf(c, Me(c))
  BY <1>2 DEF Inv, RunInv, OnCpu, Me
<1>8. HeldLock(c)' = Me(c) /\ HeldLock(c)' = HeldLock(c)
  BY <1>2, <1>5, <1>7 DEF HeldLock, OnCpuOf
<1>9. CpuOk(c)'
  <2>1. HoldsOne(c)' /\ Depth(c)'
    BY <1>2, <1>4, <1>5, <1>8 DEF CpuOk, HoldsOne, Depth
  <2>2. Flags(c)'
    BY <1>2, <1>5, <1>8 DEF CpuOk, Flags, SchedulerFlags
  <2>3. BestIsBehind(c)' /\ NoLockPanic(c)'
    BY <1>2, <1>5 DEF CpuOk, BestIsBehind, NoLockPanic
  <2> QED
    BY <2>1, <2>2, <2>3 DEF CpuOk
<1>10. \A q \in Slots : ThreadOk(q)' \/ thread'[q] = thread[q]
  <2>1. cpu[c].intena = My(c).before
    BY <1>2, LockNames DEF CpuOk, Flags, ThreadFlags, Switching
  <2>2. to = "zombie" => proc'[Me(c)].state = "ZOMBIE"
    BY <1>1, <1>2, <1>4, <1>7 DEF OnCpuOf
  <2>3. \A q \in Slots : q = Me(c) => ThreadOk(q)'
    BY <1>6, <2>1, <2>2 DEF ThreadOk
  <2> QED
    BY <1>6, <2>3 DEF OnlyMine
<1>11. OthersKept(c) /\ OwnLocks(c)
  BY <1>2, <1>4, <1>5, <1>6, OnlyMineKeepsOthers DEF OwnLocks
<1> QED
  BY <1>9, <1>10, <1>11, LockInvKept

\* main() before the schedulers run: nobody holds a lock.
LEMMA BootHolds ==
  ASSUME TypeOK, Inv, LockInv, DeadStay, NEW c \in Cpus, Boot(c) \/ BootFails(c)
  PROVE  LockInv'
<1>1. /\ cpu[c].on = NoProc /\ cpu[c].pc = "boot" /\ CpuOk(c)
      /\ UNCHANGED <<thread, locks>>
      /\ cpu \in [Cpus -> CpuType]
  BY DEF Boot, BootFails, AtBoot, AtScheduler, LockInv, TypeOK, CpuType
<1>2. \/ cpu' = [cpu EXCEPT ![c].scan = @ + 1]
      \/ cpu' = [cpu EXCEPT ![c].panic = "no first process"]
  BY DEF Boot, BootFails
<1>3. /\ cpu'[c].on = cpu[c].on /\ cpu'[c].pc = cpu[c].pc
      /\ cpu'[c].best = cpu[c].best /\ cpu'[c].noff = cpu[c].noff
      /\ cpu'[c].sie = cpu[c].sie /\ cpu'[c].intena = cpu[c].intena
      /\ cpu'[c].panic \in {cpu[c].panic, "no first process"}
      /\ \A d \in Cpus \ {c} : cpu'[d] = cpu[d]
  <2>1. CASE cpu' = [cpu EXCEPT ![c].scan = @ + 1]
    BY <1>1, <2>1 DEF CpuType
  <2>2. CASE cpu' = [cpu EXCEPT ![c].panic = "no first process"]
    BY <1>1, <2>2 DEF CpuType
  <2> QED
    BY <1>2, <2>1, <2>2
<1>4. cpu[c].best = NoProc
  BY <1>1 DEF CpuOk, BestIsBehind
<1>5. HeldLock(c) = NoLock /\ HeldLock(c)' = NoLock
  BY <1>1, <1>3, <1>4 DEF HeldLock, NoLock, NoProc
<1>6. HoldsOne(c)' /\ Depth(c)'
  BY <1>1, <1>3, <1>5 DEF CpuOk, HoldsOne, Depth
<1>7. Flags(c)' /\ BestIsBehind(c)' /\ NoLockPanic(c)'
  BY <1>1, <1>3, <1>4, <1>5
     DEF CpuOk, Flags, SchedulerFlags, BestIsBehind, NoLockPanic
<1>8. OthersKept(c) /\ OwnLocks(c)
  BY <1>1, <1>3 DEF OthersKept, OwnLocks
<1> QED
  BY <1>1, <1>6, <1>7, <1>8, LockInvKept DEF CpuOk

LEMMA StartSchedulersHolds ==
  ASSUME TypeOK, Inv, LockInv, DeadStay, NEW c \in Cpus, StartSchedulers(c)
  PROVE  LockInv'
<1>1. \A d \in Cpus : cpu[d].on = NoProc /\ cpu[d].pc \in {"boot", "off"}
  BY DEF StartSchedulers, AtScheduler, Inv, RunInv, Booting
<1>2. \A d \in Cpus : cpu[d].best = NoProc /\ HoldsOne(d)
  BY <1>1 DEF LockInv, CpuOk, BestIsBehind
<1>3. UNCHANGED <<proc, thread, locks>> /\ \A d \in Cpus : cpu'[d] = InitCpu("scan")
  BY DEF StartSchedulers
<1>4. /\ InitCpu("scan").on = NoProc /\ InitCpu("scan").pc = "scan"
      /\ InitCpu("scan").best = NoProc /\ InitCpu("scan").noff = 0
      /\ InitCpu("scan").sie = 1 /\ InitCpu("scan").panic = "no"
  BY DEF InitCpu
<1>5. ASSUME NEW d \in Cpus PROVE CpuOk(d)'
  <2>1. HeldLock(d) = NoLock /\ HeldLock(d)' = NoLock
    BY <1>1, <1>2, <1>3, <1>4 DEF HeldLock, NoLock, NoProc
  <2>2. HoldsOne(d)' /\ Depth(d)'
    BY <1>2, <1>3, <1>4, <2>1 DEF HoldsOne, Depth
  <2>3. Flags(d)' /\ BestIsBehind(d)' /\ NoLockPanic(d)'
    BY <1>3, <1>4, <2>1 DEF Flags, SchedulerFlags, BestIsBehind, NoLockPanic
  <2> QED
    BY <2>2, <2>3 DEF CpuOk
<1>6. \A p \in Slots : ThreadOk(p)'
  BY <1>3 DEF LockInv, ThreadOk
<1> QED
  BY <1>5, <1>6 DEF LockInv

\* One slot of the scan: the lock of the slot is taken, and that of the process
\* found better is kept instead of the one before.
LEMMA ScanHolds ==
  ASSUME TypeOK, Inv, LockInv, DeadStay, NEW c \in Cpus, ScanSlot(c)
  PROVE  LockInv'
<1> DEFINE p    == cpu[c].scan
           best == cpu[c].best
           take == /\ proc[p].state = "RUNNABLE"
                   /\ best = NoProc \/ proc[p].priority < proc[best].priority
           new  == IF take THEN p ELSE best
           k    == IF take /\ best = NoProc THEN Push(cpu[c]) ELSE Pop(Push(cpu[c]))
<1>1. /\ cpu[c].on = NoProc /\ cpu[c].pc = "scan" /\ CpuOk(c)
      /\ p < NPROC /\ locks[p] = Free
      /\ UNCHANGED <<proc, thread>>
  BY DEF ScanSlot, AtScheduler, LockInv
<1>2. /\ cpu \in [Cpus -> CpuType] /\ cpu[c] \in CpuType
      /\ locks \in [Locks -> Cpus \cup {Free}]
      /\ p \in Slots /\ best \in Slots \cup {NoProc}
  <2>1. /\ cpu \in [Cpus -> CpuType] /\ cpu[c] \in CpuType
        /\ locks \in [Locks -> Cpus \cup {Free}]
    BY DEF TypeOK, CpuType
  <2>2. p \in Nat /\ best \in Proc_t
    BY <2>1 DEF CpuType
  <2>3. p \in Slots
    BY <1>1, <2>2, NprocAssumption DEF Slots
  <2> QED
    BY <2>1, <2>2, <2>3 DEF Proc_t
<1>3. /\ HeldLock(c) = best
      /\ best # NoProc => cpu[c].noff = 1 /\ cpu[c].intena = 1 /\ cpu[c].sie = 0
                          /\ best < p
      /\ best = NoProc => cpu[c].noff = 0 /\ cpu[c].sie = 1
  BY <1>1, <1>2, LockNames
     DEF HeldLock, CpuOk, Depth, Flags, SchedulerFlags, BestIsBehind
<1>4. /\ k.on = NoProc /\ k.pc = "scan" /\ k.panic = cpu[c].panic
      /\ new # NoProc => k.noff = 1 /\ k.intena = 1 /\ k.sie = 0
      /\ new = NoProc => k.noff = 0 /\ k.sie = 1
  <2>1. CASE take /\ best = NoProc
    BY <1>1, <1>2, <1>3, <2>1, PushPopFields, LockNames
  <2>2. CASE ~(take /\ best = NoProc)
    <3> DEFINE m == Push(cpu[c])
    <3>1. m \in CpuType
      BY <1>2, PushPopType
    <3>2. /\ m.noff = cpu[c].noff + 1 /\ m.sie = 0 /\ m.intena = 1
          /\ m.on = NoProc /\ m.pc = "scan" /\ m.panic = cpu[c].panic
      BY <1>1, <1>2, <1>3, PushPopFields
    <3> HIDE DEF m
    <3>pop. k = Pop(m)
      BY <2>2 DEF m
    <3>3. /\ k.on = NoProc /\ k.pc = "scan" /\ k.panic = cpu[c].panic
          /\ k.noff = (cpu[c].noff + 1) - 1 /\ k.intena = 1
          /\ k.sie = IF cpu[c].noff + 1 = 1 THEN 1 ELSE 0
      BY <3>1, <3>2, <3>pop, PushPopFields
    <3>4. new = NoProc <=> best = NoProc
      BY <1>2, <2>2, LockNames
    <3> QED
      BY <1>3, <3>3, <3>4
  <2> QED
    BY <2>1, <2>2
<1>5. k \in CpuType
  BY <1>2, PushPopType
<1>6. /\ cpu' = [cpu EXCEPT ![c] = [k EXCEPT !.scan = p + 1, !.best = new]]
      /\ locks' = IF take
                  THEN [l \in Locks |-> IF l = p THEN c
                                        ELSE IF l = best THEN Free ELSE locks[l]]
                  ELSE locks
  BY DEF ScanSlot
<1>7. LocksGo(c, best, new)
  <2>1. CASE take
    BY <1>1, <1>6, <2>1 DEF LocksGo
  <2>2. CASE ~take
    <3>1. \A l \in Locks : locks[l] = c <=> l = best
      BY <1>1, <1>3 DEF CpuOk, HoldsOne
    <3> QED
      BY <1>6, <2>2, <3>1 DEF LocksGo
  <2> QED
    BY <2>1, <2>2
<1>8. new \in Slots \cup {NoProc} /\ (new # NoProc => new < p + 1)
  BY <1>2, <1>3 DEF Slots
<1> HIDE DEF k, new, take
<1>9. /\ cpu'[c].on = NoProc /\ cpu'[c].pc = "scan" /\ cpu'[c].panic = cpu[c].panic
      /\ cpu'[c].best = new /\ cpu'[c].scan = p + 1 /\ cpu'[c].noff = k.noff
      /\ cpu'[c].intena = k.intena /\ cpu'[c].sie = k.sie
      /\ \A d \in Cpus \ {c} : cpu'[d] = cpu[d]
  BY <1>2, <1>4, <1>5, <1>6 DEF CpuType
<1>10. HeldLock(c)' = new
  BY <1>9 DEF HeldLock
<1>11. HoldsOne(c)' /\ OwnLocks(c)
  BY <1>1, <1>3, <1>7, <1>8, <1>10, LocksGoOk, LockNames DEF CpuOk
<1>12. Depth(c)' /\ Flags(c)' /\ BestIsBehind(c)' /\ NoLockPanic(c)'
  BY <1>1, <1>4, <1>8, <1>9, <1>10, LockNames
     DEF CpuOk, Depth, Flags, SchedulerFlags, BestIsBehind, NoLockPanic
<1>13. OthersKept(c)
  BY <1>1, <1>9 DEF OthersKept
<1> QED
  BY <1>1, <1>11, <1>12, <1>13, LockInvKept DEF CpuOk

\* The process that is resumed is on no CPU: it waits inside sched(), or has not
\* started yet.
LEMMA BestIsParked ==
  ASSUME TypeOK, Inv, LockInv, NEW c \in Cpus, cpu[c].on = NoProc,
         cpu[c].pc = "scan", cpu[c].best # NoProc
  PROVE  /\ cpu[c].best \in Slots
         /\ thread[cpu[c].best].pc \in {"born", "yielded", "slept"}
<1> DEFINE p == cpu[c].best
<1>1. p \in Slots /\ locks[p] = c /\ proc[p].state = "RUNNABLE"
  BY Constants DEF Inv, RunInv, Scanning, TypeOK
<1>2. ASSUME NEW d \in Cpus, cpu[d].on = p PROVE FALSE
  <2>1. OnCpuOf(d, p) /\ d # c
    BY <1>2 DEF Inv, RunInv, OnCpu
  <2>2. thread[p].pc = "yield_sched" /\ locks[p] = d
    BY <1>1, <2>1 DEF OnCpuOf, Switching
  <2> QED
    BY <1>1, <2>1, <2>2
<1>3. thread[p].pc \in Parked
  BY <1>1, <1>2 DEF Inv, RunInv, ParkedOffCpu
<1>4. thread[p].pc # "zombie"
  BY <1>1 DEF LockInv, ThreadOk
<1> QED
  BY <1>1, <1>3, <1>4 DEF Parked

LEMMA DispatchHolds ==
  ASSUME TypeOK, Inv, LockInv, DeadStay, NEW c \in Cpus, Dispatch(c)
  PROVE  LockInv'
<1> DEFINE p == cpu[c].best
<1>1. /\ cpu[c].on = NoProc /\ cpu[c].pc = "scan" /\ p # NoProc /\ CpuOk(c)
      /\ cpu' = [cpu EXCEPT ![c] =
                   [cpu[c] EXCEPT !.on = p, !.proc = p, !.intena = Restored(c, p)]]
      /\ UNCHANGED <<thread, locks>>
      /\ cpu \in [Cpus -> CpuType]
  BY DEF Dispatch, AtScheduler, LockInv, TypeOK, CpuType
<1>2. p \in Slots /\ thread[p].pc \in {"born", "yielded", "slept"}
  BY <1>1, BestIsParked
<1>3. /\ HeldLock(c) = p /\ cpu[c].noff = 1 /\ cpu[c].sie = 0 /\ cpu[c].intena = 1
  BY <1>1, LockNames DEF HeldLock, CpuOk, Depth, Flags, SchedulerFlags
<1>4. /\ cpu'[c].on = p /\ cpu'[c].intena = Restored(c, p)
      /\ cpu'[c].noff = cpu[c].noff /\ cpu'[c].sie = cpu[c].sie
      /\ cpu'[c].panic = cpu[c].panic
      /\ \A d \in Cpus \ {c} : cpu'[d] = cpu[d]
  BY <1>1 DEF CpuType
<1>5. Me(c)' = p /\ My(c)' = thread[p]
  BY <1>1, <1>4 DEF Me, My
<1>6. HeldLock(c)' = p
  BY <1>1, <1>2, <1>4, <1>5 DEF HeldLock, HoldsOwn
<1>7. HoldsOne(c)' /\ Depth(c)'
  BY <1>1, <1>3, <1>4, <1>6, LockNames DEF CpuOk, HoldsOne, Depth
<1>8. ThreadFlags(c)'
  <2>1. thread[p].pc = "born" => Restored(c, p) = 1
    BY <1>3 DEF Restored
  <2>2. thread[p].pc # "born" => Restored(c, p) = thread[p].before
    BY <1>2 DEF Restored, LockInv, ThreadOk
  <2> QED
    BY <1>1, <1>2, <1>4, <1>5, <1>6, <2>1, <2>2, LockNames DEF ThreadFlags
<1>9. Flags(c)' /\ BestIsBehind(c)' /\ NoLockPanic(c)'
  BY <1>1, <1>3, <1>4, <1>8 DEF Flags, BestIsBehind, NoLockPanic, CpuOk
<1>10. OthersKept(c) /\ OwnLocks(c)
  BY <1>1, <1>4 DEF OthersKept, OwnLocks
<1> QED
  BY <1>1, <1>7, <1>9, <1>10, LockInvKept DEF CpuOk

LEMMA IdleHolds ==
  ASSUME TypeOK, Inv, LockInv, DeadStay, NEW c \in Cpus, Idle(c) \/ SchedulerResumes(c)
  PROVE  LockInv'
<1> DEFINE best == cpu[c].best
<1>1. /\ cpu[c].on = NoProc /\ CpuOk(c) /\ UNCHANGED <<proc, thread>>
      /\ cpu \in [Cpus -> CpuType] /\ cpu[c] \in CpuType
      /\ HeldLock(c) = best /\ best \in Slots \cup {NoProc}
  BY Constants DEF Idle, SchedulerResumes, AtScheduler, LockInv, HeldLock, TypeOK, CpuType
<1>2. /\ cpu'[c].on = NoProc /\ cpu'[c].pc = "scan" /\ cpu'[c].best = NoProc
      /\ cpu'[c].noff = 0 /\ cpu'[c].sie = 1 /\ cpu'[c].panic = cpu[c].panic
      /\ \A d \in Cpus \ {c} : cpu'[d] = cpu[d]
  <2>1. CASE Idle(c)
    <3>1. /\ cpu[c].best = NoProc /\ cpu[c].pc = "scan"
          /\ cpu' = [cpu EXCEPT ![c] = [cpu[c] EXCEPT !.scan = 0, !.sie = 1]]
      BY <2>1 DEF Idle, AtScheduler
    <3>2. cpu[c].noff = 0
      BY <1>1, <3>1, LockNames DEF CpuOk, Depth
    <3> QED
      BY <1>1, <3>1, <3>2 DEF CpuType
  <2>2. CASE SchedulerResumes(c)
    <3> DEFINE k == Pop(cpu[c])
    <3>1. best # NoProc
      BY <1>1, <2>2 DEF SchedulerResumes, AtScheduler, Inv, RunInv, Switched
    <3>2. cpu[c].noff = 1
      BY <1>1, <3>1, LockNames DEF CpuOk, Depth
    <3>3. k \in CpuType /\ k.noff = 0 /\ k.on = NoProc /\ k.panic = cpu[c].panic
      BY <1>1, <3>2, PushPopType, PushPopFields
    <3>4. cpu' = [cpu EXCEPT ![c] =
                   [k EXCEPT !.pc = "scan", !.proc = NoProc, !.best = NoProc,
                             !.scan = 0, !.sie = 1]]
      BY <2>2 DEF SchedulerResumes
    <3> HIDE DEF k
    <3> QED
      BY <1>1, <3>3, <3>4 DEF CpuType
  <2> QED
    BY <2>1, <2>2
<1>3. HeldLock(c)' = NoLock
  BY <1>2, LockNames DEF HeldLock
<1>4. LocksGo(c, best, NoLock)
  <2>1. \A l \in Locks : locks[l] = c <=> l = best
    BY <1>1 DEF CpuOk, HoldsOne
  <2>2. CASE Idle(c)
    BY <2>1, <2>2, LockNames DEF Idle, LocksGo
  <2>3. CASE SchedulerResumes(c)
    BY <2>3, LockNames DEF SchedulerResumes, Release, LocksGo
  <2> QED
    BY <2>2, <2>3
<1>5. HoldsOne(c)' /\ OwnLocks(c)
  BY <1>1, <1>3, <1>4, LocksGoOk DEF CpuOk
<1>6. Depth(c)' /\ Flags(c)' /\ BestIsBehind(c)' /\ NoLockPanic(c)'
  BY <1>1, <1>2, <1>3, LockNames
     DEF CpuOk, Depth, Flags, SchedulerFlags, BestIsBehind, NoLockPanic
<1>7. OthersKept(c)
  BY <1>1, <1>2 DEF OthersKept
<1> QED
  BY <1>1, <1>5, <1>6, <1>7, LockInvKept DEF CpuOk

\* exit() of the first process, the panic by design.
LEMMA InitExitsHolds ==
  ASSUME TypeOK, Inv, LockInv, DeadStay, NEW c \in Cpus, InitExits(c)
  PROVE  LockInv'
<1>1. /\ cpu \in [Cpus -> CpuType] /\ CpuOk(c) /\ UNCHANGED <<proc, thread, locks>>
      /\ cpu' = [cpu EXCEPT ![c].panic = "init proc exiting"]
  BY DEF InitExits, TypeOK, CpuType, LockInv
<1>2. /\ cpu'[c].on = cpu[c].on /\ cpu'[c].best = cpu[c].best
      /\ cpu'[c].pc = cpu[c].pc /\ cpu'[c].scan = cpu[c].scan
      /\ cpu'[c].noff = cpu[c].noff /\ cpu'[c].sie = cpu[c].sie
      /\ cpu'[c].intena = cpu[c].intena /\ cpu'[c].panic = "init proc exiting"
      /\ \A d \in Cpus \ {c} : cpu'[d] = cpu[d]
  BY <1>1 DEF CpuType
<1>3. HeldLock(c)' = HeldLock(c) /\ Me(c)' = Me(c) /\ My(c)' = My(c)
  <2>1. Me(c)' = Me(c) /\ My(c)' = My(c)
    BY <1>1, <1>2 DEF Me, My
  <2> QED
    BY <1>2, <2>1 DEF HeldLock
<1>4. HoldsOne(c)' /\ Depth(c)' /\ BestIsBehind(c)' /\ NoLockPanic(c)'
  BY <1>1, <1>2, <1>3 DEF CpuOk, HoldsOne, Depth, BestIsBehind, NoLockPanic
<1>5. Flags(c)'
  BY <1>1, <1>2, <1>3 DEF CpuOk, Flags, SchedulerFlags, ThreadFlags
<1>6. OthersKept(c) /\ OwnLocks(c)
  BY <1>1, <1>2 DEF OthersKept, OwnLocks
<1> QED
  BY <1>1, <1>4, <1>5, <1>6, LockInvKept DEF CpuOk

LEMMA LockInvInit == Init => LockInv
<1> SUFFICES ASSUME Init PROVE LockInv
  OBVIOUS
<1>1. ASSUME NEW c \in Cpus PROVE CpuOk(c)
  <2>1. /\ cpu[c].on = NoProc /\ cpu[c].best = NoProc /\ cpu[c].noff = 0
        /\ cpu[c].sie = 1 /\ cpu[c].panic = "no"
        /\ \A l \in Locks : locks[l] = Free
    BY DEF Init, InitCpu
  <2>2. HeldLock(c) = NoLock
    BY <2>1, LockNames DEF HeldLock
  <2>3. c # Free
    BY CpusAssumption
  <2> QED
    BY <2>1, <2>2, <2>3, LockNames
       DEF CpuOk, HoldsOne, Depth, Flags, SchedulerFlags, BestIsBehind, NoLockPanic
<1>2. ASSUME NEW p \in Slots PROVE ThreadOk(p)
  BY <1>2 DEF Init, AtPc, ThreadOk
<1> QED
  BY <1>1, <1>2 DEF LockInv

\* The two ways the code has to keep a lock too long are left out: a fork() that
\* runs out of memory in uvmcopy, and a kernel task that returns.
LEMMA LockInvNext ==
  ASSUME "uvmcopy" \notin Failures, "return" \notin Calls,
         TypeOK, Inv, LockInv, [Next]_vars
  PROVE  LockInv'
<1>1. DeadStay
  BY DeadStays
<1>2. ASSUME NEW c \in Cpus, SchedulerStep(c) PROVE LockInv'
  BY <1>1, <1>2, BootHolds, StartSchedulersHolds, ScanHolds, DispatchHolds, IdleHolds
     DEF SchedulerStep
<1>3. ASSUME NEW c \in Cpus, KernelStep(c) PROVE LockInv'
  <2>1. CASE AcquirePanic(c)
    BY <2>1, NoAcquirePanic
  <2>2. CASE Sched(c) \/ ForkSlot(c)
    BY <1>1, <2>2, SchedHolds, ForkSlotHolds
  <2>3. CASE Exit(c) \/ WaitEnter(c) \/ AwaitEnter(c) \/ Rewait(c) \/ Yield(c)
    BY <1>1, <2>3, EnterSteps
  <2>4. CASE \/ Start(c) \/ Yielded(c) \/ Slept(c) \/ WaitFails(c) \/ Awaited(c)
             \/ ForkCopy(c)
    BY <1>1, <2>4, LeaveSteps
  <2>5. CASE AwaitKilled(c)
    <3>1. CASE proc[Me(c)].killed
      BY <1>1, <2>5, <3>1, LeaveSteps
    <3>2. CASE ~proc[Me(c)].killed
      BY <1>1, <2>5, <3>2, KeepSteps
    <3> QED
      BY <3>1, <3>2
  <2>6. CASE Sleep(c) \/ BecomeZombie(c)
    BY <1>1, <2>6, SwapSteps
  <2>7. CASE Reparent(c) \/ Wakeup(c) \/ AwaitMore(c)
             \/ Kill(c) \/ Setkilled(c) \/ ForkParent(c) \/ ForkReady(c)
    BY <1>1, <2>7, KeepSteps
  <2>8. CASE Return(c)
    BY <1>1, <2>8, EdgeSteps
  <2> QED
    BY <1>3, <2>1, <2>2, <2>3, <2>4, <2>5, <2>6, <2>7, <2>8
       DEF KernelStep
<1>4. ASSUME NEW c \in Cpus, CallYield(c) \/ ProcessCalls(c) PROVE LockInv'
  <2>1. ~TaskReturns(c)
    BY DEF TaskReturns
  <2> QED
    BY <1>1, <1>4, <2>1, EdgeSteps, InitExitsHolds DEF ProcessCalls
<1>5. CASE UNCHANGED vars
  <2>1. \A c \in Cpus : HeldLock(c)' = HeldLock(c) /\ My(c)' = My(c)
    BY <1>5 DEF vars, HeldLock, Me, My
  <2>2. ASSUME NEW c \in Cpus PROVE CpuOk(c)'
    <3>1. CpuOk(c) /\ cpu'[c] = cpu[c] /\ locks' = locks
      BY <1>5 DEF vars, LockInv
    <3>2. HoldsOne(c)' /\ Depth(c)' /\ BestIsBehind(c)' /\ NoLockPanic(c)'
      BY <2>1, <3>1 DEF CpuOk, HoldsOne, Depth, BestIsBehind, NoLockPanic
    <3>3. Flags(c)'
      BY <2>1, <3>1 DEF CpuOk, Flags, SchedulerFlags, ThreadFlags
    <3> QED
      BY <3>2, <3>3 DEF CpuOk
  <2>3. ASSUME NEW p \in Slots PROVE ThreadOk(p)'
    BY <1>5, <2>3 DEF vars, LockInv, ThreadOk
  <2> QED
    BY <2>2, <2>3 DEF LockInv
<1> QED
  BY <1>2, <1>3, <1>4, <1>5 DEF Next

LEMMA LockInvCorrect ==
  ASSUME "uvmcopy" \notin Failures, "return" \notin Calls
  PROVE  Spec => [](TypeOK /\ Inv /\ LockInv)
<1>1. IInv <=> TypeOK /\ Inv
  BY DEF IInv, Inv
<1>2. LockInv /\ IInv /\ [Next]_vars => LockInv'
  BY <1>1, LockInvNext
<1>3. Init => LockInv
  BY LockInvInit
<1>4. Spec => []IInv
  BY IInvCorrect
<1> QED
  BY <1>1, <1>2, <1>3, <1>4, PTL DEF Spec

-----------------------------------------------------------------------------
(***************************************************************************)
(* Wakeups.  Between the death of a child and the wakeup of its parent the *)
(* lock wait_lock is held, so nobody sees that a wakeup is missing; when it*)
(* is released the wakeup is done.                                         *)
(***************************************************************************)
\* While a wakeup is on its way the process that is to be woken may sleep: wait_lock
\* is held until the scan of the table has passed it.
SleepsOnSelf(p) == proc[p].state = "SLEEPING" => proc[p].chan = p

WokenInTime(p) ==
  proc[p].state = "SLEEPING" /\ ZombieChild(p) =>
    \E c \in Cpus : /\ cpu[c].on # NoProc /\ My(c).pc = "reparent_wake"
                    /\ My(c).arg = p /\ My(c).j <= p

ParentIsTold(c) ==
  cpu[c].on # NoProc =>
    /\ My(c).pc = "exit_wake" =>
         /\ My(c).arg = proc[Me(c)].parent
         /\ (My(c).arg # NoProc /\ proc[My(c).arg].state = "SLEEPING")
              => My(c).j <= My(c).arg
    /\ My(c).pc = "exit_lock" =>
         (proc[Me(c)].parent # NoProc => proc[proc[Me(c)].parent].state # "SLEEPING")

LooksFirst(c) ==
  cpu[c].on # NoProc /\ My(c).pc \in {"await_killed", "sleep"} => ~ZombieChild(Me(c))

WakeInv ==
  /\ \A p \in Slots : SleepsOnSelf(p) /\ WokenInTime(p)
  /\ \A c \in Cpus : ParentIsTold(c) /\ LooksFirst(c)

\* A step that puts nobody to sleep and lets nobody die, of a process that is not
\* about to.
Waking == {"reparent_wake", "exit_wake", "exit_lock", "await_killed", "sleep"}

CalmProc ==
  \A q \in Slots :
    /\ proc'[q].state = "SLEEPING" =>
         proc[q].state = "SLEEPING" /\ proc'[q].chan = proc[q].chan
    /\ proc'[q].state = "ZOMBIE" => proc[q].state = "ZOMBIE"
    /\ proc[q].state \in {"UNUSED", "USED"} \/ proc'[q].parent = proc[q].parent

OthersRun(c) ==
  \A d \in Cpus \ {c} :
    /\ cpu'[d].on = cpu[d].on
    /\ cpu[d].on # NoProc => thread'[cpu[d].on] = thread[cpu[d].on]

CalmThread(c) ==
  /\ OthersRun(c)
  /\ cpu[c].on # NoProc => My(c).pc \notin Waking
  /\ cpu'[c].on # NoProc => thread'[cpu'[c].on].pc \notin Waking

LEMMA CalmStep ==
  ASSUME TypeOK, Inv, WakeInv, NEW c \in Cpus, CalmThread(c), CalmProc
  PROVE  WakeInv'
<1>1. ASSUME NEW p \in Slots, ZombieChild(p)' PROVE ZombieChild(p)
  <2>1. PICK q \in Slots : proc'[q].parent = p /\ proc'[q].state = "ZOMBIE"
    BY <1>1 DEF ZombieChild
  <2>2. proc[q].parent = p /\ proc[q].state = "ZOMBIE"
    BY <2>1 DEF CalmProc
  <2> QED
    BY <2>2 DEF ZombieChild
<1>2. ASSUME NEW d \in Cpus, cpu'[d].on # NoProc, My(d)'.pc \in Waking
      PROVE  /\ d # c /\ cpu[d].on # NoProc /\ Me(d)' = Me(d) /\ My(d)' = My(d)
             /\ Me(d) \in Slots
             /\ proc[Me(d)].state = "RUNNING" /\ proc'[Me(d)].parent = proc[Me(d)].parent
  <2>1. d # c /\ cpu[d].on # NoProc /\ Me(d)' = Me(d) /\ My(d)' = My(d)
    BY <1>2 DEF CalmThread, OthersRun, My, Me
  <2>2. Me(d) \in Slots /\ proc[Me(d)].state = "RUNNING"
    BY <1>2, <2>1, OnCpuType
       DEF Inv, RunInv, OnCpu, OnCpuOf, Me, My, Waking, Switching
  <2> QED
    BY <2>1, <2>2 DEF CalmProc
<1>3. ASSUME NEW p \in Slots PROVE SleepsOnSelf(p)' /\ WokenInTime(p)'
  <2>1. SleepsOnSelf(p)'
    BY DEF SleepsOnSelf, CalmProc, WakeInv
  <2>2. WokenInTime(p)'
    <3> SUFFICES ASSUME proc'[p].state = "SLEEPING", ZombieChild(p)'
                 PROVE  \E d \in Cpus :
                          /\ cpu'[d].on # NoProc /\ My(d)'.pc = "reparent_wake"
                          /\ My(d)'.arg = p /\ My(d)'.j <= p
      BY DEF WokenInTime
    <3>1. proc[p].state = "SLEEPING" /\ ZombieChild(p)
      BY <1>1 DEF CalmProc
    <3>2. PICK d \in Cpus : /\ cpu[d].on # NoProc /\ My(d).pc = "reparent_wake"
                            /\ My(d).arg = p /\ My(d).j <= p
      BY <3>1 DEF WakeInv, WokenInTime
    <3>3. d # c
      BY <3>2 DEF CalmThread, Waking
    <3>4. cpu'[d].on = cpu[d].on /\ My(d)' = My(d)
      BY <3>2, <3>3 DEF CalmThread, OthersRun, My
    <3> QED
      BY <3>2, <3>4
  <2> QED
    BY <2>1, <2>2
<1>4. ASSUME NEW d \in Cpus PROVE ParentIsTold(d)' /\ LooksFirst(d)'
  <2>1. ParentIsTold(d) /\ LooksFirst(d)
    BY DEF WakeInv
  <2>2. LooksFirst(d)'
    BY <1>1, <1>2, <2>1 DEF LooksFirst, Waking
  <2>3. ParentIsTold(d)'
    <3> SUFFICES ASSUME cpu'[d].on # NoProc, My(d)'.pc \in {"exit_wake", "exit_lock"}
                 PROVE  ParentIsTold(d)'
      BY DEF ParentIsTold
    <3>1. /\ cpu[d].on # NoProc /\ Me(d)' = Me(d) /\ My(d)' = My(d)
          /\ proc'[Me(d)].parent = proc[Me(d)].parent
          /\ Me(d) \in Slots
      BY <1>2 DEF Waking
    <3>2. proc[Me(d)].parent # NoProc => proc[Me(d)].parent \in Slots
      BY <3>1, Constants DEF TypeOK
    <3>3. \A q \in Slots : proc'[q].state = "SLEEPING" => proc[q].state = "SLEEPING"
      BY DEF CalmProc
    <3> QED
      BY <2>1, <3>1, <3>2, <3>3 DEF ParentIsTold
  <2> QED
    BY <2>2, <2>3
<1> QED
  BY <1>3, <1>4 DEF WakeInv

LEMMA CalmRow ==
  ASSUME TypeOK, NEW x, NEW r, proc' = [proc EXCEPT ![x] = r],
         x \in Slots =>
           /\ r.state = "SLEEPING" => proc[x].state = "SLEEPING" /\ r.chan = proc[x].chan
           /\ r.state = "ZOMBIE" => proc[x].state = "ZOMBIE"
           /\ proc[x].state \in {"UNUSED", "USED"} \/ r.parent = proc[x].parent
  PROVE  CalmProc
<1>1. proc \in [Slots -> ProcType]
  BY DEF TypeOK, ProcType
<1> QED
  BY <1>1 DEF CalmProc

LEMMA CalmSame == UNCHANGED proc => CalmProc
BY DEF CalmProc

\* A process takes its thread from one label to another, both of them calm.
LEMMA CalmMine ==
  ASSUME TypeOK, Inv, NEW c \in Cpus, cpu[c].on # NoProc, SameCpus, OnlyMine(c),
         My(c).pc \notin Waking, thread'[Me(c)].pc \notin Waking
  PROVE  CalmThread(c)
<1>1. OneCpuPerProcess
  BY DEF Inv, RunInv
<1>2. \A d \in Cpus \ {c} : cpu[d].on # NoProc => cpu[d].on \in Slots \ {Me(c)}
  BY <1>1, OnCpuType DEF OneCpuPerProcess, Me
<1> QED
  BY <1>2 DEF CalmThread, OthersRun, SameCpus, OnlyMine, Me, My

\* What main() and the schedulers do.
LEMMA CalmScheduler ==
  ASSUME TypeOK, Inv, LockInv, WakeInv, NEW c \in Cpus, SchedulerStep(c) \/ Sched(c)
  PROVE  WakeInv'
<1>1. /\ proc \in [Slots -> ProcType] /\ cpu \in [Cpus -> CpuType]
      /\ thread \in [Slots -> ThreadType]
  BY DEF TypeOK, ProcType, CpuType, ThreadType
<1>2. CASE Boot(c) \/ BootFails(c)
  <2>1. CalmProc
    <3>1. \/ UNCHANGED proc
          \/ \E p \in Slots : \E r : p \in Unused /\ proc' = [proc EXCEPT ![p] = r]
                                     /\ r.state \in {"UNUSED", "USED", "RUNNABLE"}
      <4>1. ASSUME NEW p \in Slots, NEW pid, NEW kind
            PROVE  /\ Made(p, pid).state = "USED"
                   /\ KernelTask(Made(p, pid), kind).state = "RUNNABLE"
                   /\ FromCode(Made(p, pid)).state = "RUNNABLE"
                   /\ free_process(Made(p, pid)).state = "UNUSED"
        BY <1>1 DEF Made, KernelTask, FromCode, free_process, ProcType
      <4>2. CASE Boot(c)
        <5>1. PICK p \in Slots : /\ First(p, Unused)
                 /\ \/ proc' = [proc EXCEPT ![p] =
                                  KernelTask(Made(p, next_pid), BootKind(c))]
                    \/ proc' = [proc EXCEPT ![p] = FromCode(Made(p, next_pid))]
          BY <4>2 DEF Boot
        <5> QED
          BY <4>1, <5>1 DEF First
      <4>3. CASE BootFails(c)
        <5>1. \/ UNCHANGED proc
              \/ \E p \in Slots : /\ First(p, Unused)
                   /\ \/ proc' = [proc EXCEPT ![p] = Made(p, next_pid)]
                      \/ proc' = [proc EXCEPT ![p] = free_process(Made(p, next_pid))]
          BY <4>3 DEF BootFails
        <5> QED
          BY <4>1, <5>1 DEF First
      <4> QED
        BY <1>2, <4>2, <4>3
    <3>2. ASSUME NEW p \in Slots, NEW r, p \in Unused, proc' = [proc EXCEPT ![p] = r],
                 r.state \in {"UNUSED", "USED", "RUNNABLE"}
          PROVE  CalmProc
      BY <3>2, CalmRow DEF Unused
    <3> QED
      BY <3>1, <3>2, CalmSame
  <2>2. CalmThread(c)
    <3>1. /\ cpu[c].on = NoProc /\ UNCHANGED thread
          /\ \/ cpu' = [cpu EXCEPT ![c].panic = "no first process"]
             \/ cpu' = [cpu EXCEPT ![c].scan = cpu[c].scan + 1]
      BY <1>2 DEF Boot, BootFails, AtBoot, AtScheduler
    <3>2. cpu'[c].on = NoProc /\ \A d \in Cpus \ {c} : cpu'[d] = cpu[d]
      BY <1>1, <3>1 DEF CpuType
    <3> QED
      BY <3>1, <3>2 DEF CalmThread, OthersRun
  <2> QED
    BY <2>1, <2>2, CalmStep
<1>3. CASE StartSchedulers(c)
  <2>1. \A d \in Cpus : cpu[d].on = NoProc
    BY <1>3 DEF StartSchedulers, AtScheduler, Inv, RunInv, Booting
  <2>2. /\ UNCHANGED <<proc, thread>>
        /\ \A d \in Cpus : cpu'[d].on = NoProc
    BY <1>3 DEF StartSchedulers, InitCpu
  <2> QED
    BY <2>1, <2>2, CalmSame, CalmStep DEF CalmThread, OthersRun
<1>4. CASE ScanSlot(c) \/ Idle(c) \/ SchedulerResumes(c)
  <2>1. /\ cpu[c].on = NoProc /\ UNCHANGED <<proc, thread>>
    BY <1>4 DEF ScanSlot, Idle, SchedulerResumes, AtScheduler
  <2>2. /\ cpu'[c].on = NoProc /\ \A d \in Cpus \ {c} : cpu'[d] = cpu[d]
    <3>1. CASE ScanSlot(c)
      <4>1. PICK k \in {Push(cpu[c]), Pop(Push(cpu[c]))} :
              \E s, b : cpu' = [cpu EXCEPT ![c] = [k EXCEPT !.scan = s, !.best = b]]
        BY <3>1 DEF ScanSlot
      <4>2. k \in CpuType /\ k.on = NoProc
        BY <1>1, <2>1, PushPopType, PushPopFields
      <4> QED
        BY <1>1, <4>1, <4>2 DEF CpuType
    <3>2. CASE Idle(c)
      BY <1>1, <2>1, <3>2 DEF Idle, CpuType
    <3>3. CASE SchedulerResumes(c)
      <4>1. PICK k : k = Pop(cpu[c])
        OBVIOUS
      <4>2. k \in CpuType /\ k.on = NoProc
        BY <1>1, <2>1, <4>1, PushPopType, PushPopFields
      <4>3. cpu' = [cpu EXCEPT ![c] =
                      [k EXCEPT !.pc = "scan", !.proc = NoProc, !.best = NoProc,
                                !.scan = 0, !.sie = 1]]
        BY <3>3, <4>1 DEF SchedulerResumes
      <4> QED
        BY <1>1, <4>2, <4>3 DEF CpuType
    <3> QED
      BY <1>4, <3>1, <3>2, <3>3
  <2> QED
    BY <2>1, <2>2, CalmSame, CalmStep DEF CalmThread, OthersRun
<1>5. CASE Dispatch(c)
  <2> DEFINE p == cpu[c].best
  <2>1. /\ cpu[c].on = NoProc /\ cpu[c].pc = "scan" /\ p # NoProc
        /\ UNCHANGED thread
        /\ proc' = [proc EXCEPT ![p].state = "RUNNING"]
        /\ cpu' = [cpu EXCEPT ![c] =
                   [cpu[c] EXCEPT !.on = p, !.proc = p, !.intena = Restored(c, p)]]
    BY <1>5 DEF Dispatch, AtScheduler
  <2>2. p \in Slots /\ thread[p].pc \in {"born", "yielded", "slept"}
    BY <2>1, BestIsParked
  <2>3. CalmProc
    BY <1>1, <2>1, <2>2 DEF CalmProc, ProcType
  <2>4. cpu'[c].on = p /\ \A d \in Cpus \ {c} : cpu'[d] = cpu[d]
    BY <1>1, <2>1 DEF CpuType
  <2>5. CalmThread(c)
    BY <2>1, <2>2, <2>4 DEF CalmThread, OthersRun, Waking
  <2> QED
    BY <2>3, <2>5, CalmStep
<1>6. CASE Sched(c)
  <2>1. PICK from \in Switching, to \in {"yielded", "slept", "zombie"} :
          sched(c, from, to)
    BY <1>6 DEF Sched, Switching
  <2>2. /\ cpu[c].on # NoProc /\ Me(c) \in Slots /\ My(c) = thread[Me(c)]
        /\ My(c).pc = from /\ UNCHANGED proc
    BY <2>1, OnCpuType DEF sched, At, My, Me
  <2>3. SchedComplaint(c) = "no"
    BY <2>2, NoComplaint
  <2>4. /\ cpu' = [cpu EXCEPT ![c] = [cpu[c] EXCEPT !.on = NoProc, !.pc = "switched"]]
        /\ thread' = [thread EXCEPT ![Me(c)] =
                        [thread[Me(c)] EXCEPT !.pc = to, !.saved = cpu[c].intena]]
    BY <2>1, <2>3 DEF sched
  <2>5. cpu'[c].on = NoProc /\ \A d \in Cpus \ {c} : cpu'[d] = cpu[d]
    BY <1>1, <2>4 DEF CpuType
  <2>6. OnlyMine(c)
    BY <1>1, <2>4 DEF OnlyMine
  <2>7. OthersRun(c)
    BY <2>2, <2>5, <2>6, OnlyMineKeepsOthers DEF OthersRun, OthersKept
  <2> QED
    BY <2>2, <2>5, <2>7, CalmSame, CalmStep DEF CalmThread, Waking, Switching
<1> QED
  BY <1>2, <1>3, <1>4, <1>5, <1>6 DEF SchedulerStep

\* The calls of a process but those that concern its children or its sleep.
LEMMA CalmCalls ==
  ASSUME TypeOK, Inv, WakeInv, NEW c \in Cpus,
         \/ Start(c) \/ Return(c) \/ CallYield(c) \/ Yield(c) \/ Yielded(c)
         \/ CallExit(c) \/ CallWait(c) \/ CallAwait(c) \/ CallFork(c) \/ CallKill(c)
         \/ CallSetkilled(c) \/ InitExits(c)
         \/ Exit(c) \/ WaitEnter(c) \/ WaitFails(c) \/ AwaitEnter(c) \/ Awaited(c)
         \/ Slept(c) \/ Rewait(c) \/ Kill(c) \/ Setkilled(c)
         \/ ForkSlot(c) \/ ForkCopy(c) \/ ForkParent(c) \/ ForkReady(c)
  PROVE  WakeInv'
<1>1. /\ cpu[c].on # NoProc /\ Me(c) \in Slots /\ My(c) = thread[Me(c)]
      /\ My(c).pc \notin Waking \cup Switching
      /\ proc[Me(c)].state = "RUNNING" /\ My(c).j \in Slots
      /\ My(c).pc \in Forking => /\ My(c).arg \in Slots
                                 /\ proc[My(c).arg].state = "USED"
  <2>1. /\ cpu[c].on # NoProc /\ My(c).pc \notin Waking \cup Switching
    BY Zenon
       DEF Start, Return, CallYield, Yield, Yielded, CallExit, CallWait, CallAwait,
           CallFork, CallKill, CallSetkilled, Call, InitExits, Exit, WaitEnter,
           WaitFails, AwaitEnter, Awaited, Slept, Rewait, Kill, Setkilled, ForkSlot,
           ForkCopy, ForkParent, ForkReady, At, My, Waking, Switching
  <2> QED
    BY <2>1, OnCpuType DEF Inv, RunInv, OnCpu, OnCpuOf, Forks, Me, My, ThreadType
<1>2. /\ proc \in [Slots -> ProcType] /\ cpu \in [Cpus -> CpuType]
      /\ thread \in [Slots -> ThreadType]
  BY DEF TypeOK, ProcType, CpuType, ThreadType
<1>cpus. ASSUME \/ UNCHANGED cpu
                \/ cpu' = [cpu EXCEPT ![c] = Push(@)]
                \/ cpu' = [cpu EXCEPT ![c] = Pop(@)]
                \/ cpu' = [cpu EXCEPT ![c].sie = 0]
                \/ cpu' = [cpu EXCEPT ![c].sie = 1]
                \/ cpu' = [cpu EXCEPT ![c].panic = "init proc exiting"],
                OnlyMine(c), thread'[Me(c)].pc \notin Waking, CalmProc
         PROVE  WakeInv'
  BY <1>1, <1>cpus, CpuKept, CalmMine, CalmStep
<1>set. ASSUME NEW t, thread' = [thread EXCEPT ![Me(c)] = t]
        PROVE  OnlyMine(c) /\ thread'[Me(c)] = t
  BY <1>1, <1>2, <1>set DEF OnlyMine
<1>3. CASE Start(c) \/ Return(c) \/ CallYield(c)
  <2>1. ASSUME NEW label, NEW b
        PROVE  [AtPc(label) EXCEPT !.before = b].pc = label /\ AtPc(label).pc = label
    BY DEF AtPc
  <2>2. /\ OnlyMine(c) /\ thread'[Me(c)].pc \in {"return", "run", "yield"}
    <3>1. CASE Start(c)
      BY <3>1, <1>set, <2>1 DEF Start
    <3>2. CASE Return(c)
      BY <3>2, <1>set, <2>1 DEF Return
    <3>3. CASE CallYield(c)
      BY <3>3, <1>set, <2>1 DEF CallYield
    <3> QED
      BY <1>3, <3>1, <3>2, <3>3
  <2>3. \/ UNCHANGED cpu
        \/ cpu' = [cpu EXCEPT ![c] = Pop(@)]
        \/ cpu' = [cpu EXCEPT ![c].sie = 0]
    BY <1>3 DEF Start, Return, CallYield
  <2>4. CalmProc
    BY <1>3, CalmSame DEF Start, Return, CallYield
  <2> QED
    BY <1>cpus, <2>2, <2>3, <2>4 DEF Waking
<1>4. ASSUME NEW call, NEW arg,
             NEW label \in {"exit", "wait_enter", "await_enter", "fork", "kill",
                            "setkilled"},
             Call(c, call, label, arg)
      PROVE  WakeInv'
  <2>1. [AtPc(label) EXCEPT !.arg = arg, !.before = 1].pc = label
    BY DEF AtPc
  <2>2. OnlyMine(c) /\ thread'[Me(c)].pc = label
    BY <1>4, <1>set, <2>1 DEF Call
  <2> QED
    BY <1>4, <1>cpus, <2>2, CalmSame DEF Call, Waking
<1>goto. ASSUME NEW label \in {"reparent", "wait", "await", "yield_sched", "rewait",
                               "fork_parent", "fork_ready"}, Goto(c, label),
                \/ UNCHANGED cpu
                \/ cpu' = [cpu EXCEPT ![c] = Push(@)]
                \/ cpu' = [cpu EXCEPT ![c] = Pop(@)],
                CalmProc
         PROVE  WakeInv'
  BY <1>1, <1>goto, <1>cpus, GotoEffect DEF Waking
<1>fin. ASSUME Finish(c), UNCHANGED cpu \/ cpu' = [cpu EXCEPT ![c] = Pop(@)], CalmProc
        PROVE  WakeInv'
  BY <1>1, <1>fin, <1>cpus, FinishEffect DEF Waking
<1>5. CASE Exit(c) \/ WaitEnter(c) \/ AwaitEnter(c) \/ Rewait(c)
  BY <1>5, <1>goto, CalmSame DEF Exit, WaitEnter, AwaitEnter, Rewait
<1>6. CASE Yield(c)
  <2>1. CalmProc
    BY <1>1, <1>2, <1>6 DEF Yield, CalmProc, ProcType
  <2> QED
    BY <1>6, <1>goto, <2>1 DEF Yield
<1>7. CASE Slept(c)
  <2>1. CalmProc
    BY <1>1, <1>2, <1>7 DEF Slept, CalmProc, ProcType
  <2> QED
    BY <1>7, <1>goto, <2>1 DEF Slept
<1>8. CASE Yielded(c) \/ WaitFails(c) \/ Awaited(c)
  BY <1>8, <1>fin, CalmSame DEF Yielded, WaitFails, Awaited, WaitReturns
<1>9. CASE Kill(c)
  <2>1. CalmProc
    <3>1. CASE proc' = [proc EXCEPT ![My(c).j] = Killed(proc[My(c).j])]
      <4>1. /\ proc[My(c).j] \in ProcType
            /\ Killed(proc[My(c).j]).state \in {proc[My(c).j].state, "RUNNABLE"}
            /\ Killed(proc[My(c).j]).chan = proc[My(c).j].chan
            /\ Killed(proc[My(c).j]).parent = proc[My(c).j].parent
        BY <1>1, <1>2 DEF ProcType, Killed
      <4> QED
        BY <1>2, <3>1, <4>1 DEF CalmProc
    <3> QED
      BY <1>9, <3>1, CalmSame DEF Kill
  <2>2. CASE thread' = [thread EXCEPT ![Me(c)].j = My(c).j + 1]
    <3>1. /\ OnlyMine(c)
          /\ thread'[Me(c)] = [My(c) EXCEPT !.j = My(c).j + 1]
      BY <2>2, <1>1, <1>2 DEF OnlyMine
    <3>2. thread'[Me(c)].pc = My(c).pc
      BY <3>1, <1>1, <1>2 DEF ThreadType
    <3> QED
      BY <1>1, <1>9, <1>cpus, <2>1, <3>1, <3>2 DEF Kill
  <2> QED
    BY <1>9, <1>fin, <2>1, <2>2 DEF Kill
<1>10. CASE Setkilled(c)
  <2>1. PICK q : proc' = [proc EXCEPT ![q] = [proc[q] EXCEPT !.killed = TRUE]]
    BY <1>10 DEF Setkilled
  <2>2. q \in Slots => /\ [proc[q] EXCEPT !.killed = TRUE].state = proc[q].state
                       /\ [proc[q] EXCEPT !.killed = TRUE].chan = proc[q].chan
                       /\ [proc[q] EXCEPT !.killed = TRUE].parent = proc[q].parent
    BY <1>2 DEF ProcType
  <2>3. CalmProc
    BY <2>1, <2>2, CalmRow
  <2> QED
    BY <1>10, <1>fin, <2>3 DEF Setkilled
<1>11. CASE ForkSlot(c)
  <2>1. CASE UNCHANGED <<proc, cpu>> /\ Finish(c)
    BY <1>fin, <2>1, CalmSame
  <2>2. CASE /\ UNCHANGED <<proc, cpu>>
             /\ thread' = [thread EXCEPT ![Me(c)].j = My(c).j + 1]
    <3>1. /\ OnlyMine(c)
          /\ thread'[Me(c)] = [My(c) EXCEPT !.j = My(c).j + 1]
      BY <2>2, <1>1, <1>2 DEF OnlyMine
    <3>2. thread'[Me(c)].pc = My(c).pc
      BY <3>1, <1>1, <1>2 DEF ThreadType
    <3> QED
      BY <1>1, <1>cpus, <2>2, <3>1, <3>2, CalmSame
  <2>3. CASE /\ proc[My(c).j].state = "UNUSED"
             /\ proc' = [proc EXCEPT ![My(c).j] = Made(My(c).j, next_pid)]
    <3> DEFINE j == My(c).j
    <3>1. Made(j, next_pid).state = "USED"
      BY <1>1, <1>2 DEF Made, ProcType
    <3>2. CalmProc
      BY <1>1, <2>3, <3>1, CalmRow
    <3>3. CASE Finish(c) /\ UNCHANGED cpu
      BY <1>fin, <3>2, <3>3
    <3>4. CASE /\ cpu' = [cpu EXCEPT ![c] = Push(@)]
               /\ thread' = [thread EXCEPT
                    ![j] = AtPc("born"),
                    ![Me(c)] = [@ EXCEPT !.pc = "fork_copy", !.j = 0, !.arg = j]]
      <4>1. \A d \in Cpus : cpu[d].on # j
        BY <1>1, <2>3, Constants DEF Inv, RunInv, OnCpu, OnCpuOf, Switching
      <4>2. j # Me(c)
        BY <4>1 DEF Me
      <4> DEFINE r == [My(c) EXCEPT !.pc = "fork_copy", !.j = 0, !.arg = j]
      <4>3. thread' = [thread EXCEPT ![j] = AtPc("born"), ![Me(c)] = r]
        BY <1>1, <3>4, <4>2
      <4>4. r.pc = "fork_copy"
        BY <1>1, <1>2 DEF ThreadType
      <4> HIDE DEF r
      <4>5. /\ thread'[Me(c)] = r
            /\ \A q \in Slots \ {j, Me(c)} : thread'[q] = thread[q]
        BY <1>1, <1>2, <4>2, <4>3
      <4>6. \A d \in Cpus \ {c} : cpu[d].on # NoProc =>
               cpu[d].on \in Slots \ {j, Me(c)}
        BY <4>1, OnCpuType DEF Inv, RunInv, OneCpuPerProcess, Me
      <4>7. SameCpus
        BY <3>4, CpuKept
      <4>8. CalmThread(c)
        BY <1>1, <4>4, <4>5, <4>6, <4>7 DEF CalmThread, OthersRun, SameCpus, Me, Waking
      <4> QED
        BY <3>2, <4>8, CalmStep
    <3> QED
      BY <1>11, <2>3, <3>3, <3>4 DEF ForkSlot
  <2> QED
    BY <1>11, <2>1, <2>2, <2>3 DEF ForkSlot
<1>12. CASE ForkCopy(c) \/ ForkParent(c) \/ ForkReady(c)
  <2>1. My(c).arg \in Slots /\ proc[My(c).arg].state = "USED"
    BY <1>1, <1>12 DEF ForkCopy, ForkParent, ForkReady, At, My, Forking
  <2>2. CalmProc
    <3>1. CASE ForkCopy(c)
      <4>1. free_process(proc[My(c).arg]).state = "UNUSED"
        BY <1>2, <2>1 DEF ProcType, free_process
      <4> QED
        BY <2>1, <3>1, <4>1, CalmRow, CalmSame DEF ForkCopy
    <3>2. CASE ForkParent(c)
      <4>1. \A x : [proc[My(c).arg] EXCEPT !.parent = x].state = "USED"
        BY <1>2, <2>1 DEF ProcType
      <4>2. PICK r : proc' = [proc EXCEPT ![My(c).arg] = r] /\ r.state = "USED"
        BY <3>2, <4>1 DEF ForkParent
      <4> QED
        BY <2>1, <4>2, CalmRow
    <3>3. CASE ForkReady(c)
      <4>1. [proc[My(c).arg] EXCEPT !.state = "RUNNABLE"].state = "RUNNABLE"
        BY <1>2, <2>1 DEF ProcType
      <4>2. PICK r : proc' = [proc EXCEPT ![My(c).arg] = r] /\ r.state = "RUNNABLE"
        BY <3>3, <4>1 DEF ForkReady
      <4> QED
        BY <2>1, <4>2, CalmRow
    <3> QED
      BY <1>12, <3>1, <3>2, <3>3
  <2>3. CASE ForkCopy(c)
    BY <1>fin, <1>goto, <2>2, <2>3 DEF ForkCopy
  <2>4. CASE ForkParent(c) \/ ForkReady(c)
    BY <1>fin, <1>goto, <2>2, <2>4 DEF ForkParent, ForkReady
  <2> QED
    BY <1>12, <2>3, <2>4
<1>13. CASE InitExits(c)
  BY <1>1, <1>13, <1>cpus, CalmSame DEF InitExits, OnlyMine
<1> QED
  BY <1>3, <1>4, <1>5, <1>6, <1>7, <1>8, <1>9, <1>10, <1>11, <1>12, <1>13
     DEF CallExit, CallWait, CallAwait, CallFork, CallKill, CallSetkilled

\* Who holds wait_lock is alone in what it protects.
LEMMA Alone ==
  ASSUME TypeOK, LockInv, NEW c \in Cpus, cpu[c].on # NoProc, My(c).pc \in HoldsWait,
         NEW d \in Cpus, d # c, cpu[d].on # NoProc
  PROVE  My(d).pc \notin HoldsWait
<1>1. \A e \in Cpus : cpu[e].on # NoProc /\ My(e).pc \in HoldsWait =>
        locks[WaitLock] = e
  BY HeldNow, LockNames DEF LockInv, CpuOk, HoldsOne
<1> QED
  BY <1>1

\* So a step of its own is all that matters to the wakeups on their way.
LEMMA AloneStep ==
  ASSUME TypeOK, Inv, LockInv, NEW c \in Cpus, cpu[c].on # NoProc,
         My(c).pc \in HoldsWait, SameCpus, OnlyMine(c),
         \A p \in Slots : SleepsOnSelf(p)',
         \A p \in Slots : proc'[p].state = "SLEEPING" /\ ZombieChild(p)' =>
           /\ thread'[Me(c)].pc = "reparent_wake"
           /\ thread'[Me(c)].arg = p /\ thread'[Me(c)].j <= p,
         ParentIsTold(c)', LooksFirst(c)'
  PROVE  WakeInv'
<1>1. cpu'[c].on # NoProc /\ My(c)' = thread'[Me(c)]
  BY DEF SameCpus, My, Me
<1>2. \A p \in Slots : WokenInTime(p)'
  BY <1>1 DEF WokenInTime
<1>3. \A d \in Cpus : cpu[d].on # NoProc => cpu[d].on \in Slots
  BY OnCpuType
<1>4. ASSUME NEW d \in Cpus, d # c, cpu'[d].on # NoProc
      PROVE  My(d)'.pc \notin HoldsWait
  <2>1. cpu[d].on # NoProc /\ cpu[d].on \in Slots /\ cpu[d].on # Me(c)
    BY <1>3, <1>4 DEF SameCpus, Inv, RunInv, OneCpuPerProcess, Me
  <2>2. My(d)' = My(d)
    BY <2>1 DEF SameCpus, OnlyMine, My
  <2> QED
    BY <1>4, <2>1, <2>2, Alone
<1>5. \A d \in Cpus : d # c => ParentIsTold(d)' /\ LooksFirst(d)'
  BY <1>4 DEF ParentIsTold, LooksFirst, HoldsWait
<1> QED
  BY <1>2, <1>5 DEF WakeInv

\* Before such a step nobody sleeps beside a dead child, but whom the step wakes.
LEMMA NobodyMissed ==
  ASSUME TypeOK, LockInv, WakeInv, NEW c \in Cpus, cpu[c].on # NoProc,
         My(c).pc \in HoldsWait,
         NEW p \in Slots, proc[p].state = "SLEEPING", ZombieChild(p)
  PROVE  My(c).pc = "reparent_wake" /\ My(c).arg = p /\ My(c).j <= p
<1>1. PICK d \in Cpus : /\ cpu[d].on # NoProc /\ My(d).pc = "reparent_wake"
                        /\ My(d).arg = p /\ My(d).j <= p
  BY DEF WakeInv, WokenInTime
<1>2. d = c
  BY <1>1, Alone DEF HoldsWait
<1> QED
  BY <1>1, <1>2

LEMMA AwaitWakes ==
  ASSUME TypeOK, Inv, LockInv, WakeInv, NEW c \in Cpus,
         AwaitMore(c) \/ AwaitKilled(c) \/ Sleep(c) \/ BecomeZombie(c)
  PROVE  WakeInv'
<1>1. /\ cpu[c].on # NoProc /\ Me(c) \in Slots /\ My(c) = thread[Me(c)]
      /\ My(c).pc \in {"await", "await_killed", "sleep", "exit_lock"}
      /\ proc \in [Slots -> ProcType] /\ proc[Me(c)] \in ProcType
  BY OnCpuType DEF AwaitMore, AwaitKilled, Sleep, BecomeZombie, At, My, Me, TypeOK,
                   ProcType
<1>2. \A p \in Slots : ~(proc[p].state = "SLEEPING" /\ ZombieChild(p))
  BY <1>1, NobodyMissed DEF HoldsWait
<1>3. SameCpus
  BY CpuKept DEF AwaitMore, AwaitKilled, WaitReturns, Sleep, BecomeZombie
<1>4. PICK label \in {"await_killed", "return", "sleep", "sleep_sched", "exit_sched"} :
        /\ OnlyMine(c) /\ thread'[Me(c)].pc = label
        /\ label = "await_killed" <=> AwaitMore(c)
        /\ label = "sleep" => AwaitKilled(c)
  <2>1. CASE AwaitMore(c)
    BY <1>1, <2>1, GotoEffect DEF AwaitMore
  <2>2. CASE AwaitKilled(c)
    BY <1>1, <2>2, GotoEffect, FinishEffect DEF AwaitKilled, WaitReturns, AwaitMore, At
  <2>3. CASE Sleep(c) \/ BecomeZombie(c)
    BY <1>1, <2>3, GotoEffect DEF Sleep, BecomeZombie, AwaitMore, At
  <2> QED
    BY <2>1, <2>2, <2>3
<1>5. Me(c)' = Me(c) /\ My(c)'.pc = label
  BY <1>3, <1>4 DEF SameCpus, Me, My
<1>6. ParentIsTold(c)'
  BY <1>4, <1>5 DEF ParentIsTold
<1>7. CASE AwaitMore(c) \/ AwaitKilled(c)
  <2>1. UNCHANGED proc
    BY <1>7 DEF AwaitMore, AwaitKilled, WaitReturns
  <2>2. label \in {"await_killed", "sleep"} => ~ZombieChild(Me(c))
    BY <1>1, <1>4 DEF AwaitMore, AwaitKilled, WakeInv, LooksFirst, At, My
  <2>3. \A p \in Slots : ZombieChild(p)' = ZombieChild(p)
    BY <2>1 DEF ZombieChild
  <2>4. LooksFirst(c)'
    BY <1>1, <1>5, <2>2, <2>3 DEF LooksFirst
  <2>5. \A p \in Slots : SleepsOnSelf(p)'
    BY <2>1 DEF WakeInv, SleepsOnSelf
  <2> QED
    BY <1>1, <1>2, <1>3, <1>4, <1>6, <2>1, <2>3, <2>4, <2>5, AloneStep DEF HoldsWait
<1>8. CASE Sleep(c)
  <2>1. My(c).pc = "sleep" /\ ~ZombieChild(Me(c)) /\ label \notin {"await_killed", "sleep"}
    BY <1>1, <1>4, <1>8 DEF Sleep, At, My, WakeInv, LooksFirst, AwaitMore, AwaitKilled
  <2>2. /\ proc'[Me(c)].state = "SLEEPING" /\ proc'[Me(c)].chan = Me(c)
        /\ \A q \in Slots \ {Me(c)} : proc'[q] = proc[q]
    BY <1>1, <1>8 DEF Sleep, ProcType
  <2>3. ASSUME NEW p \in Slots, ZombieChild(p)' PROVE ZombieChild(p)
    <3>1. PICK q \in Slots : proc'[q].parent = p /\ proc'[q].state = "ZOMBIE"
      BY <2>3 DEF ZombieChild
    <3>2. q # Me(c)
      BY <2>2, <3>1
    <3> QED
      BY <2>2, <3>1, <3>2 DEF ZombieChild
  <2>4. \A p \in Slots : SleepsOnSelf(p)'
    BY <2>2 DEF WakeInv, SleepsOnSelf
  <2>5. \A p \in Slots : ~(proc'[p].state = "SLEEPING" /\ ZombieChild(p)')
    BY <1>2, <2>1, <2>2, <2>3
  <2>6. LooksFirst(c)'
    BY <1>5, <2>1 DEF LooksFirst
  <2> QED
    BY <1>1, <1>3, <1>4, <1>6, <2>4, <2>5, <2>6, AloneStep DEF HoldsWait
<1>9. CASE BecomeZombie(c)
  <2>1. /\ My(c).pc = "exit_lock" /\ label \notin {"await_killed", "sleep"}
        /\ proc[Me(c)].parent # NoProc => proc[proc[Me(c)].parent].state # "SLEEPING"
    BY <1>1, <1>4, <1>9
       DEF BecomeZombie, At, My, WakeInv, ParentIsTold, AwaitMore, AwaitKilled
  <2>2. /\ proc'[Me(c)].state = "ZOMBIE" /\ proc'[Me(c)].parent = proc[Me(c)].parent
        /\ \A q \in Slots \ {Me(c)} : proc'[q] = proc[q]
    BY <1>1, <1>9 DEF BecomeZombie, ProcType
  <2>3. \A p \in Slots : SleepsOnSelf(p)'
    BY <2>2 DEF WakeInv, SleepsOnSelf
  <2>4. ASSUME NEW p \in Slots, proc'[p].state = "SLEEPING", ZombieChild(p)' PROVE FALSE
    <3>1. p # Me(c) /\ proc[p].state = "SLEEPING" /\ p # NoProc
      BY <2>2, <2>4, Constants
    <3>2. PICK q \in Slots : proc'[q].parent = p /\ proc'[q].state = "ZOMBIE"
      BY <2>4 DEF ZombieChild
    <3>3. q # Me(c)
      BY <2>1, <2>2, <3>1, <3>2
    <3> QED
      BY <1>2, <2>2, <3>1, <3>2, <3>3 DEF ZombieChild
  <2>5. LooksFirst(c)'
    BY <1>5, <2>1 DEF LooksFirst
  <2> QED
    BY <1>1, <1>3, <1>4, <1>6, <2>3, <2>4, <2>5, AloneStep DEF HoldsWait
<1> QED
  BY <1>7, <1>8, <1>9

LEMMA ReparentWakes ==
  ASSUME TypeOK, Inv, LockInv, WakeInv, NEW c \in Cpus, Reparent(c)
  PROVE  WakeInv'
<1>1. /\ cpu[c].on # NoProc /\ Me(c) \in Slots /\ My(c) = thread[Me(c)]
      /\ My(c).pc = "reparent" /\ UNCHANGED cpu
      /\ proc \in [Slots -> ProcType]
      /\ thread \in [Slots -> ThreadType] /\ My(c) \in ThreadType
  BY Zenon, OnCpuType DEF Reparent, At, My, Me, TypeOK, ProcType, ThreadType
<1>2. \A p \in Slots : ~(proc[p].state = "SLEEPING" /\ ZombieChild(p))
  BY <1>1, NobodyMissed DEF HoldsWait
<1>3. SameCpus /\ Me(c)' = Me(c) /\ My(c)' = thread'[Me(c)]
  BY <1>1, CpuKept DEF Me, My
<1>4. CASE \E kid \in Slots :
             /\ proc' = [proc EXCEPT ![kid].parent = init_proc]
             /\ thread' = [thread EXCEPT ![Me(c)] =
                  [My(c) EXCEPT !.pc = "reparent_wake", !.i = kid + 1, !.j = 0,
                                !.arg = init_proc]]
  <2>1. PICK kid \in Slots :
          /\ proc' = [proc EXCEPT ![kid].parent = init_proc]
          /\ thread' = [thread EXCEPT ![Me(c)] =
               [My(c) EXCEPT !.pc = "reparent_wake", !.i = kid + 1, !.j = 0,
                             !.arg = init_proc]]
    BY <1>4
  <2>2. /\ OnlyMine(c)
        /\ thread'[Me(c)] = [My(c) EXCEPT !.pc = "reparent_wake", !.i = kid + 1, !.j = 0,
                                          !.arg = init_proc]
    BY <1>1, <2>1 DEF OnlyMine
  <2>3. /\ thread'[Me(c)].pc = "reparent_wake" /\ thread'[Me(c)].j = 0
        /\ thread'[Me(c)].arg = init_proc
    BY <1>1, <2>2 DEF ThreadType
  <2>4. \A q \in Slots :
          /\ proc'[q].state = proc[q].state /\ proc'[q].chan = proc[q].chan
          /\ proc'[q].parent \in {proc[q].parent, init_proc}
    BY <1>1, <2>1 DEF ProcType
  <2>5. \A p \in Slots : SleepsOnSelf(p)'
    BY <2>4 DEF WakeInv, SleepsOnSelf
  <2>6. ASSUME NEW p \in Slots, proc'[p].state = "SLEEPING", ZombieChild(p)'
        PROVE  p = init_proc /\ 0 <= p
    <3>1. PICK q \in Slots : proc'[q].parent = p /\ proc'[q].state = "ZOMBIE"
      BY <2>6 DEF ZombieChild
    <3>2. p = init_proc
      BY <1>2, <2>4, <2>6, <3>1 DEF ZombieChild
    <3> QED
      BY <3>2, NprocAssumption DEF Slots
  <2>7. ParentIsTold(c)' /\ LooksFirst(c)'
    BY <1>3, <2>3 DEF ParentIsTold, LooksFirst
  <2> QED
    BY <1>1, <1>3, <2>2, <2>3, <2>5, <2>6, <2>7, AloneStep DEF HoldsWait
<1>5. CASE /\ UNCHANGED proc
           /\ thread' = [thread EXCEPT ![Me(c)] =
                [My(c) EXCEPT !.pc = "exit_wake", !.i = 0, !.j = 0,
                              !.arg = proc[Me(c)].parent]]
  <2>1. /\ OnlyMine(c)
        /\ thread'[Me(c)] = [My(c) EXCEPT !.pc = "exit_wake", !.i = 0, !.j = 0,
                                          !.arg = proc[Me(c)].parent]
    BY <1>1, <1>5 DEF OnlyMine
  <2>2. /\ thread'[Me(c)].pc = "exit_wake" /\ thread'[Me(c)].j = 0
        /\ thread'[Me(c)].arg = proc[Me(c)].parent
    BY <1>1, <2>1 DEF ThreadType
  <2>3. \A p \in Slots : ZombieChild(p)' = ZombieChild(p) /\ SleepsOnSelf(p)'
    BY <1>5 DEF ZombieChild, WakeInv, SleepsOnSelf
  <2>4. proc[Me(c)].parent # NoProc => 0 <= proc[Me(c)].parent
    BY <1>1, Constants, NprocAssumption DEF ProcType, Slots
  <2>5. ParentIsTold(c)' /\ LooksFirst(c)'
    BY <1>3, <1>5, <2>2, <2>4 DEF ParentIsTold, LooksFirst
  <2> QED
    BY <1>1, <1>2, <1>3, <1>5, <2>1, <2>3, <2>5, AloneStep DEF HoldsWait
<1> QED
  BY Zenon, <1>1, <1>4, <1>5 DEF Reparent

LEMMA WakeupWakes ==
  ASSUME TypeOK, Inv, LockInv, WakeInv, NEW c \in Cpus, Wakeup(c)
  PROVE  WakeInv'
<1>1. PICK label \in {"reparent_wake", "exit_wake"}, next \in {"reparent", "exit_lock"} :
        /\ WakeSlot(c, label, next)
        /\ label = "exit_wake" <=> next = "exit_lock"
  BY DEF Wakeup
<1> DEFINE j == My(c).j
           t == IF j + 1 < NPROC THEN [My(c) EXCEPT !.j = j + 1]
                ELSE [My(c) EXCEPT !.pc = next, !.j = 0, !.arg = NoProc]
<1>2. /\ cpu[c].on # NoProc /\ Me(c) \in Slots /\ My(c) = thread[Me(c)]
      /\ My(c).pc = label /\ UNCHANGED cpu
      /\ proc \in [Slots -> ProcType]
      /\ thread \in [Slots -> ThreadType] /\ My(c) \in ThreadType /\ j \in Slots
      /\ thread' = [thread EXCEPT ![Me(c)] = t]
  BY <1>1, OnCpuType DEF WakeSlot, At, My, Me, TypeOK, ProcType, ThreadType
<1>3. SameCpus /\ Me(c)' = Me(c) /\ My(c)' = thread'[Me(c)]
  BY <1>2, CpuKept DEF Me, My
<1>4. OnlyMine(c) /\ thread'[Me(c)] = t
  BY <1>2 DEF OnlyMine
<1>5. /\ j + 1 < NPROC => t.pc = label /\ t.j = j + 1 /\ t.arg = My(c).arg
      /\ ~(j + 1 < NPROC) => t.pc = next
  BY <1>2 DEF ThreadType
<1> HIDE DEF t
<1>6. /\ \A q \in Slots : /\ proc'[q].parent = proc[q].parent
                          /\ proc'[q].chan = proc[q].chan
                          /\ proc'[q].state = "SLEEPING" => proc[q].state = "SLEEPING"
                          /\ proc'[q].state = "ZOMBIE" => proc[q].state = "ZOMBIE"
      /\ proc'[j].state = "SLEEPING" => proc[j].chan # My(c).arg
  BY <1>1, <1>2 DEF WakeSlot, ProcType
<1>7. ASSUME NEW p \in Slots, p = My(c).arg, j <= p, proc'[p].state = "SLEEPING"
      PROVE  j + 1 < NPROC /\ j + 1 <= p
  <2>1. p # j
    BY <1>6, <1>7 DEF WakeInv, SleepsOnSelf
  <2> QED
    BY <1>2, <1>7, <2>1, NprocAssumption DEF Slots
<1>8. \A p \in Slots : SleepsOnSelf(p)'
  BY <1>6 DEF WakeInv, SleepsOnSelf
<1>9. ASSUME NEW p \in Slots, proc'[p].state = "SLEEPING", ZombieChild(p)'
      PROVE  t.pc = "reparent_wake" /\ t.arg = p /\ t.j <= p
  <2>1. proc[p].state = "SLEEPING" /\ ZombieChild(p)
    BY <1>6, <1>9 DEF ZombieChild
  <2>2. My(c).pc = "reparent_wake" /\ My(c).arg = p /\ My(c).j <= p
    BY <1>2, <2>1, NobodyMissed DEF HoldsWait
  <2> QED
    BY <1>2, <1>5, <1>7, <1>9, <2>2
<1>10. ParentIsTold(c)'
  <2>1. CASE label = "reparent_wake"
    BY <1>1, <1>3, <1>4, <1>5, <2>1 DEF ParentIsTold
  <2>2. CASE label = "exit_wake"
    <3>1. /\ My(c).arg = proc[Me(c)].parent
          /\ (My(c).arg # NoProc /\ proc[My(c).arg].state = "SLEEPING")
                => My(c).j <= My(c).arg
      BY <1>2, <2>2 DEF WakeInv, ParentIsTold
    <3>2. My(c).arg # NoProc => My(c).arg \in Slots
      BY <1>2, <3>1, Constants DEF ProcType
    <3>3. My(c).arg # NoProc /\ proc'[My(c).arg].state = "SLEEPING" =>
            j + 1 < NPROC /\ j + 1 <= My(c).arg
      BY <1>6, <1>7, <3>1, <3>2
    <3>4. CASE j + 1 < NPROC
      BY <1>2, <1>3, <1>4, <1>5, <1>6, <2>2, <3>1, <3>3, <3>4 DEF ParentIsTold
    <3>5. CASE ~(j + 1 < NPROC)
      BY <1>1, <1>2, <1>3, <1>4, <1>5, <1>6, <2>2, <3>1, <3>3, <3>5 DEF ParentIsTold
    <3> QED
      BY <3>4, <3>5
  <2> QED
    BY <2>1, <2>2
<1>11. LooksFirst(c)'
  BY <1>1, <1>3, <1>4, <1>5 DEF LooksFirst
<1> QED
  BY <1>2, <1>3, <1>4, <1>8, <1>9, <1>10, <1>11, AloneStep DEF HoldsWait

LEMMA WakeInvInit == Init => WakeInv
BY DEF Init, InitCpu, UnusedProc, WakeInv, SleepsOnSelf, WokenInTime, ParentIsTold,
       LooksFirst

LEMMA WakeInvNext ==
  ASSUME "return" \notin Calls, TypeOK, Inv, LockInv, WakeInv, [Next]_vars
  PROVE  WakeInv'
<1>1. ASSUME NEW c \in Cpus, SchedulerStep(c) PROVE WakeInv'
  BY <1>1, CalmScheduler
<1>2. ASSUME NEW c \in Cpus, KernelStep(c) PROVE WakeInv'
  BY <1>2, CalmScheduler, CalmCalls, AwaitWakes, ReparentWakes, WakeupWakes,
     NoAcquirePanic DEF KernelStep
<1>3. ASSUME NEW c \in Cpus, CallYield(c) \/ ProcessCalls(c) PROVE WakeInv'
  <2>1. ~TaskReturns(c)
    BY DEF TaskReturns
  <2> QED
    BY <1>3, <2>1, CalmCalls DEF ProcessCalls
<1>4. CASE UNCHANGED vars
  <2>1. \A p \in Slots : /\ SleepsOnSelf(p)' = SleepsOnSelf(p)
                         /\ ZombieChild(p)' = ZombieChild(p)
    BY <1>4 DEF vars, SleepsOnSelf, ZombieChild
  <2>2. \A c \in Cpus : cpu'[c] = cpu[c] /\ My(c)' = My(c) /\ Me(c)' = Me(c)
    BY <1>4 DEF vars, My, Me
  <2> QED
    BY <1>4, <2>1, <2>2 DEF vars, WakeInv, WokenInTime, ParentIsTold, LooksFirst,
       ZombieChild
<1> QED
  BY <1>1, <1>2, <1>3, <1>4 DEF Next

LEMMA NatHasMin ==
  ASSUME NEW T, T \subseteq Nat, T # {}
  PROVE  \E x \in T : \A y \in T : x <= y
<1> DEFINE R == OpToRel(<, Nat)
<1>1. \A x, y \in Nat : x < y => <<x, y>> \in R
  BY DEF OpToRel
<1>2. PICK x \in T : \A y \in T : ~(<<y, x>> \in R)
  BY NatLessThanWellFounded, WFMin
<1> HIDE DEF R
<1>3. ASSUME NEW y \in T PROVE x <= y
  <2>1. x \in Nat /\ y \in Nat /\ ~(y < x)
    BY <1>1, <1>2
  <2> QED
    BY <2>1
<1> QED
  BY <1>3

\* No CPUs wait in a circle: each would hold a lock that comes before the one it waits
\* for, and there is a last lock among those they wait for.
LEMMA NoCircles == ASSUME TypeOK, Inv, LockInv PROVE NoCircularWait
<1> SUFFICES ASSUME NEW S \in (SUBSET Cpus) \ {{}},
                    \A c \in S : Wants(c) # NoLock /\ locks[Wants(c)] \in S
             PROVE  FALSE
  BY DEF NoCircularWait
<1> DEFINE After(l) == IF l = WaitLock THEN NPROC ELSE NPROC - 1 - l
           T == {After(Wants(c)) : c \in S}
<1>1. ASSUME NEW c \in S
      PROVE  /\ InOrder(c)
             /\ Wants(c) \in Slots \cup {WaitLock}
             /\ After(Wants(c)) \in Nat
  <2>1. InOrder(c)
    BY WantsInOrder
  <2>2. Wants(c) \in Slots \cup {WaitLock}
    BY <2>1 DEF InOrder, Locks
  <2> QED
    BY <2>1, <2>2, NprocAssumption DEF Slots
<1>2. PICK n \in T : \A i \in T : n <= i
  <2>1. PICK c \in S : TRUE
    OBVIOUS
  <2>2. T \subseteq Nat /\ After(Wants(c)) \in T
    BY <1>1
  <2> HIDE DEF T
  <2> QED
    BY <2>2, NatHasMin
<1>3. PICK c \in S : n = After(Wants(c))
  BY <1>2
<1>4. PICK d \in S : locks[Wants(c)] = d
  OBVIOUS
<1>5. HeldLock(d) = Wants(c)
  BY <1>1, <1>4 DEF InOrder, LockInv, CpuOk, HoldsOne
<1>6. Before(Wants(c), Wants(d))
  BY <1>1, <1>5 DEF InOrder
<1>7. After(Wants(d)) < After(Wants(c))
  BY <1>1, <1>6, LockNames, NprocAssumption DEF Before, Slots
<1> QED
  BY <1>1, <1>2, <1>3, <1>7

LEMMA NoLostWakeups == ASSUME TypeOK, LockInv, WakeInv PROVE NoLostWakeup
<1> SUFFICES ASSUME locks[WaitLock] = Free, NEW p \in Slots,
                    proc[p].state = "SLEEPING", ZombieChild(p)
             PROVE  FALSE
  BY DEF NoLostWakeup
<1>1. PICK c \in Cpus : cpu[c].on # NoProc /\ My(c).pc = "reparent_wake"
  BY DEF WakeInv, WokenInTime
<1>2. HeldLock(c) = WaitLock
  BY <1>1, HeldNow DEF HoldsWait
<1>3. locks[WaitLock] = c
  BY <1>2, LockNames DEF LockInv, CpuOk, HoldsOne
<1> QED
  BY <1>3, CpusAssumption

\* But for the two ways the code has to keep a lock for ever, a fork() that runs out
\* of memory in uvmcopy() and a kernel task that returns, no CPUs wait for each other in
\* a circle of any length, and no process sleeps in wait() with a child that has exited,
\* for any number of CPUs and processes.
THEOREM WaitersCorrect ==
  ASSUME "uvmcopy" \notin Failures, "return" \notin Calls
  PROVE  Spec => []NobodyWaitsForEver
<1>1. Init => WakeInv
  BY WakeInvInit
<1>2. /\ WakeInv /\ TypeOK /\ Inv /\ LockInv /\ [Next]_vars => WakeInv'
  BY WakeInvNext
<1>3. TypeOK /\ Inv /\ LockInv /\ WakeInv => NobodyWaitsForEver
  BY NoCircles, NoLostWakeups DEF NobodyWaitsForEver
<1>4. Spec => [](TypeOK /\ Inv /\ LockInv)
  BY LockInvCorrect
<1> QED
  BY <1>1, <1>2, <1>3, <1>4, PTL DEF Spec

-----------------------------------------------------------------------------
(***************************************************************************)
(* The panics.                                                             *)
(***************************************************************************)
\* The assertions of sched() about locks: only the two cases left out fail them.
THEOREM SchedLocksCorrect ==
  ASSUME "uvmcopy" \notin Failures, "return" \notin Calls
  PROVE  Spec => [](SchedHoldsProcLock /\ SchedHoldsOneLock)
<1>1. LockInv => SchedHoldsProcLock /\ SchedHoldsOneLock
  BY DEF LockInv, CpuOk, NoLockPanic, SchedHoldsProcLock, SchedHoldsOneLock
<1> QED
  BY <1>1, LockInvCorrect, PTL

\* main() finds the table empty, and the first process, if there is one, is made first.
InitMade ==
  \A n \in 1..Len(BootProcs) :
    BootProcs[n] = "init" => n = 1 /\ "make_proc" \notin Failures

BootInv ==
  \A c \in Cpus :
    /\ cpu[c].pc = "boot" =>
         /\ c = BootCpu
         /\ cpu[c].scan = 0 => \A p \in Slots : proc[p].state = "UNUSED"
    /\ cpu[c].panic \notin {"no first process", "init proc exiting"}

\* After main() no CPU boots again.
LEMMA BootOver ==
  ASSUME TypeOK, Inv, BootInv, NEW c \in Cpus,
         cpu[c].on # NoProc \/ cpu[c].pc \in {"scan", "switched"},
         \A d \in Cpus \ {c} : cpu'[d] = cpu[d],
         cpu'[c].pc \in {cpu[c].pc, "scan", "switched"},
         cpu'[c].panic = cpu[c].panic
  PROVE  BootInv'
<1>1. \A d \in Cpus : cpu[d].pc # "boot"
  BY DEF Inv, RunInv, Booting
<1>2. \A d \in Cpus : cpu'[d].pc # "boot"
  BY <1>1
<1> QED
  BY <1>2 DEF BootInv

LEMMA BootInvNext ==
  ASSUME "return" \notin Calls, "init_exit" \notin Calls, InitMade,
         TypeOK, Inv, LockInv, BootInv, [Next]_vars
  PROVE  BootInv'
<1>1. cpu \in [Cpus -> CpuType] /\ proc \in [Slots -> ProcType]
  BY DEF TypeOK, CpuType, ProcType
<1>2. ASSUME NEW c \in Cpus, Boot(c) \/ BootFails(c) PROVE BootInv'
  <2>1. /\ cpu[c].on = NoProc /\ cpu[c].pc = "boot" /\ c = BootCpu
        /\ cpu[c].scan \in Nat /\ cpu[c].scan < Len(BootProcs)
        /\ cpu[c].scan = 0 => \A p \in Slots : proc[p].state = "UNUSED"
    BY <1>1, <1>2 DEF Boot, BootFails, AtBoot, AtScheduler, BootInv, CpuType
  <2>2. cpu' = [cpu EXCEPT ![c].scan = cpu[c].scan + 1]
    <3>1. CASE Boot(c)
      BY <3>1 DEF Boot
    <3>2. CASE BootFails(c)
      <4> SUFFICES ASSUME BootKind(c) = "init" PROVE FALSE
        BY <3>2 DEF BootFails
      <4>1. cpu[c].scan = 0 /\ "make_proc" \notin Failures
        <5>1. BootProcs[cpu[c].scan + 1] = "init" /\ Len(BootProcs) \in Nat
          BY BootAssumption DEF BootKind
        <5>2. cpu[c].scan + 1 = 1 /\ "make_proc" \notin Failures
          BY <2>1, <5>1 DEF InitMade
        <5> QED
          BY <2>1, <5>2
      <4>2. 0 \in Unused
        BY <2>1, <4>1, Constants DEF Unused
      <4> QED
        BY <3>2, <4>1, <4>2 DEF BootFails
    <3> QED
      BY <1>2, <3>1, <3>2
  <2>3. /\ cpu'[c].pc = "boot" /\ cpu'[c].scan # 0 /\ cpu'[c].panic = cpu[c].panic
        /\ \A d \in Cpus \ {c} : cpu'[d] = cpu[d]
    BY <1>1, <2>1, <2>2 DEF CpuType
  <2> QED
    BY <2>1, <2>3 DEF BootInv
<1>3. ASSUME NEW c \in Cpus, StartSchedulers(c) PROVE BootInv'
  BY <1>3 DEF StartSchedulers, InitCpu, BootInv
<1>4. ASSUME NEW c \in Cpus, ScanSlot(c) \/ Dispatch(c) \/ Idle(c) \/ SchedulerResumes(c)
      PROVE  BootInv'
  <2>1. cpu[c].pc \in {"scan", "switched"} /\ cpu[c] \in CpuType
    BY <1>1, <1>4 DEF ScanSlot, Dispatch, Idle, SchedulerResumes, AtScheduler
  <2>2. /\ cpu'[c].pc \in {cpu[c].pc, "scan"} /\ cpu'[c].panic = cpu[c].panic
        /\ \A d \in Cpus \ {c} : cpu'[d] = cpu[d]
    <3>1. CASE ScanSlot(c)
      <4>1. PICK k \in {Push(cpu[c]), Pop(Push(cpu[c]))} :
              \E s, b : cpu' = [cpu EXCEPT ![c] = [k EXCEPT !.scan = s, !.best = b]]
        BY <3>1 DEF ScanSlot
      <4>2. k \in CpuType /\ k.pc = cpu[c].pc /\ k.panic = cpu[c].panic
        BY <1>1, <2>1, PushPopType, PushPopFields
      <4> QED
        BY <1>1, <4>1, <4>2 DEF CpuType
    <3>2. CASE Dispatch(c)
      BY <1>1, <3>2 DEF Dispatch, CpuType
    <3>3. CASE Idle(c)
      BY <1>1, <3>3 DEF Idle, CpuType
    <3>4. CASE SchedulerResumes(c)
      <4>1. PICK k : k = Pop(cpu[c])
        OBVIOUS
      <4>2. k \in CpuType /\ k.panic = cpu[c].panic
        BY <1>1, <2>1, <4>1, PushPopType, PushPopFields
      <4>3. cpu' = [cpu EXCEPT ![c] =
                      [k EXCEPT !.pc = "scan", !.proc = NoProc, !.best = NoProc,
                                !.scan = 0, !.sie = 1]]
        BY <3>4, <4>1 DEF SchedulerResumes
      <4> QED
        BY <1>1, <4>2, <4>3 DEF CpuType
    <3> QED
      BY <1>4, <3>1, <3>2, <3>3, <3>4
  <2> QED
    BY <2>1, <2>2, BootOver
<1>5. ASSUME NEW c \in Cpus, Sched(c) PROVE BootInv'
  <2>1. PICK from \in Switching, to \in {"yielded", "slept", "zombie"} :
          sched(c, from, to)
    BY <1>5 DEF Sched, Switching
  <2>2. cpu[c].on # NoProc /\ My(c).pc = from
    BY <2>1 DEF sched, At, My
  <2>3. SchedComplaint(c) = "no"
    BY <2>2, NoComplaint
  <2>4. cpu' = [cpu EXCEPT ![c] = [cpu[c] EXCEPT !.on = NoProc, !.pc = "switched"]]
    BY <2>1, <2>3 DEF sched
  <2>5. /\ cpu'[c].pc = "switched" /\ cpu'[c].panic = cpu[c].panic
        /\ \A d \in Cpus \ {c} : cpu'[d] = cpu[d]
    BY <1>1, <2>4 DEF CpuType
  <2> QED
    BY <2>2, <2>5, BootOver
<1>6. ASSUME NEW c \in Cpus, cpu[c].on # NoProc,
             \/ UNCHANGED cpu
             \/ cpu' = [cpu EXCEPT ![c] = Push(@)]
             \/ cpu' = [cpu EXCEPT ![c] = Pop(@)]
             \/ cpu' = [cpu EXCEPT ![c] = Pop(Push(@))]
             \/ cpu' = [cpu EXCEPT ![c].sie = 0]
             \/ cpu' = [cpu EXCEPT ![c].sie = 1]
      PROVE  BootInv'
  <2>1. cpu[c] \in CpuType /\ Push(cpu[c]) \in CpuType
    BY <1>1, PushPopType
  <2>2. PICK k : /\ k.pc = cpu[c].pc /\ k.panic = cpu[c].panic
                 /\ cpu' = [cpu EXCEPT ![c] = k]
    <3>1. CASE UNCHANGED cpu
      BY <1>1, <3>1
    <3>2. CASE \/ cpu' = [cpu EXCEPT ![c] = Push(@)]
               \/ cpu' = [cpu EXCEPT ![c] = Pop(@)]
      BY <2>1, <3>2, PushPopFields
    <3>3. CASE cpu' = [cpu EXCEPT ![c] = Pop(Push(@))]
      BY <2>1, <3>3, PushPopFields
    <3>4. CASE \/ cpu' = [cpu EXCEPT ![c].sie = 0]
               \/ cpu' = [cpu EXCEPT ![c].sie = 1]
      BY <2>1, <3>4 DEF CpuType
    <3> QED
      BY <1>6, <3>1, <3>2, <3>3, <3>4
  <2>3. /\ cpu'[c].pc = cpu[c].pc /\ cpu'[c].panic = cpu[c].panic
        /\ \A d \in Cpus \ {c} : cpu'[d] = cpu[d]
    BY <1>1, <2>2
  <2> QED
    BY <1>6, <2>3, BootOver
<1>7. ASSUME NEW c \in Cpus, KernelStep(c) PROVE BootInv'
  <2>1. ~AcquirePanic(c)
    BY NoAcquirePanic
  <2>2. CASE Sched(c)
    BY <1>5, <2>2
  <2>3. CASE ~Sched(c)
    <3>1. cpu[c].on # NoProc
      BY Zenon, <1>7, <2>1, <2>3
         DEF KernelStep, Start, Return, Yield, Yielded, Exit, Reparent, Wakeup, WakeSlot,
             BecomeZombie, WaitEnter, WaitFails, AwaitEnter, Awaited, AwaitMore,
             AwaitKilled, Sleep, Slept, Rewait, Kill, Setkilled, ForkSlot, ForkCopy,
             ForkParent, ForkReady, At
    <3>2. \/ UNCHANGED cpu
          \/ cpu' = [cpu EXCEPT ![c] = Push(@)]
          \/ cpu' = [cpu EXCEPT ![c] = Pop(@)]
          \/ cpu' = [cpu EXCEPT ![c] = Pop(Push(@))]
          \/ cpu' = [cpu EXCEPT ![c].sie = 0]
      BY Zenon, <1>7, <2>1, <2>3
         DEF KernelStep, Start, Return, Yield, Yielded, Exit, Reparent, Wakeup, WakeSlot,
             BecomeZombie, WaitEnter, WaitFails, WaitReturns, AwaitEnter, Awaited,
             AwaitMore, AwaitKilled, Sleep, Slept, Rewait, Kill, Setkilled, ForkSlot,
             ForkCopy, ForkParent, ForkReady
    <3> QED
      BY <1>6, <3>1, <3>2
  <2> QED
    BY <2>2, <2>3
<1>8. ASSUME NEW c \in Cpus, CallYield(c) \/ ProcessCalls(c) PROVE BootInv'
  <2>1. ~InitExits(c) /\ ~TaskReturns(c)
    BY DEF InitExits, TaskReturns
  <2>2. cpu[c].on # NoProc /\ (UNCHANGED cpu \/ cpu' = [cpu EXCEPT ![c].sie = 1])
    BY Zenon, <1>8, <2>1
       DEF CallYield, ProcessCalls, CallExit, CallWait, CallAwait, CallFork,
       CallKill, CallSetkilled, Call, At
  <2> QED
    BY <1>6, <2>2
<1>9. CASE UNCHANGED vars
  BY <1>9 DEF vars, BootInv
<1> QED
  BY <1>2, <1>3, <1>4, <1>7, <1>8, <1>9 DEF Next, SchedulerStep

\* sched() is only entered as it must be: with the lock of the process and no other,
\* with interrupts off; and the process gets its interrupt flag back, for any number
\* of CPUs and processes.  Left out are what panics by design (a first process that
\* exits or cannot be made) and the two ways to keep a lock for ever.
THEOREM SwitchCorrect ==
  ASSUME "uvmcopy" \notin Failures, "return" \notin Calls, "init_exit" \notin Calls,
         InitMade
  PROVE  Spec => []SwitchIsSound
<1>1. Init => BootInv
  <2> SUFFICES ASSUME Init, NEW c \in Cpus
               PROVE  /\ cpu[c].pc = "boot" => c = BootCpu
                      /\ \A p \in Slots : proc[p].state = "UNUSED"
                      /\ cpu[c].panic = "no"
    BY DEF BootInv
  <2>1. cpu[c] = InitCpu(IF c = BootCpu THEN "boot" ELSE "off")
    BY DEF Init
  <2>2. cpu[c].pc = (IF c = BootCpu THEN "boot" ELSE "off") /\ cpu[c].panic = "no"
    BY <2>1 DEF InitCpu
  <2> QED
    BY <2>2 DEF Init, UnusedProc
<1>2. TypeOK /\ Inv /\ LockInv /\ BootInv /\ [Next]_vars => BootInv'
  BY BootInvNext
<1>3. TypeOK /\ Inv /\ LockInv /\ BootInv => SwitchIsSound
  <2> SUFFICES ASSUME TypeOK, Inv, LockInv, BootInv, NEW c \in Cpus
               PROVE  /\ cpu[c].panic = "no"
                      /\ \A l \in Owes(c) : locks[l] = c
                      /\ ~At(c, "zombie")
                      /\ At(c, "return") \/ At(c, "rewait") => cpu[c].sie = My(c).before
    BY DEF SwitchIsSound, NoPanic, InterruptFlagKept
  <2>1. CpuOk(c)
    BY DEF LockInv
  <2>2. cpu[c].panic = "no"
    BY <2>1 DEF CpuOk, NoLockPanic, BootInv
  <2>3. cpu[c].on # NoProc => Me(c) \in Slots /\ My(c) = thread[Me(c)]
    BY OnCpuType DEF Me, My
  <2>4. \A l \in Owes(c) : locks[l] = c
    <3>1. CASE cpu[c].on = NoProc
      BY <3>1 DEF Owes, AtScheduler, Inv, RunInv, Switched
    <3>2. CASE cpu[c].on # NoProc
      <4>1. My(c).pc = "fork_copy" => My(c).arg \in Slots
        BY <2>3, <3>2 DEF Inv, RunInv, Forks, Forking
      <4>2. \A l \in Owes(c) : l = HeldLock(c) /\ l \in Locks
        BY <2>3, <3>2, <4>1, HeldNow, LockNames
           DEF Owes, AtScheduler, HoldsOwn, HoldsWait
      <4> QED
        BY <2>1, <4>2 DEF CpuOk, HoldsOne
    <3> QED
      BY <3>1, <3>2
  <2>5. ~At(c, "zombie")
    BY <2>3 DEF At, Inv, RunInv, OnCpu, OnCpuOf, LockInv, ThreadOk, Me, Switching
  <2>6. At(c, "return") \/ At(c, "rewait") => cpu[c].sie = My(c).before
    BY <2>1, HeldNow DEF At, My, CpuOk, Flags, ThreadFlags, HoldsOwn, HoldsWait, Switching
  <2> QED
    BY <2>2, <2>4, <2>5, <2>6
<1>4. Spec => [](TypeOK /\ Inv /\ LockInv)
  BY LockInvCorrect
<1> QED
  BY <1>1, <1>2, <1>3, <1>4, PTL DEF Spec

-----------------------------------------------------------------------------
(***************************************************************************)
(* The family: exit() gives the children of the process that leaves to the *)
(* first process, one after another, and only then lets it die.  Only user *)
(* processes have children, and the first process never leaves.            *)
(***************************************************************************)
Gone     == {"UNUSED", "USED", "ZOMBIE"}
Leaving  == {"exit", "reparent", "reparent_wake", "exit_wake", "exit_lock"}
UserOnly == Leaving \cup Forking \cup {"fork"}

\* A process that is leaving has no child left below this slot.
KidsLeft(t) == IF t.pc \in {"exit", "reparent", "reparent_wake"} THEN t.i ELSE NPROC

MayBeParent(p) == proc[p].state \notin Gone /\ ~proc[p].is_kernel

ParentsLive ==
  /\ \A q \in Slots : proc[q].parent # NoProc => MayBeParent(proc[q].parent)
  /\ init_proc # NoProc => MayBeParent(init_proc)

KernelTasks ==
  \A p \in Slots :
    proc[p].state \in {"UNUSED", "USED"} \/ thread[p].pc \in UserOnly
      => ~proc[p].is_kernel

Duties ==
  \A p \in Slots :
    /\ thread[p].pc \in Leaving =>
         /\ p # init_proc
         /\ \A q \in Slots : q < KidsLeft(thread[p]) => proc[q].parent # p
    /\ thread[p].pc \in Forking => thread[p].arg # 0

FirstSlot ==
  /\ proc[0].parent = NoProc
  /\ proc[0].state = "UNUSED" => \A p \in Slots : proc[p].state = "UNUSED"

FamilyInv == ParentsLive /\ KernelTasks /\ Duties /\ FirstSlot

\* Most steps change nothing of a family.
SameFamily ==
  /\ init_proc' = init_proc
  /\ \A q \in Slots :
       /\ proc'[q].parent = proc[q].parent
       /\ proc'[q].is_kernel = proc[q].is_kernel
       /\ proc[q].state \notin Gone => proc'[q].state \notin Gone
       /\ proc'[q].state \in {"UNUSED", "USED"} => proc[q].state \in {"UNUSED", "USED"}
       /\ proc'[q].state = "UNUSED" <=> proc[q].state = "UNUSED"

SameDuty(q) ==
  /\ thread'[q].pc \in UserOnly => thread[q].pc \in UserOnly \/ ~proc[q].is_kernel
  /\ thread'[q].pc \in Leaving =>
       \/ thread[q].pc \in Leaving /\ KidsLeft(thread'[q]) = KidsLeft(thread[q])
       \/ q # init_proc /\ KidsLeft(thread'[q]) = 0
  /\ thread'[q].pc \in Forking =>
       thread[q].pc \in Forking /\ thread'[q].arg = thread[q].arg

LEMMA FamilyKept ==
  ASSUME TypeOK, FamilyInv, SameFamily, \A q \in Slots : SameDuty(q)
  PROVE  FamilyInv'
<1>1. /\ \A q \in Slots : proc[q].parent # NoProc => proc[q].parent \in Slots
      /\ init_proc # NoProc => init_proc \in Slots
      /\ 0 \in Slots
  BY Constants DEF TypeOK
<1>2. ParentsLive'
  BY <1>1 DEF FamilyInv, ParentsLive, MayBeParent, SameFamily
<1>3. KernelTasks'
  BY DEF FamilyInv, KernelTasks, SameFamily, SameDuty
<1>4. Duties'
  <2> SUFFICES ASSUME NEW p \in Slots
               PROVE  /\ thread'[p].pc \in Leaving =>
                           /\ p # init_proc'
                           /\ \A q \in Slots : q < KidsLeft(thread'[p]) =>
                                proc'[q].parent # p
                      /\ thread'[p].pc \in Forking => thread'[p].arg # 0
    BY DEF Duties, KidsLeft
  <2>1. SameDuty(p)
    OBVIOUS
  <2>2. \A q \in Slots : ~(q < 0)
    BY NprocAssumption DEF Slots
  <2> QED
    BY <2>1, <2>2 DEF FamilyInv, Duties, SameFamily, SameDuty
<1>5. FirstSlot'
  BY <1>1 DEF FamilyInv, FirstSlot, SameFamily
<1> QED
  BY <1>2, <1>3, <1>4, <1>5 DEF FamilyInv

LEMMA SameThread ==
  ASSUME NEW q \in Slots, thread'[q] = thread[q]
  PROVE  SameDuty(q)
BY DEF SameDuty

LEMMA FamilySame == UNCHANGED <<proc, init_proc>> => SameFamily
BY DEF SameFamily

LEMMA FamilyRow ==
  ASSUME TypeOK, NEW x, NEW r, proc' = [proc EXCEPT ![x] = r], init_proc' = init_proc,
         x \in Slots =>
           /\ r.parent = proc[x].parent /\ r.is_kernel = proc[x].is_kernel
           /\ \/ proc[x].state \notin Gone /\ r.state \notin Gone
              \/ proc[x].state \notin {"UNUSED", "ZOMBIE"} /\ r.state \notin Gone
              \/ r.state = proc[x].state
  PROVE  SameFamily
<1>1. proc \in [Slots -> ProcType]
  BY DEF TypeOK, ProcType
<1> QED
  BY <1>1 DEF SameFamily, Gone

\* The thread of the process that makes the step is the only one that moves.
LEMMA MyDuty ==
  ASSUME TypeOK, FamilyInv, NEW c \in Cpus, SameFamily, OnlyMine(c),
         Me(c) \in Slots => SameDuty(Me(c))
  PROVE  FamilyInv'
<1>1. \A q \in Slots : SameDuty(q)
  BY SameThread DEF OnlyMine
<1> QED
  BY <1>1, FamilyKept

LEMMA FamilyScheduler ==
  ASSUME TypeOK, Inv, FamilyInv, NEW c \in Cpus,
         \/ StartSchedulers(c) \/ ScanSlot(c) \/ Dispatch(c) \/ Idle(c)
         \/ SchedulerResumes(c) \/ AcquirePanic(c) \/ InitExits(c)
  PROVE  FamilyInv'
<1>1. UNCHANGED <<thread, init_proc>>
  BY DEF StartSchedulers, ScanSlot, Dispatch, Idle, SchedulerResumes, AcquirePanic,
         InitExits
<1>2. SameFamily
  <2>1. CASE Dispatch(c)
    <3>1. cpu[c].best \in Slots /\ proc[cpu[c].best].state = "RUNNABLE"
      BY <2>1, Constants DEF Dispatch, AtScheduler, Inv, RunInv, Scanning, TypeOK
    <3>2. [proc[cpu[c].best] EXCEPT !.state = "RUNNING"] =
            [proc[cpu[c].best] EXCEPT !.state = "RUNNING"]
      OBVIOUS
    <3>3. proc' = [proc EXCEPT ![cpu[c].best] =
                     [proc[cpu[c].best] EXCEPT !.state = "RUNNING"]]
      BY <2>1 DEF Dispatch
    <3>4. proc[cpu[c].best] \in ProcType
      BY <3>1 DEF TypeOK, ProcType
    <3>5. PICK r : /\ proc' = [proc EXCEPT ![cpu[c].best] = r]
                   /\ r = [proc[cpu[c].best] EXCEPT !.state = "RUNNING"]
      BY <3>3
    <3>6. /\ r.parent = proc[cpu[c].best].parent /\ r.state = "RUNNING"
          /\ r.is_kernel = proc[cpu[c].best].is_kernel
      BY <3>4, <3>5 DEF ProcType
    <3> QED
      BY <1>1, <3>1, <3>5, <3>6, FamilyRow DEF Gone
  <2>2. CASE UNCHANGED proc
    BY <1>1, <2>2, FamilySame
  <2> QED
    BY <2>1, <2>2 DEF StartSchedulers, ScanSlot, Idle, SchedulerResumes, AcquirePanic,
       InitExits
<1> QED
  BY <1>1, <1>2, SameThread, FamilyKept

LEMMA FamilyCalls ==
  ASSUME TypeOK, Inv, FamilyInv, NEW c \in Cpus,
         \/ Sched(c) \/ Start(c) \/ Return(c) \/ CallYield(c) \/ Yield(c) \/ Yielded(c)
         \/ CallExit(c) \/ CallWait(c) \/ CallAwait(c) \/ CallFork(c) \/ CallKill(c)
         \/ CallSetkilled(c)
         \/ Exit(c) \/ WaitEnter(c) \/ WaitFails(c) \/ AwaitEnter(c) \/ Awaited(c)
         \/ AwaitMore(c) \/ AwaitKilled(c) \/ Sleep(c) \/ Slept(c) \/ Rewait(c)
         \/ Wakeup(c) \/ Kill(c) \/ Setkilled(c) \/ ForkReady(c)
  PROVE  FamilyInv'
<1>1. cpu[c].on # NoProc /\ init_proc' = init_proc
  BY Zenon
     DEF Sched, sched, Start, Return, CallYield, Yield, Yielded, CallExit, CallWait,
         CallAwait, CallFork, CallKill, CallSetkilled, Call, Exit, WaitEnter, WaitFails,
         WaitReturns, AwaitEnter, Awaited, AwaitMore, AwaitKilled, Sleep, Slept, Rewait,
         Wakeup, WakeSlot, Kill, Setkilled, ForkReady, At
<1>2. /\ Me(c) \in Slots /\ My(c) = thread[Me(c)]
      /\ proc \in [Slots -> ProcType] /\ thread \in [Slots -> ThreadType]
      /\ My(c) \in ThreadType /\ proc[Me(c)] \in ProcType
      /\ My(c).pc \notin Switching => proc[Me(c)].state = "RUNNING"
  BY <1>1, OnCpuType
     DEF Inv, RunInv, OnCpu, OnCpuOf, TypeOK, ProcType, ThreadType, Me, My
<1>set. ASSUME NEW t, thread' = [thread EXCEPT ![Me(c)] = t]
        PROVE  OnlyMine(c) /\ thread'[Me(c)] = t
  BY <1>2, <1>set DEF OnlyMine
<1>goto. ASSUME NEW label, Goto(c, label), SameFamily,
                \/ label \notin UserOnly
                \/ My(c).pc = "exit" /\ label = "reparent"
         PROVE  FamilyInv'
  <2>1. OnlyMine(c) /\ thread'[Me(c)].pc = label /\ thread'[Me(c)].i = My(c).i
    BY <1>1, <1>goto, GotoEffect
  <2>2. SameDuty(Me(c))
    BY <1>2, <1>goto, <2>1 DEF SameDuty, UserOnly, Leaving, Forking, KidsLeft
  <2> QED
    BY <1>goto, <2>1, <2>2, MyDuty
<1>fin. ASSUME Finish(c), SameFamily
        PROVE  FamilyInv'
  <2>1. OnlyMine(c) /\ thread'[Me(c)].pc = "return"
    BY <1>1, <1>fin, FinishEffect
  <2>2. SameDuty(Me(c))
    BY <2>1 DEF SameDuty, UserOnly, Leaving, Forking
  <2> QED
    BY <1>fin, <2>1, <2>2, MyDuty
<1>row. ASSUME NEW r, proc' = [proc EXCEPT ![Me(c)] = r],
               My(c).pc \notin Switching,
               r.parent = proc[Me(c)].parent, r.is_kernel = proc[Me(c)].is_kernel,
               r.state \notin Gone
        PROVE  SameFamily
  BY <1>1, <1>2, <1>row, FamilyRow DEF Gone
<1>3. CASE Sched(c)
  <2>1. PICK from \in Switching, to \in {"yielded", "slept", "zombie"} :
          sched(c, from, to)
    BY <1>3 DEF Sched, Switching
  <2>2. SameFamily
    BY <2>1, FamilySame DEF sched
  <2>3. CASE UNCHANGED thread
    BY <2>2, <2>3, SameThread, FamilyKept
  <2>4. CASE thread' = [thread EXCEPT ![Me(c)] =
                  [thread[Me(c)] EXCEPT !.pc = to, !.saved = cpu[c].intena]]
    <3>1. OnlyMine(c) /\ thread'[Me(c)].pc = to
      BY <1>2, <2>4 DEF OnlyMine, ThreadType
    <3>2. SameDuty(Me(c))
      BY <3>1 DEF SameDuty, UserOnly, Leaving, Forking
    <3> QED
      BY <2>2, <3>1, <3>2, MyDuty
  <2> QED
    BY <2>1, <2>3, <2>4 DEF sched
<1>4. CASE Start(c) \/ Return(c) \/ CallYield(c)
  <2>1. ASSUME NEW label, NEW b
        PROVE  [AtPc(label) EXCEPT !.before = b].pc = label /\ AtPc(label).pc = label
    BY DEF AtPc
  <2>2. OnlyMine(c) /\ thread'[Me(c)].pc \in {"return", "run", "yield"}
    <3>1. CASE Start(c)
      BY Zenon, <3>1, <1>set, <2>1 DEF Start
    <3>2. CASE Return(c)
      BY <3>2, <1>set, <2>1 DEF Return
    <3>3. CASE CallYield(c)
      BY Zenon, <3>3, <1>set, <2>1 DEF CallYield
    <3> QED
      BY <1>4, <3>1, <3>2, <3>3
  <2>3. SameDuty(Me(c))
    BY <2>2 DEF SameDuty, UserOnly, Leaving, Forking
  <2>4. SameFamily
    BY <1>4, FamilySame DEF Start, Return, CallYield
  <2> QED
    BY <2>2, <2>3, <2>4, MyDuty
<1>5. ASSUME NEW call, NEW arg,
             NEW label \in {"exit", "wait_enter", "await_enter", "fork", "kill",
                            "setkilled"},
             Call(c, call, label, arg),
             label \in {"exit", "fork"} => ~proc[Me(c)].is_kernel,
             label = "exit" => Me(c) # init_proc
      PROVE  FamilyInv'
  <2>1. /\ [AtPc(label) EXCEPT !.arg = arg, !.before = 1].pc = label
        /\ [AtPc(label) EXCEPT !.arg = arg, !.before = 1].i = 0
    BY DEF AtPc
  <2>2. OnlyMine(c) /\ thread'[Me(c)].pc = label /\ thread'[Me(c)].i = 0
    BY <1>5, <1>set, <2>1 DEF Call
  <2>3. SameDuty(Me(c))
    BY <1>5, <2>2 DEF SameDuty, UserOnly, Leaving, Forking, KidsLeft
  <2>4. SameFamily
    BY <1>5, FamilySame DEF Call
  <2> QED
    BY <2>2, <2>3, <2>4, MyDuty
<1>6. CASE CallExit(c) \/ CallWait(c) \/ CallAwait(c) \/ CallFork(c) \/ CallKill(c)
           \/ CallSetkilled(c)
  BY <1>5, <1>6 DEF CallExit, CallWait, CallAwait, CallFork, CallKill, CallSetkilled,
     User, Me
<1>7. CASE Exit(c) \/ WaitEnter(c) \/ AwaitEnter(c) \/ Rewait(c) \/ AwaitMore(c)
  <2>1. SameFamily
    BY <1>7, FamilySame DEF Exit, WaitEnter, AwaitEnter, Rewait, AwaitMore
  <2>2. PICK label \in {"reparent", "wait", "await", "await_killed"} :
          Goto(c, label) /\ (label = "reparent" => Exit(c))
    BY <1>7 DEF Exit, WaitEnter, AwaitEnter, Rewait, AwaitMore
  <2> QED
    BY <1>goto, <2>1, <2>2 DEF Exit, At, My, UserOnly, Leaving, Forking
<1>8. CASE WaitFails(c) \/ Awaited(c) \/ Yielded(c)
  BY <1>8, <1>fin, FamilySame DEF WaitFails, Awaited, Yielded, WaitReturns
<1>9. CASE AwaitKilled(c)
  BY <1>9, <1>fin, <1>goto, FamilySame
     DEF AwaitKilled, WaitReturns, UserOnly, Leaving, Forking
<1>10. CASE Yield(c) \/ Sleep(c) \/ Slept(c)
  <2>1. My(c).pc \notin Switching
    BY <1>10 DEF Yield, Sleep, Slept, At, My, Switching
  <2>2. PICK r : /\ proc' = [proc EXCEPT ![Me(c)] = r]
                 /\ \/ r = [proc[Me(c)] EXCEPT !.state = "RUNNABLE"]
                    \/ r = [proc[Me(c)] EXCEPT !.chan = Me(c), !.state = "SLEEPING"]
                    \/ r = [proc[Me(c)] EXCEPT !.chan = NoProc]
    BY <1>10 DEF Yield, Sleep, Slept
  <2>3. /\ r.parent = proc[Me(c)].parent /\ r.is_kernel = proc[Me(c)].is_kernel
        /\ r.state \in {"RUNNABLE", "SLEEPING", "RUNNING"}
    BY <1>2, <2>1, <2>2 DEF ProcType
  <2>4. SameFamily
    BY <1>row, <2>1, <2>2, <2>3 DEF Gone
  <2> QED
    BY <1>10, <1>goto, <2>4 DEF Yield, Sleep, Slept, UserOnly, Leaving, Forking
<1>11. CASE Wakeup(c)
  <2>1. PICK label \in {"reparent_wake", "exit_wake"}, next \in {"reparent", "exit_lock"} :
          /\ WakeSlot(c, label, next)
          /\ label = "exit_wake" <=> next = "exit_lock"
    BY <1>11 DEF Wakeup
  <2> DEFINE j == My(c).j
             t == IF j + 1 < NPROC THEN [My(c) EXCEPT !.j = j + 1]
                  ELSE [My(c) EXCEPT !.pc = next, !.j = 0, !.arg = NoProc]
  <2>2. My(c).pc = label /\ thread' = [thread EXCEPT ![Me(c)] = t]
    BY <1>2, <2>1 DEF WakeSlot, At, My
  <2>3. t.pc \in {label, next} /\ t.i = My(c).i
    BY <1>2, <2>2 DEF ThreadType
  <2> HIDE DEF t
  <2>4. OnlyMine(c) /\ thread'[Me(c)] = t
    BY <1>set, <2>2
  <2>5. SameDuty(Me(c))
    BY <1>2, <2>1, <2>2, <2>3, <2>4 DEF SameDuty, UserOnly, Leaving, Forking, KidsLeft
  <2>6. SameFamily
    <3>1. CASE /\ proc[j].state = "SLEEPING"
               /\ proc' = [proc EXCEPT ![j] = [proc[j] EXCEPT !.state = "RUNNABLE"]]
      <4>1. j \in Slots /\ proc[j] \in ProcType
        BY <1>2 DEF ThreadType
      <4>2. PICK r : /\ proc' = [proc EXCEPT ![j] = r]
                     /\ r = [proc[j] EXCEPT !.state = "RUNNABLE"]
        BY <3>1
      <4>3. r.parent = proc[j].parent /\ r.is_kernel = proc[j].is_kernel
            /\ r.state = "RUNNABLE"
        BY <4>1, <4>2 DEF ProcType
      <4>4. proc[j].state \notin Gone /\ r.state \notin Gone
        BY <3>1, <4>3 DEF Gone
      <4> QED
        BY <1>1, <4>1, <4>2, <4>3, <4>4, FamilyRow
    <3> QED
      BY <1>1, <2>1, <3>1, FamilySame DEF WakeSlot
  <2> QED
    BY <2>4, <2>5, <2>6, MyDuty
<1>12. CASE Kill(c)
  <2>1. My(c).j \in Slots /\ proc[My(c).j] \in ProcType
    BY <1>2 DEF ThreadType
  <2>2. SameFamily
    <3>1. CASE proc' = [proc EXCEPT ![My(c).j] = Killed(proc[My(c).j])]
      <4>1. PICK r : /\ proc' = [proc EXCEPT ![My(c).j] = r]
                     /\ r = Killed(proc[My(c).j])
        BY <3>1
      <4>2. /\ r.parent = proc[My(c).j].parent
            /\ r.is_kernel = proc[My(c).j].is_kernel
            /\ \/ r.state = proc[My(c).j].state
               \/ proc[My(c).j].state = "SLEEPING" /\ r.state = "RUNNABLE"
        BY <2>1, <4>1 DEF ProcType, Killed
      <4>3. \/ r.state = proc[My(c).j].state
            \/ proc[My(c).j].state \notin Gone /\ r.state \notin Gone
        BY <4>2 DEF Gone
      <4> QED
        BY <1>1, <4>1, <4>2, <4>3, FamilyRow
    <3> QED
      BY <1>1, <1>12, <3>1, FamilySame DEF Kill
  <2>3. CASE thread' = [thread EXCEPT ![Me(c)].j = My(c).j + 1]
    <3>1. OnlyMine(c) /\ thread'[Me(c)] = [My(c) EXCEPT !.j = My(c).j + 1]
      BY <1>2, <2>3 DEF OnlyMine
    <3>2. thread'[Me(c)].pc = "kill"
      BY <1>2, <1>12, <3>1 DEF Kill, At, My, ThreadType
    <3>3. SameDuty(Me(c))
      BY <3>2 DEF SameDuty, UserOnly, Leaving, Forking
    <3> QED
      BY <2>2, <3>1, <3>3, MyDuty
  <2> QED
    BY <1>12, <1>fin, <2>2, <2>3 DEF Kill
<1>13. CASE Setkilled(c)
  <2>1. PICK q, r : /\ proc' = [proc EXCEPT ![q] = r]
                    /\ r = [proc[q] EXCEPT !.killed = TRUE]
    BY <1>13 DEF Setkilled
  <2>2. q \in Slots => /\ r.state = proc[q].state /\ r.parent = proc[q].parent
                       /\ r.is_kernel = proc[q].is_kernel
    BY <1>2, <2>1 DEF ProcType
  <2>3. SameFamily
    BY <1>1, <2>1, <2>2, FamilyRow
  <2> QED
    BY <1>13, <1>fin, <2>3 DEF Setkilled
<1>14. CASE ForkReady(c)
  <2>1. My(c).arg \in Slots /\ proc[My(c).arg].state = "USED"
    BY <1>2, <1>14 DEF ForkReady, At, My, Inv, RunInv, Forks, Forking
  <2>2. PICK r : /\ proc' = [proc EXCEPT ![My(c).arg] = r]
                 /\ r = [proc[My(c).arg] EXCEPT !.state = "RUNNABLE"]
    BY <1>14 DEF ForkReady
  <2>3. /\ r.parent = proc[My(c).arg].parent
        /\ r.is_kernel = proc[My(c).arg].is_kernel /\ r.state = "RUNNABLE"
    BY <1>2, <2>1, <2>2 DEF ProcType
  <2>4. proc[My(c).arg].state \notin {"UNUSED", "ZOMBIE"} /\ r.state \notin Gone
    BY <2>1, <2>3 DEF Gone
  <2>5. SameFamily
    BY <1>1, <2>2, <2>3, <2>4, FamilyRow
  <2> QED
    BY <1>14, <1>fin, <2>5 DEF ForkReady
<1> QED
  BY <1>3, <1>4, <1>6, <1>7, <1>8, <1>9, <1>10, <1>11, <1>12, <1>13, <1>14

\* What the slot of a parent still is after the step.
LiveNext(p) == proc'[p].state \notin Gone /\ ~proc'[p].is_kernel

\* Nobody is a parent whose slot is free, in the making, dead, or a kernel task's.
LEMMA NotAParent ==
  ASSUME TypeOK, FamilyInv, NEW p \in Slots, ~MayBeParent(p)
  PROVE  /\ \A q \in Slots : proc[q].parent # p
         /\ init_proc # p
BY Constants DEF FamilyInv, ParentsLive

\* The first free slot is slot 0 only of an empty table.
LEMMA FirstUnused ==
  ASSUME FamilyInv, NEW p \in Slots, First(p, Unused)
  PROVE  p # 0 => proc[0].state # "UNUSED"
<1>1. 0 \in Slots
  BY Constants
<1> QED
  BY <1>1, NprocAssumption DEF First, Unused, Slots

LEMMA FamilyBoot ==
  ASSUME TypeOK, Inv, FamilyInv, NEW c \in Cpus, Boot(c) \/ BootFails(c)
  PROVE  FamilyInv'
<1>1. /\ proc \in [Slots -> ProcType] /\ UNCHANGED thread /\ 0 \in Slots
  BY Constants DEF Boot, BootFails, TypeOK, ProcType
<1>2. \A q \in Slots : thread[q].pc \in Parked
  <2>1. cpu[c].pc = "boot"
    BY DEF Boot, BootFails, AtBoot, AtScheduler
  <2>2. \A d \in Cpus : cpu[d].on = NoProc
    BY <2>1 DEF Inv, RunInv, Booting
  <2>3. \A q \in Slots : q # NoProc
    BY Constants
  <2> QED
    BY <2>2, <2>3 DEF Inv, RunInv, ParkedOffCpu
<1>3. \A q \in Slots : thread[q].pc \notin UserOnly \cup Leaving \cup Forking
  BY <1>2 DEF Parked, UserOnly, Leaving, Forking
<1>same. ASSUME UNCHANGED <<proc, init_proc>> PROVE FamilyInv'
  BY <1>1, <1>same, FamilySame, SameThread, FamilyKept
<1>new. ASSUME NEW p \in Slots, First(p, Unused), NEW r,
               proc' = [proc EXCEPT ![p] = r],
               r.parent \in {proc[p].parent, NoProc},
               \/ r.state \in {"UNUSED", "USED"} /\ ~r.is_kernel /\ init_proc' = init_proc
               \/ r.state = "RUNNABLE" /\ init_proc' = init_proc
               \/ r.state = "RUNNABLE" /\ ~r.is_kernel /\ init_proc' = p,
               r.state = "UNUSED" => proc[p].state = "UNUSED"
        PROVE  FamilyInv'
  <2>1. /\ proc'[p] = r /\ \A q \in Slots : q # p => proc'[q] = proc[q]
        /\ proc[p].state = "UNUSED"
    BY <1>1, <1>new DEF First, Unused
  <2>2. /\ \A q \in Slots : proc[q].parent # p
        /\ init_proc # p
    BY <2>1, NotAParent DEF MayBeParent, Gone
  <2>3. /\ \A q \in Slots : proc[q].parent # NoProc => proc[q].parent \in Slots \ {p}
        /\ init_proc # NoProc => init_proc \in Slots \ {p}
    BY <2>2, Constants DEF TypeOK
  <2>4. ParentsLive'
    <3>1. \A q \in Slots : q # p /\ MayBeParent(q) => MayBeParent(q)'
      BY <2>1 DEF MayBeParent
    <3>2. \A q \in Slots : proc'[q].parent # NoProc => proc'[q].parent = proc[q].parent
      BY <1>new, <2>1
    <3>3. init_proc' # NoProc => MayBeParent(init_proc)'
      <4>1. CASE init_proc' = init_proc
        BY <2>3, <3>1, <4>1 DEF FamilyInv, ParentsLive, MayBeParent
      <4>2. CASE init_proc' = p /\ r.state = "RUNNABLE" /\ ~r.is_kernel
        BY <2>1, <4>2 DEF MayBeParent, Gone
      <4> QED
        BY <1>new, <4>1, <4>2
    <3>4. \A q \in Slots : proc'[q].parent # NoProc => LiveNext(proc[q].parent)
      BY <2>3, <3>1, <3>2 DEF FamilyInv, ParentsLive, MayBeParent, LiveNext
    <3> QED
      BY <3>2, <3>3, <3>4 DEF ParentsLive, MayBeParent, LiveNext
  <2>5. KernelTasks'
    BY <1>1, <1>3, <1>new, <2>1 DEF FamilyInv, KernelTasks
  <2>6. Duties'
    BY <1>1, <1>3 DEF Duties
  <2>7. FirstSlot'
    <3>1. p # 0 => proc[0].state # "UNUSED"
      BY <1>new, FirstUnused
    <3>2. proc'[0].parent = NoProc
      BY <1>1, <1>new, <2>1 DEF FamilyInv, FirstSlot
    <3> QED
      BY <1>1, <1>new, <2>1, <3>1, <3>2 DEF FamilyInv, FirstSlot
  <2> QED
    BY <2>4, <2>5, <2>6, <2>7 DEF FamilyInv
<1>rec. ASSUME NEW p \in Slots, First(p, Unused), NEW pid, NEW kind
        PROVE  /\ proc[p].state = "UNUSED" /\ ~proc[p].is_kernel
               /\ Made(p, pid).state = "USED" /\ ~Made(p, pid).is_kernel
               /\ Made(p, pid).parent = proc[p].parent
               /\ KernelTask(Made(p, pid), kind).state = "RUNNABLE"
               /\ KernelTask(Made(p, pid), kind).parent = proc[p].parent
               /\ FromCode(Made(p, pid)).state = "RUNNABLE"
               /\ ~FromCode(Made(p, pid)).is_kernel
               /\ FromCode(Made(p, pid)).parent = proc[p].parent
               /\ free_process(Made(p, pid)).state = "UNUSED"
               /\ ~free_process(Made(p, pid)).is_kernel
               /\ free_process(Made(p, pid)).parent = NoProc
  <2>1. proc[p].state = "UNUSED" /\ ~proc[p].is_kernel /\ proc[p] \in ProcType
    BY <1>1, <1>rec DEF First, Unused, FamilyInv, KernelTasks
  <2> QED
    BY <2>1 DEF Made, KernelTask, FromCode, free_process, ProcType
<1>4. CASE Boot(c)
  <2>1. PICK p \in Slots :
          /\ First(p, Unused)
          /\ \/ /\ proc' = [proc EXCEPT ![p] =
                             KernelTask(Made(p, next_pid), BootKind(c))]
                /\ init_proc' = init_proc
             \/ /\ proc' = [proc EXCEPT ![p] = FromCode(Made(p, next_pid))]
                /\ init_proc' \in {p, init_proc}
    BY <1>4 DEF Boot
  <2> QED
    BY <1>new, <1>rec, <2>1
<1>5. CASE BootFails(c)
  <2>1. \/ UNCHANGED <<proc, init_proc>>
        \/ \E p \in Slots :
             /\ First(p, Unused) /\ init_proc' = init_proc
             /\ \/ proc' = [proc EXCEPT ![p] = Made(p, next_pid)]
                \/ proc' = [proc EXCEPT ![p] = free_process(Made(p, next_pid))]
    BY <1>5 DEF BootFails
  <2> QED
    BY <1>new, <1>rec, <1>same, <2>1
<1> QED
  BY <1>4, <1>5

\* exit() hands the children over one by one.
LEMMA FamilyReparent ==
  ASSUME TypeOK, Inv, FamilyInv, NEW c \in Cpus, Reparent(c)
  PROVE  FamilyInv'
<1>1. /\ cpu[c].on # NoProc /\ Me(c) \in Slots /\ My(c) = thread[Me(c)]
      /\ My(c).pc = "reparent" /\ init_proc' = init_proc
      /\ proc \in [Slots -> ProcType]
      /\ thread \in [Slots -> ThreadType] /\ My(c) \in ThreadType
      /\ My(c).i \in Nat /\ 0 \in Slots
  <2>1. cpu[c].on # NoProc /\ My(c).pc = "reparent" /\ init_proc' = init_proc
    BY Zenon DEF Reparent, At, My
  <2>2. Me(c) \in Slots /\ My(c) = thread[Me(c)] /\ My(c) \in ThreadType
    BY <2>1, OnCpuType DEF My, Me, TypeOK, ThreadType
  <2>3. My(c).i \in 0..NPROC
    BY <2>2 DEF ThreadType
  <2>4. proc \in [Slots -> ProcType] /\ thread \in [Slots -> ThreadType]
    BY DEF TypeOK, ProcType, ThreadType
  <2> QED
    BY <2>1, <2>2, <2>3, <2>4, Constants, NprocAssumption
<1>2. /\ Me(c) # init_proc /\ ~proc[Me(c)].is_kernel
      /\ \A q \in Slots : q < My(c).i => proc[q].parent # Me(c)
  BY <1>1 DEF FamilyInv, Duties, KernelTasks, KidsLeft, Leaving, UserOnly
<1> DEFINE kids == {q \in Slots : q >= My(c).i /\ proc[q].parent = Me(c)}
<1>3. CASE \E kid \in Slots :
             /\ First(kid, kids)
             /\ proc' = [proc EXCEPT ![kid].parent = init_proc]
             /\ thread' = [thread EXCEPT ![Me(c)] =
                  [My(c) EXCEPT !.pc = "reparent_wake", !.i = kid + 1, !.j = 0,
                                !.arg = init_proc]]
  <2>1. PICK kid \in Slots :
          /\ First(kid, kids)
          /\ proc' = [proc EXCEPT ![kid].parent = init_proc]
          /\ thread' = [thread EXCEPT ![Me(c)] =
               [My(c) EXCEPT !.pc = "reparent_wake", !.i = kid + 1, !.j = 0,
                             !.arg = init_proc]]
    BY <1>3
  <2>2. /\ OnlyMine(c)
        /\ thread'[Me(c)] = [My(c) EXCEPT !.pc = "reparent_wake", !.i = kid + 1, !.j = 0,
                                          !.arg = init_proc]
    BY <1>1, <2>1 DEF OnlyMine
  <2>3. thread'[Me(c)].pc = "reparent_wake" /\ thread'[Me(c)].i = kid + 1
    BY <1>1, <2>2 DEF ThreadType
  <2>4. /\ proc'[kid].parent = init_proc
        /\ \A q \in Slots : /\ q # kid => proc'[q].parent = proc[q].parent
                            /\ proc'[q].state = proc[q].state
                            /\ proc'[q].is_kernel = proc[q].is_kernel
    BY <1>1, <2>1 DEF ProcType
  <2>5. kid \in Nat /\ proc[kid].parent = Me(c) /\ kid # 0
    <3>1. kid \in Nat /\ proc[kid].parent = Me(c)
      BY <2>1, NprocAssumption DEF First, Slots
    <3> QED
      BY <1>1, <3>1, Constants DEF FamilyInv, FirstSlot
  <2>6. \A q \in Slots : q < kid + 1 => proc'[q].parent # Me(c)
    <3> SUFFICES ASSUME NEW q \in Slots, q < kid + 1, proc'[q].parent = Me(c)
                 PROVE  FALSE
      OBVIOUS
    <3>1. q # kid /\ proc[q].parent = Me(c)
      BY <1>2, <2>4
    <3>2. q \in Nat /\ q < kid
      BY <2>5, <3>1, NprocAssumption DEF Slots
    <3>3. q >= My(c).i
      BY <1>1, <1>2, <3>1, <3>2
    <3> QED
      BY <2>1, <2>5, <3>1, <3>2, <3>3 DEF First
  <2>7. ParentsLive'
    <3>1. \A q \in Slots : MayBeParent(q) => MayBeParent(q)'
      BY <2>4 DEF MayBeParent
    <3>2. /\ \A q \in Slots : proc[q].parent # NoProc => proc[q].parent \in Slots
          /\ init_proc # NoProc => init_proc \in Slots
      BY Constants DEF TypeOK
    <3>3. init_proc # NoProc => LiveNext(init_proc)
      BY <3>1, <3>2 DEF FamilyInv, ParentsLive, MayBeParent, LiveNext
    <3>4. \A q \in Slots : proc[q].parent # NoProc => LiveNext(proc[q].parent)
      BY <3>1, <3>2 DEF FamilyInv, ParentsLive, MayBeParent, LiveNext
    <3>5. \A q \in Slots : proc'[q].parent \in {proc[q].parent, init_proc}
      BY <2>4
    <3> QED
      BY <1>1, <3>3, <3>4, <3>5 DEF ParentsLive, MayBeParent, LiveNext
  <2>8. KernelTasks'
    BY <1>1, <1>2, <2>2, <2>4 DEF FamilyInv, KernelTasks, OnlyMine
  <2>9. Duties'
    <3> SUFFICES ASSUME NEW p \in Slots
                 PROVE  /\ thread'[p].pc \in Leaving =>
                             /\ p # init_proc'
                             /\ \A q \in Slots : q < KidsLeft(thread'[p]) =>
                                  proc'[q].parent # p
                        /\ thread'[p].pc \in Forking => thread'[p].arg # 0
      BY DEF Duties, KidsLeft
    <3>1. CASE p = Me(c)
      BY <1>1, <1>2, <2>3, <2>6, <3>1 DEF KidsLeft, Leaving, Forking
    <3>2. CASE p # Me(c)
      BY <1>1, <2>2, <2>4, <3>2 DEF FamilyInv, Duties, OnlyMine
    <3> QED
      BY <3>1, <3>2
  <2>10. FirstSlot'
    BY <1>1, <2>4, <2>5 DEF FamilyInv, FirstSlot
  <2> QED
    BY <2>7, <2>8, <2>9, <2>10 DEF FamilyInv
<1>4. CASE /\ kids = {} /\ UNCHANGED proc
           /\ thread' = [thread EXCEPT ![Me(c)] =
                [My(c) EXCEPT !.pc = "exit_wake", !.i = 0, !.j = 0,
                              !.arg = proc[Me(c)].parent]]
  <2>1. /\ OnlyMine(c)
        /\ thread'[Me(c)] = [My(c) EXCEPT !.pc = "exit_wake", !.i = 0, !.j = 0,
                                          !.arg = proc[Me(c)].parent]
    BY <1>1, <1>4 DEF OnlyMine
  <2>2. thread'[Me(c)].pc = "exit_wake"
    BY <1>1, <2>1 DEF ThreadType
  <2>3. \A q \in Slots : q \in Nat /\ proc[q].parent # Me(c)
    <3> SUFFICES ASSUME NEW q \in Slots PROVE q \in Nat /\ proc[q].parent # Me(c)
      OBVIOUS
    <3>1. q \in Nat
      BY NprocAssumption DEF Slots
    <3>2. q \notin kids
      BY <1>4
    <3> QED
      BY <1>1, <1>2, <3>1, <3>2
  <2>4. Duties'
    <3> SUFFICES ASSUME NEW p \in Slots
                 PROVE  /\ thread'[p].pc \in Leaving =>
                             /\ p # init_proc'
                             /\ \A q \in Slots : q < KidsLeft(thread'[p]) =>
                                  proc'[q].parent # p
                        /\ thread'[p].pc \in Forking => thread'[p].arg # 0
      BY DEF Duties, KidsLeft
    <3>1. CASE p = Me(c)
      BY <1>1, <1>2, <1>4, <2>2, <2>3, <3>1 DEF Forking
    <3>2. CASE p # Me(c)
      BY <1>1, <1>4, <2>1, <3>2 DEF FamilyInv, Duties, OnlyMine
    <3> QED
      BY <3>1, <3>2
  <2>5. KernelTasks'
    BY <1>2, <1>4, <2>1 DEF FamilyInv, KernelTasks, OnlyMine
  <2>6. ParentsLive' /\ FirstSlot'
    BY <1>1, <1>4 DEF FamilyInv, ParentsLive, MayBeParent, FirstSlot
  <2> QED
    BY <2>4, <2>5, <2>6 DEF FamilyInv
<1> QED
  BY Zenon, <1>1, <1>3, <1>4 DEF Reparent

\* A process dies: nobody's child is left to it, and a kernel task had none.
LEMMA FamilyDeath ==
  ASSUME TypeOK, Inv, FamilyInv, NEW c \in Cpus, BecomeZombie(c) \/ TaskReturns(c)
  PROVE  FamilyInv'
<1>1. /\ cpu[c].on # NoProc /\ Me(c) \in Slots /\ My(c) = thread[Me(c)]
      /\ My(c).pc \in {"exit_lock", "run"} /\ UNCHANGED init_proc
      /\ proc \in [Slots -> ProcType] /\ proc[Me(c)] \in ProcType
      /\ proc[Me(c)].state = "RUNNING" /\ 0 \in Slots
  <2>1. /\ cpu[c].on # NoProc /\ My(c).pc \in {"exit_lock", "run"} /\ UNCHANGED init_proc
    BY DEF BecomeZombie, TaskReturns, At, My
  <2> QED
    BY <2>1, OnCpuType, Constants
       DEF Inv, RunInv, OnCpu, OnCpuOf, My, Me, TypeOK, ProcType, Switching
<1>2. OnlyMine(c) /\ thread'[Me(c)].pc = "exit_sched"
  BY <1>1, GotoEffect DEF BecomeZombie, TaskReturns
<1>3. /\ Me(c) # init_proc
      /\ \A q \in Slots : proc[q].parent # Me(c)
  <2>1. CASE BecomeZombie(c)
    <3>1. My(c).pc = "exit_lock"
      BY <2>1 DEF BecomeZombie, At, My
    <3>2. \A q \in Slots : q < NPROC
      BY NprocAssumption DEF Slots
    <3> QED
      BY <1>1, <3>1, <3>2 DEF FamilyInv, Duties, KidsLeft, Leaving
  <2>2. CASE TaskReturns(c)
    BY <1>1, <2>2, NotAParent DEF TaskReturns, MayBeParent
  <2> QED
    BY <2>1, <2>2
<1>4. PICK r : /\ proc' = [proc EXCEPT ![Me(c)] = r]
               /\ r.state = "ZOMBIE" /\ r.parent = proc[Me(c)].parent
               /\ r.is_kernel = proc[Me(c)].is_kernel
  <2>1. PICK r : /\ proc' = [proc EXCEPT ![Me(c)] = r]
                 /\ \/ r = [proc[Me(c)] EXCEPT !.state = "ZOMBIE"]
                    \/ r = [proc[Me(c)] EXCEPT !.state = "ZOMBIE", !.xstate = 1]
    BY DEF BecomeZombie, TaskReturns
  <2> QED
    BY <1>1, <2>1 DEF ProcType
<1>5. \A q \in Slots : /\ proc'[q].parent = proc[q].parent
                       /\ proc'[q].is_kernel = proc[q].is_kernel
                       /\ q # Me(c) => proc'[q] = proc[q]
                       /\ proc'[q].state \in {proc[q].state, "ZOMBIE"}
  BY <1>1, <1>4
<1>6. ParentsLive'
  <2>1. /\ \A q \in Slots : proc[q].parent # NoProc => proc[q].parent \in Slots \ {Me(c)}
        /\ init_proc # NoProc => init_proc \in Slots \ {Me(c)}
    BY <1>3, Constants DEF TypeOK
  <2>2. \A q \in Slots \ {Me(c)} : MayBeParent(q) => MayBeParent(q)'
    BY <1>5 DEF MayBeParent
  <2>3. init_proc # NoProc => LiveNext(init_proc)
    BY <2>1, <2>2 DEF FamilyInv, ParentsLive, MayBeParent, LiveNext
  <2>4. \A q \in Slots : proc[q].parent # NoProc => LiveNext(proc[q].parent)
    BY <2>1, <2>2 DEF FamilyInv, ParentsLive, MayBeParent, LiveNext
  <2> QED
    BY <1>1, <1>5, <2>3, <2>4 DEF ParentsLive, MayBeParent, LiveNext
<1>7. KernelTasks'
  BY <1>2, <1>5 DEF FamilyInv, KernelTasks, OnlyMine, UserOnly, Leaving, Forking
<1>8. Duties'
  <2> SUFFICES ASSUME NEW p \in Slots
               PROVE  /\ thread'[p].pc \in Leaving =>
                           /\ p # init_proc'
                           /\ \A q \in Slots : q < KidsLeft(thread'[p]) =>
                                proc'[q].parent # p
                      /\ thread'[p].pc \in Forking => thread'[p].arg # 0
    BY DEF Duties, KidsLeft
  <2>1. CASE p = Me(c)
    BY <1>2, <2>1 DEF Leaving, Forking
  <2>2. CASE p # Me(c)
    BY <1>1, <1>2, <1>5, <2>2 DEF FamilyInv, Duties, OnlyMine
  <2> QED
    BY <2>1, <2>2
<1>9. FirstSlot'
  <2>1. proc[0].state # "UNUSED"
    BY <1>1 DEF FamilyInv, FirstSlot
  <2> QED
    BY <1>1, <1>5, <2>1 DEF FamilyInv, FirstSlot
<1> QED
  BY <1>6, <1>7, <1>8, <1>9 DEF FamilyInv

\* fork() finds its slot, copies the memory, and names the parent.
LEMMA FamilyFork ==
  ASSUME TypeOK, Inv, FamilyInv, NEW c \in Cpus,
         ForkSlot(c) \/ ForkCopy(c) \/ ForkParent(c)
  PROVE  FamilyInv'
<1>1. /\ cpu[c].on # NoProc /\ init_proc' = init_proc
      /\ My(c).pc \in {"fork", "fork_copy", "fork_parent"}
  BY Zenon DEF ForkSlot, ForkCopy, ForkParent, At, My
<1>2. /\ Me(c) \in Slots /\ My(c) = thread[Me(c)] /\ My(c) \in ThreadType
      /\ proc \in [Slots -> ProcType] /\ thread \in [Slots -> ThreadType]
      /\ proc[Me(c)].state = "RUNNING" /\ ~proc[Me(c)].is_kernel
      /\ proc[0].state # "UNUSED" /\ 0 \in Slots
  <2>1. /\ Me(c) \in Slots /\ My(c) = thread[Me(c)] /\ My(c) \in ThreadType
    BY <1>1, OnCpuType DEF My, Me, ThreadType
  <2>2. proc \in [Slots -> ProcType] /\ thread \in [Slots -> ThreadType]
    BY DEF TypeOK, ProcType, ThreadType
  <2>3. proc[Me(c)].state = "RUNNING"
    BY <1>1, <2>1 DEF Inv, RunInv, OnCpu, OnCpuOf, Switching, Me
  <2>4. ~proc[Me(c)].is_kernel
    BY <1>1, <2>1 DEF FamilyInv, KernelTasks, UserOnly, Forking
  <2>5. proc[0].state # "UNUSED" /\ 0 \in Slots
    BY <2>1, <2>3, Constants DEF FamilyInv, FirstSlot
  <2> QED
    BY <2>1, <2>2, <2>3, <2>4, <2>5
<1>duties. ASSUME \A q \in Slots : proc'[q].parent \in {proc[q].parent, NoProc, Me(c)},
                  \A q \in Slots : \/ thread'[q] = thread[q]
                                   \/ thread'[q].pc \notin Leaving \cup Forking
                                   \/ q = Me(c) /\ thread'[q].pc \in Forking
                                                /\ thread'[q].arg # 0
           PROVE  Duties'
  <2> SUFFICES ASSUME NEW p \in Slots
               PROVE  /\ thread'[p].pc \in Leaving =>
                           /\ p # init_proc'
                           /\ \A q \in Slots : q < KidsLeft(thread'[p]) =>
                                proc'[q].parent # p
                      /\ thread'[p].pc \in Forking => thread'[p].arg # 0
    BY DEF Duties, KidsLeft
  <2>1. CASE thread'[p] = thread[p]
    <3>1. thread[p].pc \in Leaving => p # Me(c) /\ p # NoProc
      BY <1>1, <1>2, Constants DEF Leaving
    <3> QED
      BY <1>1, <1>duties, <2>1, <3>1 DEF FamilyInv, Duties
  <2>2. CASE thread'[p].pc \notin Leaving \cup Forking
    BY <2>2
  <2>3. CASE thread'[p].pc \in Forking /\ thread'[p].arg # 0
    BY <2>3 DEF Forking, Leaving
  <2> QED
    BY <1>duties, <2>1, <2>2, <2>3
<1>row. ASSUME NEW x \in Slots \ {0}, NEW r, proc' = [proc EXCEPT ![x] = r],
               proc[x].state \in {"UNUSED", "USED"},
               ~r.is_kernel, r.state \in {"UNUSED", "USED"},
               r.parent \in {proc[x].parent, NoProc, Me(c)},
               \A q \in Slots : \/ thread'[q] = thread[q]
                                \/ thread'[q].pc \notin UserOnly
                                \/ q = Me(c) /\ thread'[q].pc \in Forking
                                             /\ thread'[q].arg # 0
        PROVE  FamilyInv'
  <2>1. proc'[x] = r /\ \A q \in Slots : q # x => proc'[q] = proc[q]
    BY <1>2, <1>row
  <2>2. /\ \A q \in Slots : proc[q].parent # x
        /\ init_proc # x
    BY <1>row, NotAParent DEF MayBeParent, Gone
  <2>3. x # Me(c)
    BY <1>2, <1>row
  <2>4. ParentsLive'
    <3>1. \A q \in Slots : q # x /\ MayBeParent(q) => LiveNext(q)
      BY <2>1 DEF MayBeParent, LiveNext
    <3>2. init_proc # NoProc => LiveNext(init_proc)
      BY <2>2, <3>1, Constants DEF FamilyInv, ParentsLive, TypeOK
    <3>3. \A q \in Slots : proc[q].parent # NoProc => LiveNext(proc[q].parent)
      BY <2>2, <3>1, Constants DEF FamilyInv, ParentsLive, TypeOK
    <3>4. LiveNext(Me(c))
      BY <1>2, <2>1, <2>3 DEF LiveNext, Gone
    <3>5. \A q \in Slots : proc'[q].parent \in {proc[q].parent, NoProc, Me(c)}
      BY <1>row, <2>1
    <3> QED
      BY <1>1, <3>2, <3>3, <3>4, <3>5 DEF ParentsLive, MayBeParent, LiveNext
  <2>5. KernelTasks'
    <3> SUFFICES ASSUME NEW p \in Slots,
                        proc'[p].state \in {"UNUSED", "USED"} \/ thread'[p].pc \in UserOnly
                 PROVE  ~proc'[p].is_kernel
      BY DEF KernelTasks
    <3>1. CASE p = x
      BY <1>row, <2>1, <3>1
    <3>2. CASE p = Me(c)
      BY <1>2, <2>1, <2>3, <3>2
    <3>3. CASE p # x /\ p # Me(c)
      BY <1>row, <2>1, <3>3 DEF FamilyInv, KernelTasks
    <3> QED
      BY <3>1, <3>2, <3>3
  <2>6. Duties'
    <3>1. \A q \in Slots : proc'[q].parent \in {proc[q].parent, NoProc, Me(c)}
      BY <1>row, <2>1
    <3> QED
      BY <1>duties, <1>row, <3>1 DEF UserOnly
  <2>7. FirstSlot'
    BY <1>2, <1>row, <2>1 DEF FamilyInv, FirstSlot
  <2> QED
    BY <2>4, <2>5, <2>6, <2>7 DEF FamilyInv
<1>mine. ASSUME OnlyMine(c),
                \/ thread'[Me(c)].pc \notin UserOnly
                \/ thread'[Me(c)].pc \in Forking /\ thread'[Me(c)].arg # 0
         PROVE  \A q \in Slots : \/ thread'[q] = thread[q]
                                 \/ thread'[q].pc \notin UserOnly
                                 \/ q = Me(c) /\ thread'[q].pc \in Forking
                                              /\ thread'[q].arg # 0
  BY <1>mine DEF OnlyMine
<1>fin. ASSUME Finish(c)
        PROVE  OnlyMine(c) /\ thread'[Me(c)].pc = "return"
               /\ thread'[Me(c)].pc \notin UserOnly
  BY <1>1, <1>fin, FinishEffect DEF UserOnly, Leaving, Forking
<1>go. ASSUME NEW label, Goto(c, label)
       PROVE  OnlyMine(c) /\ thread'[Me(c)].pc = label /\ thread'[Me(c)].arg = My(c).arg
  BY <1>1, <1>go, GotoEffect
<1>arg. My(c).pc \in Forking =>
          /\ My(c).arg \in Slots \ {0} /\ proc[My(c).arg].state = "USED"
          /\ ~proc[My(c).arg].is_kernel
  BY <1>2 DEF FamilyInv, Duties, KernelTasks, Inv, RunInv, Forks
<1>3. CASE ForkSlot(c)
  <2> DEFINE j == My(c).j
  <2>1. j \in Slots /\ My(c).pc = "fork"
    BY <1>2, <1>3 DEF ThreadType, ForkSlot, At, My
  <2>2. CASE /\ proc[j].state = "UNUSED"
             /\ proc' = [proc EXCEPT ![j] = Made(j, next_pid)]
    <3>1. PICK r : /\ proc' = [proc EXCEPT ![j] = r]
                   /\ r = Made(j, next_pid)
      BY <2>2
    <3>2. ~proc[j].is_kernel
      BY <2>1, <2>2 DEF FamilyInv, KernelTasks
    <3>3. ~r.is_kernel /\ r.state = "USED" /\ r.parent = proc[j].parent
      BY <1>2, <2>1, <3>1, <3>2 DEF Made, ProcType
    <3>4. j # 0 /\ j # Me(c)
      BY <1>2, <2>2
    <3>5. CASE thread' = [thread EXCEPT
                  ![j] = AtPc("born"),
                  ![Me(c)] = [My(c) EXCEPT !.pc = "fork_copy", !.j = 0, !.arg = j]]
      <4>1. /\ thread'[j] = AtPc("born")
            /\ thread'[Me(c)] = [My(c) EXCEPT !.pc = "fork_copy", !.j = 0, !.arg = j]
            /\ \A q \in Slots \ {j, Me(c)} : thread'[q] = thread[q]
        BY <1>2, <2>1, <3>4, <3>5
      <4>2. thread'[j].pc = "born"
        BY <4>1 DEF AtPc
      <4>3. thread'[Me(c)].pc = "fork_copy" /\ thread'[Me(c)].arg = j
        BY <1>2, <4>1 DEF ThreadType
      <4>4. \A q \in Slots : \/ thread'[q] = thread[q]
                             \/ thread'[q].pc \notin UserOnly
                             \/ q = Me(c) /\ thread'[q].pc \in Forking
                                          /\ thread'[q].arg # 0
        BY <3>4, <4>1, <4>2, <4>3 DEF UserOnly, Leaving, Forking
      <4> HIDE DEF j
      <4> QED
        BY <1>row, <2>1, <2>2, <3>1, <3>3, <3>4, <4>4
    <3>6. CASE Finish(c)
      <4>1. \A q \in Slots : \/ thread'[q] = thread[q]
                             \/ thread'[q].pc \notin UserOnly
                             \/ q = Me(c) /\ thread'[q].pc \in Forking
                                          /\ thread'[q].arg # 0
        BY <1>fin, <1>mine, <3>6
      <4> HIDE DEF j
      <4> QED
        BY <1>row, <2>1, <2>2, <3>1, <3>3, <3>4, <4>1
    <3> QED
      BY <1>2, <1>3, <2>2, <3>5, <3>6 DEF ForkSlot, My, Me
  <2>3. CASE /\ proc[j].state # "UNUSED" /\ UNCHANGED proc
             /\ \/ thread' = [thread EXCEPT ![Me(c)].j = j + 1]
                \/ Finish(c)
    <3>1. OnlyMine(c) /\ thread'[Me(c)].pc \in {"fork", "return"}
      <4>1. CASE thread' = [thread EXCEPT ![Me(c)].j = j + 1]
        <5>1. OnlyMine(c) /\ thread'[Me(c)] = [My(c) EXCEPT !.j = j + 1]
          BY <1>2, <4>1 DEF OnlyMine
        <5>2. [My(c) EXCEPT !.j = j + 1].pc = "fork"
          BY <1>2, <2>1 DEF ThreadType
        <5> QED
          BY <5>1, <5>2
      <4> QED
        BY <1>fin, <2>3, <4>1
    <3>2. SameDuty(Me(c))
      BY <1>2, <3>1 DEF SameDuty, UserOnly, Leaving, Forking
    <3> QED
      BY <1>1, <2>3, <3>1, <3>2, MyDuty, FamilySame
  <2> QED
    BY <1>3, <2>2, <2>3 DEF ForkSlot
<1>4. CASE ForkCopy(c)
  <2>1. My(c).pc = "fork_copy" /\ My(c).pc \in Forking
    BY <1>4 DEF ForkCopy, At, My, Forking
  <2>2. CASE Goto(c, "fork_parent") /\ UNCHANGED proc
    <3>1. OnlyMine(c) /\ thread'[Me(c)].pc = "fork_parent"
          /\ thread'[Me(c)].arg = My(c).arg
      BY <1>go, <2>2
    <3>2. SameDuty(Me(c))
      BY <1>2, <2>1, <3>1 DEF SameDuty, UserOnly, Leaving, Forking
    <3> QED
      BY <1>1, <2>2, <3>1, <3>2, MyDuty, FamilySame
  <2>3. CASE /\ proc' = [proc EXCEPT ![My(c).arg] = free_process(proc[My(c).arg])]
             /\ Finish(c)
    <3>1. PICK r : /\ proc' = [proc EXCEPT ![My(c).arg] = r]
                   /\ r = free_process(proc[My(c).arg])
      BY <2>3
    <3>2. ~r.is_kernel /\ r.state = "UNUSED" /\ r.parent = NoProc
      BY <1>2, <1>arg, <2>1, <3>1 DEF free_process, ProcType
    <3> QED
      BY <1>arg, <1>fin, <1>mine, <1>row, <2>1, <2>3, <3>1, <3>2
  <2> QED
    BY <1>4, <2>2, <2>3 DEF ForkCopy
<1>5. CASE ForkParent(c)
  <2>1. My(c).pc = "fork_parent" /\ My(c).pc \in Forking /\ Goto(c, "fork_ready")
    BY <1>5 DEF ForkParent, At, My, Forking
  <2>2. PICK r : /\ proc' = [proc EXCEPT ![My(c).arg] = r]
                 /\ r = [proc[My(c).arg] EXCEPT !.parent = Me(c)]
    BY <1>5 DEF ForkParent
  <2>3. ~r.is_kernel /\ r.state = "USED" /\ r.parent = Me(c)
    BY <1>2, <1>arg, <2>1, <2>2 DEF ProcType
  <2>4. OnlyMine(c) /\ thread'[Me(c)].pc \in Forking /\ thread'[Me(c)].arg # 0
    BY <1>arg, <1>go, <2>1 DEF Forking
  <2> QED
    BY <1>arg, <1>mine, <1>row, <2>1, <2>2, <2>3, <2>4
<1> QED
  BY <1>3, <1>4, <1>5

LEMMA FamilyInvInit == Init => FamilyInv
<1> SUFFICES ASSUME Init PROVE FamilyInv
  OBVIOUS
<1>1. /\ \A p \in Slots : /\ proc[p].state = "UNUSED" /\ proc[p].parent = NoProc
                          /\ ~proc[p].is_kernel /\ thread[p].pc = "born"
      /\ init_proc = NoProc /\ 0 \in Slots
  BY Constants DEF Init, UnusedProc, AtPc
<1> QED
  BY <1>1 DEF FamilyInv, ParentsLive, KernelTasks, Duties, FirstSlot, UserOnly, Leaving,
     Forking

LEMMA FamilyInvNext == TypeOK /\ Inv /\ FamilyInv /\ [Next]_vars => FamilyInv'
<1> SUFFICES ASSUME TypeOK, Inv, FamilyInv, [Next]_vars PROVE FamilyInv'
  OBVIOUS
<1>1. CASE UNCHANGED vars
  BY <1>1, FamilySame, FamilyKept, SameThread DEF vars
<1>2. ASSUME NEW c \in Cpus, SchedulerStep(c) PROVE FamilyInv'
  BY <1>2, FamilyBoot, FamilyScheduler DEF SchedulerStep
<1>3. ASSUME NEW c \in Cpus, KernelStep(c) PROVE FamilyInv'
  BY <1>3, FamilyScheduler, FamilyCalls, FamilyReparent, FamilyDeath, FamilyFork
     DEF KernelStep
<1>4. ASSUME NEW c \in Cpus, CallYield(c) \/ ProcessCalls(c) PROVE FamilyInv'
  BY <1>4, FamilyScheduler, FamilyCalls, FamilyDeath DEF ProcessCalls
<1> QED
  BY <1>1, <1>2, <1>3, <1>4 DEF Next

\* A parent lives as long as its children, and nobody in slot 0 is anybody's child: no
\* child is adopted by whatever takes its parent's slot next, and wait(), which looks no
\* further than slot 0, never finds one.  For any number of CPUs and processes, any calls
\* and any failures.
THEOREM FamilyCorrect == Spec => []FamilyIsSound
<1>1. TypeOK /\ Inv /\ FamilyInv => FamilyIsSound
  BY DEF FamilyInv, ParentsLive, MayBeParent, Gone, FirstSlot, FamilyIsSound,
     ParentIsAlive, FirstSlotIsNobodysChild
<1>2. Spec => [](TypeOK /\ Inv)
  <2>1. IInv => TypeOK /\ Inv
    BY DEF IInv, Inv
  <2> QED
    BY <2>1, IInvCorrect, PTL
<1> QED
  BY <1>1, <1>2, FamilyInvInit, FamilyInvNext, PTL DEF Spec

-----------------------------------------------------------------------------
(***************************************************************************)
(* Two properties of one CPU, where nothing comes between the steps of a   *)
(* call or of the scan.                                                    *)
(***************************************************************************)
\* Nobody is marked killed, put to sleep, or started.
StaysAwake ==
  \A q \in Slots :
    /\ proc'[q].killed => proc[q].killed
    /\ proc'[q].state = "SLEEPING" => proc[q].state = "SLEEPING"

NothingStarts ==
  \A q \in Slots : proc'[q].state = "RUNNING" => proc[q].state = "RUNNING"

LEMMA StillRow ==
  ASSUME TypeOK, NEW x, NEW r, proc' = [proc EXCEPT ![x] = r],
         x \in Slots => /\ r.killed => proc[x].killed
                        /\ r.state = "SLEEPING" => proc[x].state = "SLEEPING"
                        /\ r.state = "RUNNING" => proc[x].state = "RUNNING"
  PROVE  StaysAwake /\ NothingStarts
<1>1. proc \in [Slots -> ProcType]
  BY DEF TypeOK, ProcType
<1> QED
  BY <1>1 DEF StaysAwake, NothingStarts

LEMMA StillSame == UNCHANGED proc => StaysAwake /\ NothingStarts
BY DEF StaysAwake, NothingStarts

LEMMA StillProc ==
  ASSUME TypeOK, NEW c \in Cpus,
         \/ Boot(c) \/ BootFails(c) \/ StartSchedulers(c) \/ ScanSlot(c) \/ Idle(c)
         \/ SchedulerResumes(c) \/ AcquirePanic(c) \/ Sched(c) \/ Start(c) \/ Return(c)
         \/ CallYield(c) \/ Yield(c) \/ Yielded(c) \/ CallExit(c) \/ CallWait(c)
         \/ CallAwait(c) \/ CallFork(c) \/ CallKill(c) \/ CallSetkilled(c)
         \/ InitExits(c) \/ TaskReturns(c)
         \/ Exit(c) \/ Reparent(c) \/ Wakeup(c) \/ BecomeZombie(c)
         \/ WaitEnter(c) \/ WaitFails(c) \/ AwaitEnter(c) \/ Awaited(c) \/ AwaitMore(c)
         \/ AwaitKilled(c) \/ Slept(c) \/ Rewait(c)
         \/ ForkSlot(c) \/ ForkCopy(c) \/ ForkParent(c) \/ ForkReady(c)
  PROVE  StaysAwake /\ NothingStarts
<1>1. proc \in [Slots -> ProcType]
  BY DEF TypeOK, ProcType
<1>2. ASSUME NEW x, NEW r, proc' = [proc EXCEPT ![x] = r],
             x \in Slots =>
               \/ \E st \in {"RUNNABLE", "ZOMBIE"} : r = [proc[x] EXCEPT !.state = st]
               \/ r = [proc[x] EXCEPT !.state = "ZOMBIE", !.xstate = 1]
               \/ r = [proc[x] EXCEPT !.chan = NoProc]
               \/ \E y : r = [proc[x] EXCEPT !.parent = y]
               \/ r = free_process(proc[x])
               \/ \E pid, kind :
                    \/ r = Made(x, pid)
                    \/ r = FromCode(Made(x, pid))
                    \/ r = KernelTask(Made(x, pid), kind)
                    \/ r = free_process(Made(x, pid))
      PROVE  StaysAwake /\ NothingStarts
  <2>1. ASSUME x \in Slots
        PROVE  /\ r.killed => proc[x].killed
               /\ r.state = "SLEEPING" => proc[x].state = "SLEEPING"
               /\ r.state = "RUNNING" => proc[x].state = "RUNNING"
    <3>1. proc[x] \in ProcType
      BY <1>1, <2>1
    <3>2. CASE r = free_process(proc[x])
      BY <3>1, <3>2 DEF free_process, ProcType
    <3>3. CASE \E pid, kind :
                 \/ r = Made(x, pid)
                 \/ r = FromCode(Made(x, pid))
                 \/ r = KernelTask(Made(x, pid), kind)
                 \/ r = free_process(Made(x, pid))
      BY <3>1, <3>3 DEF Made, FromCode, KernelTask, free_process, ProcType
    <3>4. CASE \/ \E st \in {"RUNNABLE", "ZOMBIE"} : r = [proc[x] EXCEPT !.state = st]
               \/ r = [proc[x] EXCEPT !.state = "ZOMBIE", !.xstate = 1]
               \/ r = [proc[x] EXCEPT !.chan = NoProc]
               \/ \E y : r = [proc[x] EXCEPT !.parent = y]
      BY <3>1, <3>4 DEF ProcType
    <3> QED
      BY <1>2, <2>1, <3>2, <3>3, <3>4
  <2> QED
    BY <1>2, <2>1, StillRow
<1>3. CASE Boot(c) \/ BootFails(c)
  <2>1. PICK p : \/ UNCHANGED proc
                 \/ proc' = [proc EXCEPT ![p] = KernelTask(Made(p, next_pid), BootKind(c))]
                 \/ proc' = [proc EXCEPT ![p] = FromCode(Made(p, next_pid))]
                 \/ proc' = [proc EXCEPT ![p] = Made(p, next_pid)]
                 \/ proc' = [proc EXCEPT ![p] = free_process(Made(p, next_pid))]
    BY <1>3 DEF Boot, BootFails
  <2> QED
    BY Zenon, <1>2, <2>1, StillSame
<1>4. CASE Yield(c) \/ TaskReturns(c) \/ BecomeZombie(c) \/ Slept(c)
  <2>1. PICK r : /\ proc' = [proc EXCEPT ![Me(c)] = r]
                 /\ \/ r = [proc[Me(c)] EXCEPT !.state = "RUNNABLE"]
                    \/ r = [proc[Me(c)] EXCEPT !.state = "ZOMBIE"]
                    \/ r = [proc[Me(c)] EXCEPT !.state = "ZOMBIE", !.xstate = 1]
                    \/ r = [proc[Me(c)] EXCEPT !.chan = NoProc]
    BY <1>4 DEF Yield, TaskReturns, BecomeZombie, Slept
  <2> QED
    BY <1>2, <2>1
<1>5. CASE Reparent(c) \/ Wakeup(c)
  <2>1. \/ UNCHANGED proc
        \/ \E x, r : /\ proc' = [proc EXCEPT ![x] = r]
                     /\ \/ r = [proc[x] EXCEPT !.parent = init_proc]
                        \/ r = [proc[x] EXCEPT !.state = "RUNNABLE"]
    BY Zenon, <1>5 DEF Reparent, Wakeup, WakeSlot
  <2> QED
    BY Zenon, <1>2, <2>1, StillSame
<1>6. CASE ForkSlot(c) \/ ForkCopy(c) \/ ForkParent(c) \/ ForkReady(c)
  <2>1. \/ UNCHANGED proc
        \/ \E x, r : /\ proc' = [proc EXCEPT ![x] = r]
                     /\ \/ r = Made(x, next_pid)
                        \/ r = free_process(proc[x])
                        \/ r = [proc[x] EXCEPT !.parent = Me(c)]
                        \/ r = [proc[x] EXCEPT !.state = "RUNNABLE"]
    BY <1>6 DEF ForkSlot, ForkCopy, ForkParent, ForkReady
  <2> QED
    BY Zenon, <1>2, <2>1, StillSame
<1>7. CASE \/ StartSchedulers(c) \/ ScanSlot(c) \/ Idle(c) \/ SchedulerResumes(c)
           \/ AcquirePanic(c) \/ Sched(c) \/ Start(c) \/ Return(c)
           \/ CallYield(c) \/ Yielded(c) \/ CallExit(c) \/ CallWait(c)
           \/ CallAwait(c) \/ CallFork(c) \/ CallKill(c) \/ CallSetkilled(c)
           \/ InitExits(c) \/ Exit(c) \/ WaitEnter(c) \/ WaitFails(c) \/ AwaitEnter(c)
           \/ Awaited(c) \/ AwaitMore(c) \/ AwaitKilled(c) \/ Rewait(c)
  <2>1. UNCHANGED proc
    BY Zenon, <1>7
       DEF StartSchedulers, ScanSlot, Idle, SchedulerResumes, AcquirePanic, Sched,
       sched, Start, Return, CallYield, Yielded, CallExit, CallWait, CallAwait, CallFork,
       CallKill, CallSetkilled, Call, InitExits, Exit, WaitEnter, WaitFails, WaitReturns,
       AwaitEnter, Awaited, AwaitMore, AwaitKilled, Rewait
  <2> QED
    BY <2>1, StillSame
<1> QED
  BY <1>3, <1>4, <1>5, <1>6, <1>7

\* Who is marked killed or put to sleep, and by whom.
LEMMA KillProc ==
  ASSUME TypeOK, NEW c \in Cpus, Kill(c) \/ Setkilled(c) \/ Sleep(c)
  PROVE  /\ NothingStarts
         /\ Kill(c) => \A q \in Slots :
              /\ proc'[q].state = "SLEEPING" => proc[q].state = "SLEEPING"
              /\ proc'[q].killed => proc[q].killed \/ proc'[q].state # "SLEEPING"
         /\ Setkilled(c) => \A q \in Slots :
              /\ proc'[q].state = proc[q].state
              /\ proc'[q].killed => proc[q].killed \/ q = My(c).arg
         /\ Sleep(c) => \A q \in Slots :
              /\ proc'[q].killed = proc[q].killed
              /\ proc'[q].state = "SLEEPING" => proc[q].state = "SLEEPING" \/ q = Me(c)
<1>1. proc \in [Slots -> ProcType]
  BY DEF TypeOK, ProcType
<1>2. CASE Kill(c)
  <2>1. CASE UNCHANGED proc
    BY <2>1 DEF NothingStarts, Setkilled, Sleep, Kill, At
  <2>2. CASE proc' = [proc EXCEPT ![My(c).j] = Killed(proc[My(c).j])]
    <3>1. PICK x, r : proc' = [proc EXCEPT ![x] = r] /\ r = Killed(proc[x])
      BY <2>2
    <3>2. x \in Slots => /\ r.state \in {proc[x].state, "RUNNABLE"}
                         /\ r.state # "SLEEPING"
      BY <1>1, <3>1 DEF ProcType, Killed
    <3>3. \A q \in Slots : q # x => proc'[q] = proc[q]
      BY <1>1, <3>1
    <3>4. x \in Slots => proc'[x] = r
      BY <1>1, <3>1
    <3>5. \A q \in Slots :
            /\ proc'[q].state = "SLEEPING" => proc[q].state = "SLEEPING"
            /\ proc'[q].killed => proc[q].killed \/ proc'[q].state # "SLEEPING"
            /\ proc'[q].state = "RUNNING" => proc[q].state = "RUNNING"
      BY <3>2, <3>3, <3>4
    <3>6. ~Setkilled(c) /\ ~Sleep(c)
      BY <1>2 DEF Kill, Setkilled, Sleep, At
    <3> QED
      BY <3>5, <3>6 DEF NothingStarts
  <2> QED
    BY <1>2, <2>1, <2>2 DEF Kill
<1>3. CASE Setkilled(c)
  <2>1. PICK x, r : /\ proc' = [proc EXCEPT ![x] = r] /\ x = My(c).arg
                    /\ r = [proc[x] EXCEPT !.killed = TRUE]
    BY <1>3 DEF Setkilled
  <2>2. x \in Slots => r.state = proc[x].state
    BY <1>1, <2>1 DEF ProcType
  <2>3. /\ \A q \in Slots : q # x => proc'[q] = proc[q]
        /\ x \in Slots => proc'[x] = r
    BY <1>1, <2>1
  <2>4. ~Kill(c) /\ ~Sleep(c)
    BY <1>3 DEF Kill, Setkilled, Sleep, At
  <2> QED
    BY <2>1, <2>2, <2>3, <2>4 DEF NothingStarts
<1>4. CASE Sleep(c)
  <2>1. PICK x, r : /\ proc' = [proc EXCEPT ![x] = r] /\ x = Me(c)
                    /\ r = [proc[x] EXCEPT !.chan = Me(c), !.state = "SLEEPING"]
    BY <1>4 DEF Sleep
  <2>2. x \in Slots => r.state = "SLEEPING" /\ r.killed = proc[x].killed
    BY <1>1, <2>1 DEF ProcType
  <2>3. /\ \A q \in Slots : q # x => proc'[q] = proc[q]
        /\ x \in Slots => proc'[x] = r
    BY <1>1, <2>1
  <2>4. ~Kill(c) /\ ~Setkilled(c)
    BY <1>4 DEF Kill, Setkilled, Sleep, At
  <2> QED
    BY <2>1, <2>2, <2>3, <2>4 DEF NothingStarts
<1> QED
  BY <1>2, <1>3, <1>4

\* What the thread of a process that is about to sleep, or to mark itself, has seen.
DrowsyThreads ==
  \A p \in Slots :
    /\ thread[p].pc = "setkilled" => thread[p].arg = p
    /\ thread[p].pc = "sleep" => ~proc[p].killed

AwakeInv == KilledIsAwake /\ DrowsyThreads

\* No thread comes to these two labels but by AwaitKilled and CallSetkilled.
Drowsy == {"sleep", "setkilled"}

NobodyDrowsy ==
  \A q \in Slots : thread'[q] = thread[q] \/ thread'[q].pc \notin Drowsy

LEMMA StillThread ==
  ASSUME TypeOK, Inv, NEW c \in Cpus,
         SchedulerStep(c) \/ KernelStep(c) \/ CallYield(c) \/ ProcessCalls(c),
         ~AwaitKilled(c), ~CallSetkilled(c)
  PROVE  NobodyDrowsy
<1>1. thread \in [Slots -> ThreadType]
  BY DEF TypeOK, ThreadType
<1>at. ASSUME cpu[c].on # NoProc
       PROVE  Me(c) \in Slots /\ My(c) = thread[Me(c)] /\ My(c) \in ThreadType
  BY <1>at, OnCpuType DEF Me, My, ThreadType
<1>mine. ASSUME OnlyMine(c), thread'[Me(c)].pc \notin Drowsy
         PROVE  NobodyDrowsy
  BY <1>mine DEF NobodyDrowsy, OnlyMine
<1>set. ASSUME cpu[c].on # NoProc, NEW t, thread' = [thread EXCEPT ![Me(c)] = t],
               t.pc \notin Drowsy
        PROVE  NobodyDrowsy
  BY <1>1, <1>at, <1>set DEF NobodyDrowsy
<1>goto. ASSUME cpu[c].on # NoProc, NEW label, Goto(c, label), label \notin Drowsy
         PROVE  NobodyDrowsy
  BY <1>goto, <1>mine, GotoEffect
<1>fin. ASSUME cpu[c].on # NoProc, Finish(c)
        PROVE  NobodyDrowsy
  BY <1>fin, <1>mine, FinishEffect DEF Drowsy
<1>same. ASSUME UNCHANGED thread PROVE NobodyDrowsy
  BY <1>same DEF NobodyDrowsy
<1>2. CASE SchedulerStep(c) \/ AcquirePanic(c) \/ InitExits(c)
  BY Zenon, <1>2, <1>same DEF SchedulerStep, AcquirePanic, InitExits, Boot, BootFails,
     StartSchedulers, ScanSlot, Dispatch, Idle, SchedulerResumes
<1>3. CASE Sched(c)
  <2>1. PICK from \in Switching, to \in {"yielded", "slept", "zombie"} :
          sched(c, from, to)
    BY <1>3 DEF Sched, Switching
  <2>2. cpu[c].on # NoProc
    BY <2>1 DEF sched, At
  <2>3. [thread[Me(c)] EXCEPT !.pc = to, !.saved = cpu[c].intena].pc = to
    BY <1>at, <2>2 DEF ThreadType
  <2> QED
    BY <1>same, <1>set, <2>1, <2>2, <2>3 DEF sched, Drowsy
<1>4. CASE Start(c) \/ Return(c) \/ CallYield(c)
  <2>1. ASSUME NEW label, NEW b
        PROVE  [AtPc(label) EXCEPT !.before = b].pc = label /\ AtPc(label).pc = label
    BY DEF AtPc
  <2>2. cpu[c].on # NoProc
    BY <1>4 DEF Start, Return, CallYield, At
  <2>3. PICK t : /\ thread' = [thread EXCEPT ![Me(c)] = t]
                 /\ \/ t = [AtPc("return") EXCEPT !.before = 1]
                    \/ t = AtPc("run")
                    \/ t = [AtPc("yield") EXCEPT !.before = cpu[c].sie]
    BY <1>4 DEF Start, Return, CallYield
  <2>4. t.pc \in {"return", "run", "yield"}
    <3>1. CASE t = [AtPc("return") EXCEPT !.before = 1]
      BY <2>1, <3>1
    <3>2. CASE t = AtPc("run")
      BY <2>1, <3>2
    <3>3. CASE t = [AtPc("yield") EXCEPT !.before = cpu[c].sie]
      BY <2>1, <3>3
    <3> QED
      BY <2>3, <3>1, <3>2, <3>3
  <2> QED
    BY <1>set, <2>2, <2>3, <2>4 DEF Drowsy
<1>5. CASE CallExit(c) \/ CallWait(c) \/ CallAwait(c) \/ CallFork(c) \/ CallKill(c)
  <2>1. PICK label \in {"exit", "wait_enter", "await_enter", "fork", "kill"} :
          \E call, arg : Call(c, call, label, arg)
    BY <1>5 DEF CallExit, CallWait, CallAwait, CallFork, CallKill
  <2>2. \A arg : [AtPc(label) EXCEPT !.arg = arg, !.before = 1].pc = label
    BY DEF AtPc
  <2> QED
    BY <1>set, <2>1, <2>2 DEF Call, At, Drowsy
<1>6. CASE Yield(c) \/ Exit(c) \/ BecomeZombie(c) \/ TaskReturns(c) \/ WaitEnter(c)
           \/ AwaitEnter(c) \/ AwaitMore(c) \/ Sleep(c) \/ Slept(c) \/ Rewait(c)
           \/ ForkParent(c)
  BY <1>6, <1>goto DEF Yield, Exit, BecomeZombie, TaskReturns, WaitEnter, AwaitEnter,
     AwaitMore, Sleep, Slept, Rewait, ForkParent, At, Drowsy
<1>7. CASE Yielded(c) \/ WaitFails(c) \/ Awaited(c) \/ Setkilled(c) \/ ForkReady(c)
  BY <1>7, <1>fin DEF Yielded, WaitFails, Awaited, WaitReturns, Setkilled, ForkReady, At
<1>8. CASE Reparent(c)
  <2>1. cpu[c].on # NoProc
    BY <1>8 DEF Reparent, At
  <2>2. PICK t : /\ thread' = [thread EXCEPT ![Me(c)] = t]
                 /\ \/ \E i : t = [My(c) EXCEPT !.pc = "reparent_wake", !.i = i + 1,
                                                !.j = 0, !.arg = init_proc]
                    \/ t = [My(c) EXCEPT !.pc = "exit_wake", !.i = 0, !.j = 0,
                                         !.arg = proc[Me(c)].parent]
    <3>1. ASSUME NEW kid,
                 thread' = [thread EXCEPT ![Me(c)] =
                   [@ EXCEPT !.pc = "reparent_wake", !.i = kid + 1, !.j = 0,
                             !.arg = init_proc]]
          PROVE  thread' = [thread EXCEPT ![Me(c)] =
                   [My(c) EXCEPT !.pc = "reparent_wake", !.i = kid + 1, !.j = 0,
                                 !.arg = init_proc]]
      BY <1>at, <2>1, <3>1
    <3>2. ASSUME thread' = [thread EXCEPT ![Me(c)] =
                   [@ EXCEPT !.pc = "exit_wake", !.i = 0, !.j = 0,
                             !.arg = proc[Me(c)].parent]]
          PROVE  thread' = [thread EXCEPT ![Me(c)] =
                   [My(c) EXCEPT !.pc = "exit_wake", !.i = 0, !.j = 0,
                                 !.arg = proc[Me(c)].parent]]
      BY <1>at, <2>1, <3>2
    <3> QED
      BY Zenon, <1>8, <3>1, <3>2 DEF Reparent
  <2>3. t.pc \in {"reparent_wake", "exit_wake"}
    BY <1>at, <2>1, <2>2 DEF ThreadType
  <2> QED
    BY <1>set, <2>1, <2>2, <2>3 DEF Drowsy
<1>9. CASE Wakeup(c)
  <2>1. PICK label \in {"reparent_wake", "exit_wake"}, next \in {"reparent", "exit_lock"} :
          WakeSlot(c, label, next)
    BY <1>9 DEF Wakeup
  <2>2. cpu[c].on # NoProc /\ My(c).pc = label
    BY <2>1 DEF WakeSlot, At, My
  <2>3. PICK t : /\ thread' = [thread EXCEPT ![Me(c)] = t]
                 /\ \/ t = [My(c) EXCEPT !.j = My(c).j + 1]
                    \/ t = [My(c) EXCEPT !.pc = next, !.j = 0, !.arg = NoProc]
    BY <1>at, <2>1, <2>2 DEF WakeSlot
  <2>4. t.pc \in {label, next}
    BY <1>at, <2>2, <2>3 DEF ThreadType
  <2> QED
    BY <1>set, <2>2, <2>3, <2>4 DEF Drowsy
<1>10. CASE Kill(c) \/ ForkCopy(c)
  <2>1. cpu[c].on # NoProc /\ My(c).pc \in {"kill", "fork_copy"}
    BY <1>10 DEF Kill, ForkCopy, At, My
  <2>2. [My(c) EXCEPT !.j = My(c).j + 1].pc = My(c).pc
    BY <1>at, <2>1 DEF ThreadType
  <2>3. \/ Finish(c) \/ Goto(c, "fork_parent")
        \/ thread' = [thread EXCEPT ![Me(c)] = [My(c) EXCEPT !.j = My(c).j + 1]]
    BY <1>10, <1>at, <2>1 DEF Kill, ForkCopy
  <2> QED
    BY <1>fin, <1>goto, <1>set, <2>1, <2>2, <2>3 DEF Drowsy
<1>11. CASE ForkSlot(c)
  <2> DEFINE j == My(c).j
  <2>1. cpu[c].on # NoProc /\ My(c).pc = "fork"
    BY <1>11 DEF ForkSlot, At, My
  <2>2. /\ [My(c) EXCEPT !.j = j + 1].pc = "fork"
        /\ [My(c) EXCEPT !.pc = "fork_copy", !.j = 0, !.arg = j].pc = "fork_copy"
        /\ AtPc("born").pc = "born"
    BY <1>at, <2>1 DEF ThreadType, AtPc
  <2>3. CASE \/ Finish(c)
             \/ thread' = [thread EXCEPT ![Me(c)] = [My(c) EXCEPT !.j = j + 1]]
    BY <1>fin, <1>set, <2>1, <2>2, <2>3 DEF Drowsy
  <2>4. CASE proc[j].state = "UNUSED" /\ thread' = [thread EXCEPT
                 ![j] = AtPc("born"),
                 ![Me(c)] = [@ EXCEPT !.pc = "fork_copy", !.j = 0, !.arg = j]]
    <3>1. j # Me(c)
      BY <1>at, <2>1, <2>4 DEF Inv, RunInv, OnCpu, OnCpuOf, Switching, Me
    <3>2. \A q \in Slots \ {j, Me(c)} : thread'[q] = thread[q]
      BY <1>1, <1>at, <2>1, <2>4
    <3>3. thread'[Me(c)].pc = "fork_copy"
      BY <1>1, <1>at, <2>1, <2>4, <3>1 DEF ThreadType
    <3>4. j \in Slots => thread'[j].pc = "born"
      BY <1>1, <1>at, <2>1, <2>2, <2>4, <3>1
    <3>5. \A q \in Slots : \/ thread'[q] = thread[q]
                           \/ thread'[q].pc \in {"born", "fork_copy"}
      BY <3>1, <3>2, <3>3, <3>4
    <3> QED
      BY <3>5 DEF NobodyDrowsy, Drowsy
  <2> QED
    BY <1>11, <1>at, <2>1, <2>3, <2>4 DEF ForkSlot
<1> QED
  BY <1>2, <1>3, <1>4, <1>5, <1>6, <1>7, <1>8, <1>9, <1>10, <1>11
     DEF KernelStep, ProcessCalls

LEMMA AwakeInvNext ==
  ASSUME \A c \in Cpus : c = BootCpu
  PROVE  TypeOK /\ Inv /\ AwakeInv /\ [Next]_vars => AwakeInv'
<1> SUFFICES ASSUME TypeOK, Inv, AwakeInv, [Next]_vars PROVE AwakeInv'
  OBVIOUS
<1>same. CASE UNCHANGED vars
  BY <1>same DEF vars, AwakeInv, KilledIsAwake, DrowsyThreads
<1>mine. ASSUME NEW c \in Cpus, NEW p \in Slots, thread[p].pc \in Drowsy
         PROVE  p = Me(c) /\ cpu[c].on # NoProc
  <2>1. PICK d \in Cpus : cpu[d].on = p
    BY <1>mine DEF Inv, RunInv, ParkedOffCpu, Parked, Drowsy
  <2>2. d = c
    OBVIOUS
  <2> QED
    BY <2>1, <2>2, Constants DEF Me
<1>still. ASSUME StaysAwake, NobodyDrowsy PROVE AwakeInv'
  <2>1. KilledIsAwake'
    BY <1>still DEF AwakeInv, KilledIsAwake, StaysAwake
  <2>2. DrowsyThreads'
    BY <1>still DEF AwakeInv, DrowsyThreads, StaysAwake, NobodyDrowsy, Drowsy
  <2> QED
    BY <2>1, <2>2 DEF AwakeInv
<1>next. ASSUME NEW c \in Cpus,
                SchedulerStep(c) \/ KernelStep(c) \/ CallYield(c) \/ ProcessCalls(c)
         PROVE  AwakeInv'
  <2>at. ASSUME cpu[c].on # NoProc
         PROVE  /\ Me(c) \in Slots /\ My(c) = thread[Me(c)]
                /\ My(c).pc \notin Switching => proc[Me(c)].state = "RUNNING"
    BY <2>at, OnCpuType DEF Inv, RunInv, OnCpu, OnCpuOf, Me, My
  <2>1. CASE AwaitKilled(c)
    <3>1. cpu[c].on # NoProc /\ UNCHANGED proc
      BY <2>1 DEF AwaitKilled, WaitReturns, At
    <3>2. CASE ~proc[Me(c)].killed /\ Goto(c, "sleep")
      <4>1. /\ OnlyMine(c) /\ thread'[Me(c)].pc = "sleep"
        BY <3>1, <3>2, GotoEffect
      <4> QED
        BY <3>1, <3>2, <4>1 DEF AwakeInv, KilledIsAwake, DrowsyThreads, OnlyMine
    <3>3. CASE Finish(c)
      <4>1. /\ OnlyMine(c) /\ thread'[Me(c)].pc = "return"
        BY <3>1, <3>3, FinishEffect
      <4> QED
        BY <3>1, <4>1, <1>still, StillSame DEF NobodyDrowsy, OnlyMine, Drowsy
    <3> QED
      BY <2>1, <3>2, <3>3 DEF AwaitKilled, WaitReturns
  <2>2. CASE CallSetkilled(c)
    <3>1. /\ cpu[c].on # NoProc /\ UNCHANGED proc
          /\ thread' = [thread EXCEPT ![Me(c)] =
                          [AtPc("setkilled") EXCEPT !.arg = Me(c), !.before = 1]]
      BY <2>2 DEF CallSetkilled, Call, At
    <3>2. /\ [AtPc("setkilled") EXCEPT !.arg = Me(c), !.before = 1].pc = "setkilled"
          /\ [AtPc("setkilled") EXCEPT !.arg = Me(c), !.before = 1].arg = Me(c)
      BY DEF AtPc
    <3>3. OnlyMine(c) /\ thread'[Me(c)].pc = "setkilled" /\ thread'[Me(c)].arg = Me(c)
      BY <2>at, <3>1, <3>2 DEF OnlyMine, TypeOK
    <3> QED
      BY <3>1, <3>3 DEF AwakeInv, KilledIsAwake, DrowsyThreads, OnlyMine
  <2>3. CASE Kill(c) \/ Setkilled(c) \/ Sleep(c)
    <3>1. NobodyDrowsy
      BY Zenon, <1>next, <2>3, StillThread
         DEF Kill, Setkilled, Sleep, AwaitKilled, CallSetkilled,
         Call, At
    <3>2. cpu[c].on # NoProc /\ My(c).pc \in {"kill", "setkilled", "sleep"}
      BY <2>3 DEF Kill, Setkilled, Sleep, At, My
    <3>3. proc[Me(c)].state = "RUNNING"
      BY <2>at, <3>2 DEF Switching
    <3>4. /\ Kill(c) => My(c).pc = "kill"
          /\ Setkilled(c) => My(c).pc = "setkilled"
          /\ Sleep(c) => My(c).pc = "sleep"
      BY DEF Kill, Setkilled, Sleep, At, My
    <3>5. thread'[Me(c)].pc \notin Drowsy
      <4>1. CASE Sleep(c)
        BY <3>2, <4>1, GotoEffect DEF Sleep, Drowsy
      <4>2. CASE Setkilled(c)
        BY <3>2, <4>2, FinishEffect DEF Setkilled, Drowsy
      <4>3. CASE Kill(c)
        BY <2>at, <3>1, <3>2, <3>4, <4>3 DEF NobodyDrowsy, Drowsy
      <4> QED
        BY <2>3, <4>1, <4>2, <4>3
    <3>6. \A p \in Slots : thread'[p].pc \notin Drowsy
      BY <1>mine, <3>1, <3>5 DEF NobodyDrowsy
    <3>7. DrowsyThreads'
      BY <3>6 DEF DrowsyThreads, Drowsy
    <3>8. KilledIsAwake'
      <4>1. CASE Kill(c)
        BY <4>1, KillProc DEF AwakeInv, KilledIsAwake
      <4>2. CASE Setkilled(c)
        <5>1. My(c).arg = Me(c)
          BY <2>at, <3>2, <3>4, <4>2 DEF AwakeInv, DrowsyThreads
        <5> QED
          BY <3>3, <4>2, <5>1, KillProc DEF AwakeInv, KilledIsAwake
      <4>3. CASE Sleep(c)
        <5>1. ~proc[Me(c)].killed
          BY <2>at, <3>2, <3>4, <4>3 DEF AwakeInv, DrowsyThreads
        <5> QED
          BY <4>3, <5>1, KillProc DEF AwakeInv, KilledIsAwake
      <4> QED
        BY <2>3, <4>1, <4>2, <4>3
    <3> QED
      BY <3>7, <3>8 DEF AwakeInv
  <2>4. CASE ~AwaitKilled(c) /\ ~CallSetkilled(c)
             /\ ~(Kill(c) \/ Setkilled(c) \/ Sleep(c))
    <3>1. NobodyDrowsy
      BY <1>next, <2>4, StillThread
    <3>2. StaysAwake
      <4>1. CASE Dispatch(c)
        <5>1. PICK x, r : /\ proc' = [proc EXCEPT ![x] = r]
                          /\ r = [proc[x] EXCEPT !.state = "RUNNING"]
          BY <4>1 DEF Dispatch
        <5>2. x \in Slots => r.killed = proc[x].killed /\ r.state = "RUNNING"
          BY <5>1 DEF TypeOK
        <5> QED
          BY <5>1, <5>2 DEF StaysAwake, TypeOK
      <4>2. CASE ~Dispatch(c)
        BY <1>next, <2>4, <4>2, StillProc DEF SchedulerStep, KernelStep, ProcessCalls
      <4> QED
        BY <4>1, <4>2
    <3> QED
      BY <1>still, <3>1, <3>2
  <2> QED
    BY <2>1, <2>2, <2>3, <2>4
<1> QED
  BY <1>same, <1>next DEF Next

\* On one CPU no killed process is put to sleep, nor left asleep, by whatever calls and
\* failures: kill() wakes it, and a process that is about to sleep has asked killed()
\* with nothing in between.
THEOREM KilledCorrect ==
  ASSUME \A c \in Cpus : c = BootCpu
  PROVE  Spec => []KilledIsAwake
<1>1. Init => AwakeInv
  BY DEF Init, UnusedProc, AtPc, AwakeInv, KilledIsAwake, DrowsyThreads
<1>2. TypeOK /\ Inv /\ AwakeInv /\ [Next]_vars => AwakeInv'
  BY AwakeInvNext
<1>3. AwakeInv => KilledIsAwake
  BY DEF AwakeInv
<1>4. Spec => [](TypeOK /\ Inv)
  <2>1. IInv => TypeOK /\ Inv
    BY DEF IInv, Inv
  <2> QED
    BY <2>1, IInvCorrect, PTL
<1> QED
  BY <1>1, <1>2, <1>3, <1>4, PTL DEF Spec

\* On one CPU what the scan has found stays true until it has seen the whole table.
BestSoFar ==
  \A c \in Cpus :
    cpu[c].on = NoProc /\ cpu[c].pc = "scan" =>
      /\ cpu[c].best # NoProc => cpu[c].best < cpu[c].scan
      /\ \A q \in Slots :
           q < cpu[c].scan /\ proc[q].state = "RUNNABLE" =>
             /\ cpu[c].best # NoProc
             /\ q = cpu[c].best \/ Better(cpu[c].best, q)

LEMMA BestScan ==
  ASSUME TypeOK, BestSoFar, NEW c \in Cpus, \A d \in Cpus : d = c, ScanSlot(c)
  PROVE  BestSoFar'
<1> DEFINE p    == cpu[c].scan
           best == cpu[c].best
           take == /\ proc[p].state = "RUNNABLE"
                   /\ best = NoProc \/ proc[p].priority < proc[best].priority
<1>1. /\ cpu \in [Cpus -> CpuType] /\ cpu[c] \in CpuType
      /\ proc \in [Slots -> ProcType]
  BY DEF TypeOK, CpuType, ProcType
<1>2. /\ cpu[c].on = NoProc /\ cpu[c].pc = "scan" /\ UNCHANGED proc
      /\ p \in Slots /\ p \in Nat /\ best \in Slots \cup {NoProc}
  BY <1>1, NprocAssumption DEF ScanSlot, AtScheduler, CpuType, Slots, Proc_t
<1>3. \A q \in Slots : proc[q].priority \in Nat /\ q \in Nat
  BY <1>1, NprocAssumption DEF ProcType, Slots
<1>4. /\ best # NoProc => best < p
      /\ \A q \in Slots :
           q < p /\ proc[q].state = "RUNNABLE" =>
             best # NoProc /\ (q = best \/ Better(best, q))
  BY <1>2 DEF BestSoFar
<1>5. PICK k \in {Push(cpu[c]), Pop(Push(cpu[c]))} :
        cpu' = [cpu EXCEPT ![c] = [k EXCEPT !.scan = p + 1,
                                            !.best = IF take THEN p ELSE best]]
  BY DEF ScanSlot
<1>6. k \in CpuType
  BY <1>1, <1>5, PushPopType
<1>7. cpu'[c].scan = p + 1 /\ cpu'[c].best = IF take THEN p ELSE best
  BY <1>1, <1>5, <1>6 DEF CpuType
<1>8. cpu'[c].best # NoProc => cpu'[c].best < cpu'[c].scan
  BY <1>2, <1>3, <1>4, <1>7
<1>9. ASSUME NEW q \in Slots, q < p + 1, proc[q].state = "RUNNABLE"
      PROVE  /\ cpu'[c].best # NoProc
             /\ \/ q = cpu'[c].best
                \/ proc[cpu'[c].best].priority < proc[q].priority
                \/ proc[cpu'[c].best].priority = proc[q].priority /\ cpu'[c].best < q
  <2>1. q \in Nat /\ (q = p \/ q < p)
    BY <1>2, <1>3, <1>9
  <2>2. p # NoProc
    BY <1>2, Constants
  <2>3. CASE take
    <3>1. cpu'[c].best = p
      BY <1>7, <2>3
    <3>2. CASE q = p
      BY <2>2, <3>1, <3>2
    <3>3. CASE q < p
      <4>1. best # NoProc /\ (q = best \/ Better(best, q))
        BY <1>4, <1>9, <3>3
      <4>2. best \in Slots /\ proc[p].priority < proc[best].priority
        BY <1>2, <2>3, <4>1
      <4>3. proc[best].priority <= proc[q].priority
        BY <1>3, <4>1, <4>2 DEF Better
      <4> QED
        BY <1>2, <1>3, <2>2, <3>1, <4>2, <4>3
    <3> QED
      BY <2>1, <3>2, <3>3
  <2>4. CASE ~take
    <3>1. cpu'[c].best = best
      BY <1>7, <2>4
    <3>2. CASE q = p
      <4>1. best # NoProc /\ ~(proc[p].priority < proc[best].priority)
        BY <1>9, <2>4, <3>2
      <4>2. best \in Slots /\ best < p
        BY <1>2, <1>4, <4>1
      <4> QED
        BY <1>2, <1>3, <3>1, <3>2, <4>1, <4>2
    <3>3. CASE q < p
      BY <1>4, <1>9, <3>1, <3>3 DEF Better
    <3> QED
      BY <2>1, <3>2, <3>3
  <2> QED
    BY <2>3, <2>4
<1> QED
  BY <1>2, <1>7, <1>8, <1>9 DEF BestSoFar, Better

\* A process that makes a step is on the CPU, and stays there or is switched away from.
LEMMA AwayFromScan ==
  ASSUME TypeOK, NEW c \in Cpus, NEW d \in Cpus, d = c,
         KernelStep(c) \/ CallYield(c) \/ ProcessCalls(c), ~AcquirePanic(c)
  PROVE  cpu'[d].on # NoProc \/ cpu'[d].pc = "switched"
<1>1. cpu \in [Cpus -> CpuType] /\ cpu[c] \in CpuType
  BY DEF TypeOK, CpuType
<1>2. CASE Sched(c)
  <2>1. PICK from, to : sched(c, from, to)
    BY <1>2 DEF Sched
  <2>2. cpu[c].on # NoProc
    BY <2>1 DEF sched, At
  <2>3. [cpu[c] EXCEPT !.on = NoProc, !.pc = "switched"].pc = "switched"
    BY <1>1 DEF CpuType
  <2>4. \A x : cpu' = [cpu EXCEPT ![c].panic = x] => cpu'[c].on = cpu[c].on
    BY <1>1 DEF CpuType
  <2>5. cpu' = [cpu EXCEPT ![c] = [cpu[c] EXCEPT !.on = NoProc, !.pc = "switched"]]
          => cpu'[c].pc = "switched"
    BY <1>1, <2>3
  <2>6. \/ cpu' = [cpu EXCEPT ![c].panic = SchedComplaint(c)]
        \/ cpu' = [cpu EXCEPT ![c] = [cpu[c] EXCEPT !.on = NoProc, !.pc = "switched"]]
    BY <2>1 DEF sched
  <2> QED
    BY <2>2, <2>4, <2>5, <2>6
<1>3. CASE ~Sched(c)
  <2>1. cpu[c].on # NoProc
    BY Zenon, <1>3
       DEF KernelStep, ProcessCalls, Start, Return, CallYield, Yield, Yielded,
       CallExit, CallWait, CallAwait, CallFork, CallKill, CallSetkilled, Call, InitExits,
       TaskReturns, Exit, Reparent, Wakeup, WakeSlot, BecomeZombie, WaitEnter, WaitFails,
       AwaitEnter, Awaited, AwaitMore, AwaitKilled, Sleep, Slept, Rewait, Kill, Setkilled,
       ForkSlot, ForkCopy, ForkParent, ForkReady, At
  <2>2. \/ UNCHANGED cpu
        \/ cpu' = [cpu EXCEPT ![c] = Push(@)]
        \/ cpu' = [cpu EXCEPT ![c] = Pop(@)]
        \/ cpu' = [cpu EXCEPT ![c] = Pop(Push(@))]
        \/ cpu' = [cpu EXCEPT ![c].sie = 0]
        \/ cpu' = [cpu EXCEPT ![c].sie = 1]
        \/ cpu' = [cpu EXCEPT ![c].panic = "init proc exiting"]
    BY Zenon, <1>3
       DEF KernelStep, ProcessCalls, Start, Return, CallYield, Yield, Yielded,
       CallExit, CallWait, CallAwait, CallFork, CallKill, CallSetkilled, Call, InitExits,
       TaskReturns, Exit, Reparent, Wakeup, WakeSlot, BecomeZombie, WaitEnter, WaitFails,
       WaitReturns, AwaitEnter, Awaited, AwaitMore, AwaitKilled, Sleep, Slept, Rewait,
       Kill, Setkilled, ForkSlot, ForkCopy, ForkParent, ForkReady
  <2> QED
    BY <2>1, <2>2, CpuKept DEF SameCpus
<1> QED
  BY <1>2, <1>3

LEMMA BestNext ==
  ASSUME \A c \in Cpus : c = BootCpu
  PROVE  TypeOK /\ Inv /\ BestSoFar /\ [Next]_vars => BestSoFar'
<1> SUFFICES ASSUME TypeOK, Inv, BestSoFar, [Next]_vars PROVE BestSoFar'
  OBVIOUS
<1>same. CASE UNCHANGED vars
  BY <1>same DEF vars, BestSoFar, Better
<1>next. ASSUME NEW c \in Cpus,
                SchedulerStep(c) \/ KernelStep(c) \/ CallYield(c) \/ ProcessCalls(c)
         PROVE  BestSoFar'
  <2>1. \A d \in Cpus : d = c
    OBVIOUS
  <2>2. cpu \in [Cpus -> CpuType] /\ cpu[c] \in CpuType
    BY DEF TypeOK, CpuType
  <2>fresh. ASSUME cpu'[c].scan = 0, cpu'[c].best = NoProc PROVE BestSoFar'
    <3>1. \A q \in Slots : ~(q < 0)
      BY NprocAssumption DEF Slots
    <3> QED
      BY <2>1, <2>fresh, <3>1 DEF BestSoFar
  <2>away. ASSUME cpu'[c].on # NoProc \/ cpu'[c].pc # "scan" PROVE BestSoFar'
    BY <2>1, <2>away DEF BestSoFar
  <2>3. CASE Boot(c) \/ BootFails(c)
    <3>1. /\ cpu[c].pc = "boot"
          /\ \/ cpu' = [cpu EXCEPT ![c].panic = "no first process"]
             \/ cpu' = [cpu EXCEPT ![c].scan = cpu[c].scan + 1]
      BY <2>3 DEF Boot, BootFails, AtBoot, AtScheduler
    <3>2. cpu'[c].pc = "boot"
      BY <2>2, <3>1 DEF CpuType
    <3> QED
      BY <2>away, <3>2
  <2>4. CASE StartSchedulers(c)
    BY <2>4, <2>fresh DEF StartSchedulers, InitCpu
  <2>5. CASE ScanSlot(c)
    BY <2>1, <2>5, BestScan
  <2>6. CASE Dispatch(c)
    <3>1. /\ cpu[c].best # NoProc
          /\ cpu' = [cpu EXCEPT ![c] = [cpu[c] EXCEPT !.on = cpu[c].best,
                       !.proc = cpu[c].best, !.intena = Restored(c, cpu[c].best)]]
      BY <2>6 DEF Dispatch
    <3>2. cpu'[c].on = cpu[c].best
      BY <2>2, <3>1 DEF CpuType
    <3> QED
      BY <2>away, <3>1, <3>2
  <2>7. CASE Idle(c)
    <3>1. cpu'[c].scan = 0 /\ cpu'[c].best = NoProc
      BY <2>2, <2>7 DEF Idle, CpuType
    <3> QED
      BY <2>fresh, <3>1
  <2>8. CASE SchedulerResumes(c)
    <3>1. PICK k : k = Pop(cpu[c])
      OBVIOUS
    <3>2. k \in CpuType
      BY <2>2, <3>1, PushPopType
    <3>3. cpu' = [cpu EXCEPT ![c] =
                    [k EXCEPT !.pc = "scan", !.proc = NoProc, !.best = NoProc,
                              !.scan = 0, !.sie = 1]]
      BY <2>8, <3>1 DEF SchedulerResumes
    <3>4. cpu'[c].scan = 0 /\ cpu'[c].best = NoProc
      BY <2>2, <3>2, <3>3 DEF CpuType
    <3> QED
      BY <2>fresh, <3>4
  <2>9. CASE AcquirePanic(c)
    <3>1. PICK k : k = Push(cpu[c])
      OBVIOUS
    <3>2. k \in CpuType /\ k.scan = cpu[c].scan /\ k.best = cpu[c].best
          /\ k.on = cpu[c].on /\ k.pc = cpu[c].pc
      <4>1. /\ Push(cpu[c]).scan = cpu[c].scan /\ Push(cpu[c]).best = cpu[c].best
            /\ Push(cpu[c]).on = cpu[c].on /\ Push(cpu[c]).pc = cpu[c].pc
        BY <2>2 DEF Push, CpuType
      <4> QED
        BY <2>2, <3>1, <4>1, PushPopType
    <3>3. cpu' = [cpu EXCEPT ![c] = [k EXCEPT !.panic = "acquire"]] /\ UNCHANGED proc
      BY <2>9, <3>1 DEF AcquirePanic
    <3>4. /\ cpu'[c].scan = cpu[c].scan /\ cpu'[c].best = cpu[c].best
          /\ cpu'[c].on = cpu[c].on /\ cpu'[c].pc = cpu[c].pc
      BY <2>2, <3>2, <3>3 DEF CpuType
    <3> QED
      BY <2>1, <3>3, <3>4 DEF BestSoFar, Better
  <2>10. CASE (KernelStep(c) \/ CallYield(c) \/ ProcessCalls(c)) /\ ~AcquirePanic(c)
    BY <2>10, <2>away, AwayFromScan
  <2> QED
    BY <1>next, <2>3, <2>4, <2>5, <2>6, <2>7, <2>8, <2>9, <2>10 DEF SchedulerStep
<1> QED
  BY <1>same, <1>next DEF Next

\* On one CPU the scheduler never runs a process while a better one is ready: the scan of
\* the table finds the smallest priority, the first slot among equals, and nothing comes
\* between the scan and the switch.  For any table, any priorities, calls and failures.
THEOREM BestCorrect ==
  ASSUME \A c \in Cpus : c = BootCpu
  PROVE  Spec => BestIsRun
<1>1. Init => BestSoFar
  <2> SUFFICES ASSUME Init, NEW c \in Cpus PROVE cpu[c].pc # "scan"
    BY DEF BestSoFar
  <2>1. cpu[c] = InitCpu(IF c = BootCpu THEN "boot" ELSE "off")
    BY DEF Init
  <2> QED
    BY <2>1 DEF InitCpu
<1>2. TypeOK /\ Inv /\ BestSoFar /\ [Next]_vars => BestSoFar'
  BY BestNext
<1>3. TypeOK /\ Inv /\ BestSoFar /\ [Next]_vars =>
        [\A p \in Slots :
           proc[p].state = "RUNNABLE" /\ proc'[p].state = "RUNNING"
             => \A q \in Slots \ {p} :
                  proc[q].state = "RUNNABLE" => Better(p, q)]_vars
  <2> SUFFICES ASSUME TypeOK, Inv, BestSoFar, NEW c \in Cpus,
                      SchedulerStep(c) \/ KernelStep(c) \/ CallYield(c) \/ ProcessCalls(c),
                      NEW p \in Slots,
                      proc[p].state = "RUNNABLE", proc'[p].state = "RUNNING",
                      NEW q \in Slots \ {p}, proc[q].state = "RUNNABLE"
               PROVE  Better(p, q)
    BY DEF Next
  <2>1. Dispatch(c)
    <3> SUFFICES ASSUME ~Dispatch(c) PROVE NothingStarts
      BY DEF NothingStarts
    <3> QED
      BY StillProc, KillProc DEF SchedulerStep, KernelStep, ProcessCalls
  <2>2. /\ cpu[c].on = NoProc /\ cpu[c].pc = "scan" /\ cpu[c].scan = NPROC
        /\ cpu[c].best = p
    BY <2>1 DEF Dispatch, AtScheduler, TypeOK
  <2>3. q < NPROC
    BY NprocAssumption DEF Slots
  <2> QED
    BY <2>2, <2>3 DEF BestSoFar
<1>4. Spec => [](TypeOK /\ Inv)
  <2>1. IInv => TypeOK /\ Inv
    BY DEF IInv, Inv
  <2> QED
    BY <2>1, IInvCorrect, PTL
<1> QED
  BY <1>1, <1>2, <1>3, <1>4, PTL DEF Spec, BestIsRun
=============================================================================
