------------------------------ MODULE SpinLock ------------------------------
(***************************************************************************)
(* Spin locks and the nesting of interrupt-disabled sections               *)
(* (kernel/src/lib/spinlock.c, kernel/src/lib/cpu.c).                      *)
(*                                                                         *)
(* Every access to a word that another CPU writes (lk->locked, lk->cpu) is *)
(* a step of its own.  The words only their own CPU writes (SIE, noff,     *)
(* intena) are read and written in one step: no interrupt handler of the   *)
(* kernel leaves them changed.                                             *)
(*                                                                         *)
(* The callers are any code that acquires and releases locks.  With        *)
(* Disciplined they follow the order the kernel follows (wait_lock before  *)
(* a process lock, process locks in table order) and release what they     *)
(* hold, in any order, as exit() does.  Without it they may acquire or     *)
(* release anything, which is what the panics of the two functions detect. *)
(***************************************************************************)
EXTENDS Integers, FiniteSets

CONSTANTS Cpus, Locks, NoCpu, Disciplined

ASSUME CpusAssumption  == NoCpu \notin Cpus
ASSUME LocksAssumption == Locks \subseteq Nat /\ IsFiniteSet(Locks)
ASSUME ModeAssumption  == Disciplined \in BOOLEAN

VARIABLES
  locked,  \* locked[l]: the word lk->locked
  cpu,     \* cpu[l]: the word lk->cpu, NoCpu for 0
  sie,     \* sie[c]: interrupts are enabled on CPU c
  noff,    \* noff[c]: depth of intr_push_off nesting
  intena,  \* intena[c]: interrupts were enabled before the outermost push
  pc,      \* pc[c]: where CPU c is in acquire or release
  arg,     \* arg[c]: the lock it was called with
  held,    \* held[c]: the locks whose swap CPU c won and has not undone
  outer    \* outer[c]: sie[c] when c began its outermost critical section

irqVars  == <<sie, noff, intena>>
vars     == <<locked, cpu, sie, noff, intena, pc, arg, held, outer>>

Bit      == {0, 1}
Running  == "running"
Acquires == {"acquire_locked", "acquire_cpu", "acquire_swap", "acquire_owner"}
Releases == {"release_locked", "release_cpu", "release_clear",
             "release_unlock", "release_pop"}
Panics   == {"panic_acquire", "panic_release", "panic_pop_off"}
PCs      == {Running} \cup Acquires \cup Releases \cup Panics

Init ==
  /\ locked = [l \in Locks |-> 0]
  /\ cpu    = [l \in Locks |-> NoCpu]
  /\ sie    \in [Cpus -> Bit]
  /\ noff   = [c \in Cpus |-> 0]
  /\ intena = [c \in Cpus |-> 0]
  /\ pc     = [c \in Cpus |-> Running]
  /\ arg    \in [Cpus -> Locks]
  /\ held   = [c \in Cpus |-> {}]
  /\ outer  = sie

Goto(c, from, to) ==
  /\ pc[c] = from
  /\ pc' = [pc EXCEPT ![c] = to]

\* The critical sections that CPU c has entered, one per lock it acquired and
\* one for the acquire or the release in progress.
Sections(c) ==
  Cardinality(held[c])
    + IF pc[c] \in (Acquires \ {"acquire_owner"})
                     \cup {"release_pop", "panic_acquire", "panic_pop_off"}
      THEN 1 ELSE 0

(***************************************************************************)
(* intr_push_off and intr_pop_off                                          *)
(***************************************************************************)
\* Mutant: every push, not only the outermost one, saves the interrupt flag.
M_push_saves_always(c) ==
  /\ sie'    = [sie EXCEPT ![c] = 0]
  /\ intena' = [intena EXCEPT ![c] = sie[c]]
  /\ noff'   = [noff EXCEPT ![c] = @ + 1]

\* Mutant: nested pushes are not counted.
M_push_no_nesting(c) ==
  /\ sie'    = [sie EXCEPT ![c] = 0]
  /\ intena' = IF noff[c] = 0 THEN [intena EXCEPT ![c] = sie[c]] ELSE intena
  /\ noff'   = [noff EXCEPT ![c] = 1]

intr_push_off(c) ==
  /\ sie'    = [sie EXCEPT ![c] = 0]
  /\ intena' = IF noff[c] = 0 THEN [intena EXCEPT ![c] = sie[c]] ELSE intena
  /\ noff'   = [noff EXCEPT ![c] = @ + 1]

\* Mutant: interrupts come back at the first pop instead of the last.
M_pop_enables_early(c) ==
  /\ noff' = [noff EXCEPT ![c] = @ - 1]
  /\ sie'  = IF intena[c] = 1 THEN [sie EXCEPT ![c] = 1] ELSE sie
  /\ UNCHANGED intena

\* Mutant: one pop undoes two pushes.
M_pop_twice(c) ==
  /\ noff' = [noff EXCEPT ![c] = @ - 2]
  /\ sie'  = IF noff[c] = 1 /\ intena[c] = 1 THEN [sie EXCEPT ![c] = 1] ELSE sie
  /\ UNCHANGED intena

intr_pop_off(c) ==
  /\ noff' = [noff EXCEPT ![c] = @ - 1]
  /\ sie'  = IF noff[c] = 1 /\ intena[c] = 1 THEN [sie EXCEPT ![c] = 1] ELSE sie
  /\ UNCHANGED intena

(***************************************************************************)
(* acquire                                                                 *)
(***************************************************************************)
\* holding() reads lk->locked and, when it is set, lk->cpu.
AcquireCall(c, l) ==
  /\ Disciplined => \A h \in held[c] : h < l
  /\ Goto(c, Running, "acquire_locked")
  /\ arg' = [arg EXCEPT ![c] = l]
  /\ outer' = IF held[c] = {} THEN [outer EXCEPT ![c] = sie[c]] ELSE outer
  /\ intr_push_off(c)
  /\ UNCHANGED <<locked, cpu, held>>

AcquireReadLocked(c) ==
  /\ Goto(c, "acquire_locked",
          IF locked[arg[c]] = 1 THEN "acquire_cpu" ELSE "acquire_swap")
  /\ UNCHANGED <<locked, cpu, sie, noff, intena, arg, held, outer>>

\* Mutant: acquire does not look for a lock its own CPU holds.
M_acquire_no_check(c) ==
  /\ Goto(c, "acquire_cpu", "acquire_swap")
  /\ UNCHANGED <<locked, cpu, sie, noff, intena, arg, held, outer>>

AcquireReadCpu(c) ==
  /\ Goto(c, "acquire_cpu",
          IF cpu[arg[c]] = c THEN "panic_acquire" ELSE "acquire_swap")
  /\ UNCHANGED <<locked, cpu, sie, noff, intena, arg, held, outer>>

\* The swap that finds the lock free ends the loop; one that does not leaves
\* everything as it was.
\* Mutant: the lock word is read and then written in separate instructions, so
\* the write may follow another CPU's.
M_swap_not_atomic(c) ==
  /\ Goto(c, "acquire_swap", "acquire_owner")
  /\ locked' = [locked EXCEPT ![arg[c]] = 1]
  /\ held'   = [held EXCEPT ![c] = @ \cup {arg[c]}]
  /\ UNCHANGED <<cpu, sie, noff, intena, arg, outer>>

AcquireSwap(c) ==
  /\ locked[arg[c]] = 0
  /\ Goto(c, "acquire_swap", "acquire_owner")
  /\ locked' = [locked EXCEPT ![arg[c]] = 1]
  /\ held'   = [held EXCEPT ![c] = @ \cup {arg[c]}]
  /\ UNCHANGED <<cpu, sie, noff, intena, arg, outer>>

AcquireSetCpu(c) ==
  /\ Goto(c, "acquire_owner", Running)
  /\ cpu' = [cpu EXCEPT ![arg[c]] = c]
  /\ UNCHANGED <<locked, sie, noff, intena, arg, held, outer>>

(***************************************************************************)
(* release                                                                 *)
(***************************************************************************)
ReleaseCall(c, l) ==
  /\ Disciplined => l \in held[c]
  /\ Goto(c, Running, "release_locked")
  /\ arg' = [arg EXCEPT ![c] = l]
  /\ UNCHANGED <<locked, cpu, sie, noff, intena, held, outer>>

ReleaseReadLocked(c) ==
  /\ Goto(c, "release_locked",
          IF locked[arg[c]] = 1 THEN "release_cpu" ELSE "panic_release")
  /\ UNCHANGED <<locked, cpu, sie, noff, intena, arg, held, outer>>

\* Mutant: release trusts its caller to hold the lock.
M_release_no_check(c) ==
  /\ Goto(c, "release_cpu", "release_clear")
  /\ UNCHANGED <<locked, cpu, sie, noff, intena, arg, held, outer>>

ReleaseReadCpu(c) ==
  /\ Goto(c, "release_cpu",
          IF cpu[arg[c]] = c THEN "release_clear" ELSE "panic_release")
  /\ UNCHANGED <<locked, cpu, sie, noff, intena, arg, held, outer>>

\* Mutant: release leaves its CPU in lk->cpu.
M_release_keeps_cpu(c) ==
  /\ Goto(c, "release_clear", "release_unlock")
  /\ UNCHANGED <<locked, cpu, sie, noff, intena, arg, held, outer>>

ReleaseClearCpu(c) ==
  /\ Goto(c, "release_clear", "release_unlock")
  /\ cpu' = [cpu EXCEPT ![arg[c]] = NoCpu]
  /\ UNCHANGED <<locked, sie, noff, intena, arg, held, outer>>

\* Mutant: the lock word is never cleared.
M_unlock_lost(c) ==
  /\ Goto(c, "release_unlock", "release_pop")
  /\ held'   = [held EXCEPT ![c] = @ \ {arg[c]}]
  /\ UNCHANGED <<locked, cpu, sie, noff, intena, arg, outer>>

ReleaseUnlock(c) ==
  /\ Goto(c, "release_unlock", "release_pop")
  /\ locked' = [locked EXCEPT ![arg[c]] = 0]
  /\ held'   = [held EXCEPT ![c] = @ \ {arg[c]}]
  /\ UNCHANGED <<cpu, sie, noff, intena, arg, outer>>

ReleasePop(c) ==
  /\ IF sie[c] = 1 \/ noff[c] < 1
     THEN /\ Goto(c, "release_pop", "panic_pop_off")
          /\ UNCHANGED irqVars
     ELSE /\ Goto(c, "release_pop", Running)
          /\ intr_pop_off(c)
  /\ UNCHANGED <<locked, cpu, arg, held, outer>>

\* Outside critical sections the kernel turns interrupts on (the scheduler
\* loop, usertrap on an ecall) and off (a trap, user_trap_ret).
SetInterrupts(c, enable) ==
  /\ pc[c] = Running
  /\ noff[c] = 0
  /\ sie' = [sie EXCEPT ![c] = enable]
  /\ UNCHANGED <<locked, cpu, noff, intena, pc, arg, held, outer>>

AcquireStep(c) ==
  \/ AcquireReadLocked(c)
  \/ AcquireReadCpu(c)
  \/ AcquireSwap(c)
  \/ AcquireSetCpu(c)

ReleaseStep(c) ==
  \/ ReleaseReadLocked(c)
  \/ ReleaseReadCpu(c)
  \/ ReleaseClearCpu(c)
  \/ ReleaseUnlock(c)
  \/ ReleasePop(c)

Next ==
  \E c \in Cpus :
    \/ AcquireStep(c)
    \/ ReleaseStep(c)
    \/ \E l \in Locks : AcquireCall(c, l) \/ ReleaseCall(c, l)
    \/ \E enable \in Bit : SetInterrupts(c, enable)

Spec == Init /\ [][Next]_vars

\* A CPU inside acquire or release keeps executing (interrupts are off), and
\* every critical section of the callers is finite, so each lock a CPU holds is
\* released in the end, whatever else it acquires and releases meanwhile.
Fairness ==
  \A c \in Cpus :
    /\ WF_vars(AcquireStep(c))
    /\ WF_vars(ReleaseStep(c))
    /\ \A l \in Locks : SF_vars(l \in held[c] /\ ReleaseCall(c, l))

FairSpec == Spec /\ Fairness

-----------------------------------------------------------------------------
(***************************************************************************)
(* Properties                                                              *)
(***************************************************************************)
TypeOK ==
  /\ locked \in [Locks -> Bit]
  /\ cpu    \in [Locks -> Cpus \cup {NoCpu}]
  /\ sie    \in [Cpus -> Bit]
  /\ noff   \in [Cpus -> Nat]
  /\ intena \in [Cpus -> Bit]
  /\ pc     \in [Cpus -> PCs]
  /\ arg    \in [Cpus -> Locks]
  /\ held   \in [Cpus -> SUBSET Locks]
  /\ outer  \in [Cpus -> Bit]

\* No lock is held by two CPUs at once (acquire, spinlock.c:22-41).
MutualExclusion ==
  \A c, d \in Cpus : c # d => held[c] \cap held[d] = {}

\* A CPU takes no interrupt while it holds a lock, although release() enables
\* interrupts again and locks are not released in the order of acquisition.
InterruptsOffWhileHeld ==
  \A c \in Cpus : held[c] # {} => sie[c] = 0

\* noff counts the critical sections the CPU is in: sched() relies on it when it
\* panics unless noff is 1 (proc.c:436).
NoffCountsSections ==
  \A c \in Cpus : noff[c] = Sections(c)

\* When the last critical section ends, the CPU is back to taking interrupts
\* exactly if it did before the first one began (cpu.c:26-33).
InterruptsRestored ==
  [][\A c \in Cpus :
       noff[c] # 0 /\ noff'[c] = 0 => sie'[c] = outer[c]]_vars

\* holding() is exact although it reads two words another CPU may be writing:
\* acquire panics only on a lock its CPU holds, release only on one it does not
\* hold, and intr_pop_off never.
PanicOnlyOnMisuse ==
  \A c \in Cpus :
    /\ pc[c] = "panic_acquire" => arg[c] \in held[c]
    /\ pc[c] = "panic_release" => arg[c] \notin held[c]
    /\ pc[c] # "panic_pop_off"

\* And every misuse is caught: no CPU spins on a lock it holds itself, and none
\* clears a lock that it does not hold (spinlock.c:24-25 and 45-46).
MisuseCaught ==
  \A c \in Cpus :
    /\ pc[c] = "acquire_swap" => arg[c] \notin held[c]
    /\ pc[c] \in {"release_clear", "release_unlock"} => arg[c] \in held[c]

\* The implementation keeps the promises of AbstractLock: the owner of a lock is
\* the CPU whose swap won it.
OwnerOf(l) ==
  IF \E c \in Cpus : l \in held[c]
  THEN CHOOSE c \in Cpus : l \in held[c]
  ELSE NoCpu

Abstract == INSTANCE AbstractLock WITH
  owner <- [l \in Locks |-> OwnerOf(l)],
  irq   <- sie

ImplementsAbstractLock == Abstract!Spec

\* A CPU that spins on a lock does so because the lock, or one that comes after
\* it in the kernel's order, keeps being won: ordered acquisition cannot
\* deadlock.  (Not more: the lock has no queue, so with three CPUs the holder of
\* a lock can be beaten to a later one for ever.)
SpinningMeansProgress ==
  \A l \in Locks :
    (\E c \in Cpus : pc[c] = "acquire_swap" /\ arg[c] = l)
      ~> (\E c \in Cpus : pc[c] = "acquire_owner" /\ arg[c] >= l)

\* What acquire() and release() promise whatever their callers do: one holder per
\* lock, who takes no interrupt, and a count of the sections each CPU is in.
LocksAreSound ==
  TypeOK /\ MutualExclusion /\ InterruptsOffWhileHeld /\ NoffCountsSections

\* A panic is the answer to every misuse (MisuseCaught) and to nothing else.
PanicsAreExact == PanicOnlyOnMisuse /\ MisuseCaught
=============================================================================
