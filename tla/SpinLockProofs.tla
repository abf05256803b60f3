--------------------------- MODULE SpinLockProofs ---------------------------
(***************************************************************************)
(* SpinLock is correct for every set of CPUs, every finite set of locks    *)
(* and every caller, disciplined or not.                                   *)
(*                                                                         *)
(* Mutual exclusion is not inductive.  What makes it so is that lk->locked *)
(* is set exactly while some CPU holds the lock (LockWordExact), that      *)
(* lk->cpu names a CPU only while that CPU holds the lock (CpuWordSound)   *)
(* and names it all the time the holder is not inside acquire or release   *)
(* (CpuWordComplete): holding() then tells the truth, and release, which   *)
(* trusts it, never clears a lock another CPU holds.                       *)
(***************************************************************************)
EXTENDS SpinLock, FiniteSetTheorems, TLAPS

LockWordExact == \A l \in Locks : locked[l] = 1 <=> \E c \in Cpus : l \in held[c]

CpuWordSound == \A c \in Cpus, l \in Locks : cpu[l] = c => l \in held[c]

CpuWordComplete ==
  \A c \in Cpus : \A l \in held[c] :
    cpu[l] = c \/ (arg[c] = l /\ pc[c] \in {"acquire_owner", "release_unlock"})

PlaceInv ==
  \A c \in Cpus :
    /\ pc[c] \in {"acquire_owner", "release_clear", "release_unlock",
                  "panic_acquire"} => arg[c] \in held[c]
    /\ pc[c] \in {"acquire_swap", "release_pop", "panic_release"}
         => arg[c] \notin held[c]
    /\ pc[c] = "release_unlock" => cpu[arg[c]] # c

NestingInv ==
  \A c \in Cpus :
    /\ noff[c] # 0 => sie[c] = 0 /\ intena[c] = outer[c]
    /\ pc[c] # "panic_pop_off"

LockInv ==
  /\ MutualExclusion
  /\ LockWordExact
  /\ CpuWordSound
  /\ CpuWordComplete
  /\ PlaceInv

IInv ==
  /\ TypeOK
  /\ LockInv
  /\ NoffCountsSections
  /\ NestingInv

-----------------------------------------------------------------------------
\* The set of locks a CPU holds is finite, and gaining or losing one changes its
\* cardinality by one.
LEMMA HeldFinite ==
  ASSUME TypeOK, NEW c \in Cpus, NEW l \in Locks
  PROVE  /\ Cardinality(held[c]) \in Nat
         /\ held[c] # {} <=> Cardinality(held[c]) # 0
         /\ l \notin held[c] =>
              Cardinality(held[c] \cup {l}) = Cardinality(held[c]) + 1
         /\ l \in held[c] =>
              Cardinality(held[c] \ {l}) = Cardinality(held[c]) - 1
<1>1. IsFiniteSet(held[c])
  BY LocksAssumption, FS_Subset DEF TypeOK
<1>2. QED
  BY <1>1, FS_CardinalityType, FS_EmptySet, FS_AddElement, FS_RemoveElement

\* The state each step leaves is one whose variables have their types.
LEMMA TypeStep == TypeOK /\ [Next]_vars => TypeOK'
<1> SUFFICES ASSUME TypeOK, [Next]_vars PROVE TypeOK'
  OBVIOUS
<1> USE DEF TypeOK, Bit
<1>pc. ASSUME NEW c \in Cpus, NEW from, NEW to, Goto(c, from, to), to \in PCs
       PROVE  pc' \in [Cpus -> PCs]
  BY <1>pc DEF Goto
<1>names. /\ Running \in PCs
          /\ Acquires \subseteq PCs
          /\ Releases \subseteq PCs
          /\ Panics \subseteq PCs
  BY DEF PCs
<1>in. /\ \A p \in {"acquire_locked", "acquire_cpu", "acquire_swap",
                     "acquire_owner"} : p \in PCs
       /\ \A p \in {"release_locked", "release_cpu", "release_clear",
                     "release_unlock", "release_pop"} : p \in PCs
       /\ \A p \in {"panic_acquire", "panic_release", "panic_pop_off"} :
            p \in PCs
  BY <1>names DEF Acquires, Releases, Panics
<1>1. ASSUME NEW c \in Cpus, AcquireStep(c) PROVE TypeOK'
  <2>1. pc' \in [Cpus -> PCs]
    BY <1>1, <1>pc, <1>names, <1>in, Zenon
       DEF AcquireStep, AcquireReadLocked, AcquireReadCpu, AcquireSwap,
           AcquireSetCpu
  <2>2. QED
    BY <1>1, <2>1 DEF AcquireStep, AcquireReadLocked, AcquireReadCpu,
                      AcquireSwap, AcquireSetCpu
<1>2. ASSUME NEW c \in Cpus, ReleaseStep(c) PROVE TypeOK'
  <2>1. pc' \in [Cpus -> PCs]
    BY <1>2, <1>pc, <1>names, <1>in, Zenon
       DEF ReleaseStep, ReleaseReadLocked, ReleaseReadCpu, ReleaseClearCpu,
           ReleaseUnlock, ReleasePop
  <2>2. CASE ReleasePop(c)
    <3>1. CASE sie[c] = 1 \/ noff[c] < 1
      BY <2>1, <2>2, <3>1 DEF ReleasePop, irqVars
    <3>2. CASE ~(sie[c] = 1 \/ noff[c] < 1)
      <4>1. noff[c] - 1 \in Nat
        BY <3>2
      <4>2. QED
        BY <2>1, <2>2, <3>2, <4>1 DEF ReleasePop, intr_pop_off
    <3>3. QED
      BY <3>1, <3>2
  <2>3. CASE ~ReleasePop(c)
    BY <1>2, <2>1, <2>3
       DEF ReleaseStep, ReleaseReadLocked, ReleaseReadCpu, ReleaseClearCpu,
           ReleaseUnlock
  <2>4. QED
    BY <2>2, <2>3
<1>3. ASSUME NEW c \in Cpus, NEW l \in Locks,
             AcquireCall(c, l) \/ ReleaseCall(c, l)
      PROVE  TypeOK'
  <2>1. pc' \in [Cpus -> PCs]
    BY <1>3, <1>pc, <1>in, Zenon DEF AcquireCall, ReleaseCall
  <2>2. QED
    BY <1>3, <2>1 DEF AcquireCall, ReleaseCall, intr_push_off
<1>4. ASSUME NEW c \in Cpus, NEW enable \in Bit, SetInterrupts(c, enable)
      PROVE  TypeOK'
  BY <1>4 DEF SetInterrupts
<1>5. CASE UNCHANGED vars
  BY <1>5 DEF vars
<1>6. QED
  BY <1>1, <1>2, <1>3, <1>4, <1>5 DEF Next

\* Every variable keeps its type (spinlock.c, cpu.c).
THEOREM TypeCorrect == Spec => []TypeOK
<1>1. Init => TypeOK
  BY DEF Init, TypeOK, PCs, Bit
<1>2. QED
  BY <1>1, TypeStep, PTL DEF Spec

-----------------------------------------------------------------------------
\* Every step keeps the invariant of the lock words.
LEMMA LockStep == TypeOK /\ LockInv /\ [Next]_vars => LockInv'
<1> SUFFICES ASSUME TypeOK, LockInv, [Next]_vars PROVE LockInv'
  OBVIOUS
<1> USE CpusAssumption
    DEF TypeOK, LockInv, MutualExclusion, LockWordExact, CpuWordSound,
        CpuWordComplete, PlaceInv, Goto, Bit, Running
<1>1. ASSUME NEW c \in Cpus, NEW l \in Locks, AcquireCall(c, l) PROVE LockInv'
  BY <1>1 DEF AcquireCall
<1>2. ASSUME NEW c \in Cpus, AcquireReadLocked(c) PROVE LockInv'
  BY <1>2 DEF AcquireReadLocked
<1>3. ASSUME NEW c \in Cpus, AcquireReadCpu(c) PROVE LockInv'
  BY <1>3 DEF AcquireReadCpu
<1>4. ASSUME NEW c \in Cpus, AcquireSwap(c) PROVE LockInv'
  BY <1>4 DEF AcquireSwap
<1>5. ASSUME NEW c \in Cpus, AcquireSetCpu(c) PROVE LockInv'
  BY <1>5 DEF AcquireSetCpu
<1>6. ASSUME NEW c \in Cpus, NEW l \in Locks, ReleaseCall(c, l) PROVE LockInv'
  BY <1>6 DEF ReleaseCall
<1>7. ASSUME NEW c \in Cpus, ReleaseReadLocked(c) PROVE LockInv'
  BY <1>7 DEF ReleaseReadLocked
<1>8. ASSUME NEW c \in Cpus, ReleaseReadCpu(c) PROVE LockInv'
  BY <1>8 DEF ReleaseReadCpu
<1>9. ASSUME NEW c \in Cpus, ReleaseClearCpu(c) PROVE LockInv'
  BY <1>9 DEF ReleaseClearCpu
<1>10. ASSUME NEW c \in Cpus, ReleaseUnlock(c) PROVE LockInv'
  BY <1>10 DEF ReleaseUnlock
<1>11. ASSUME NEW c \in Cpus, ReleasePop(c) PROVE LockInv'
  BY <1>11 DEF ReleasePop
<1>12. ASSUME NEW c \in Cpus, NEW enable \in Bit, SetInterrupts(c, enable)
       PROVE  LockInv'
  BY <1>12 DEF SetInterrupts
<1>13. CASE UNCHANGED vars
  BY <1>13 DEF vars
<1>14. QED
  BY <1>1, <1>2, <1>3, <1>4, <1>5, <1>6, <1>7, <1>8, <1>9, <1>10, <1>11, <1>12,
     <1>13 DEF Next, AcquireStep, ReleaseStep

\* Every step keeps noff equal to the number of critical sections.
LEMMA NoffStep ==
  TypeOK /\ LockInv /\ NoffCountsSections /\ [Next]_vars => NoffCountsSections'
<1> SUFFICES ASSUME TypeOK, LockInv, NoffCountsSections, [Next]_vars
             PROVE  NoffCountsSections'
  OBVIOUS
<1> USE DEF NoffCountsSections, Sections, Acquires, Goto, Running, TypeOK
<1>0. \A c \in Cpus : Cardinality(held[c]) \in Nat
  BY HeldFinite
<1>1. ASSUME NEW c \in Cpus, NEW l \in Locks, AcquireCall(c, l)
      PROVE  NoffCountsSections'
  BY <1>0, <1>1 DEF AcquireCall, intr_push_off
<1>2. ASSUME NEW c \in Cpus, AcquireReadLocked(c) PROVE NoffCountsSections'
  BY <1>0, <1>2 DEF AcquireReadLocked
<1>3. ASSUME NEW c \in Cpus, AcquireReadCpu(c) PROVE NoffCountsSections'
  BY <1>0, <1>3 DEF AcquireReadCpu
<1>4. ASSUME NEW c \in Cpus, AcquireSwap(c) PROVE NoffCountsSections'
  <2>1. Cardinality(held'[c]) = Cardinality(held[c]) + 1
    BY <1>4, HeldFinite DEF AcquireSwap, LockInv, PlaceInv
  <2>2. QED
    BY <1>0, <1>4, <2>1 DEF AcquireSwap
<1>5. ASSUME NEW c \in Cpus, AcquireSetCpu(c) PROVE NoffCountsSections'
  BY <1>0, <1>5 DEF AcquireSetCpu
<1>6. ASSUME NEW c \in Cpus, NEW l \in Locks, ReleaseCall(c, l)
      PROVE  NoffCountsSections'
  BY <1>0, <1>6 DEF ReleaseCall
<1>7. ASSUME NEW c \in Cpus, ReleaseReadLocked(c) PROVE NoffCountsSections'
  BY <1>0, <1>7 DEF ReleaseReadLocked
<1>8. ASSUME NEW c \in Cpus, ReleaseReadCpu(c) PROVE NoffCountsSections'
  BY <1>0, <1>8 DEF ReleaseReadCpu
<1>9. ASSUME NEW c \in Cpus, ReleaseClearCpu(c) PROVE NoffCountsSections'
  BY <1>0, <1>9 DEF ReleaseClearCpu
<1>10. ASSUME NEW c \in Cpus, ReleaseUnlock(c) PROVE NoffCountsSections'
  <2>1. Cardinality(held'[c]) = Cardinality(held[c]) - 1
    BY <1>10, HeldFinite DEF ReleaseUnlock, LockInv, PlaceInv
  <2>2. QED
    BY <1>0, <1>10, <2>1 DEF ReleaseUnlock
<1>11. ASSUME NEW c \in Cpus, ReleasePop(c) PROVE NoffCountsSections'
  <2>1. CASE sie[c] = 1 \/ noff[c] < 1
    BY <1>0, <1>11, <2>1 DEF ReleasePop, irqVars
  <2>2. CASE ~(sie[c] = 1 \/ noff[c] < 1)
    BY <1>0, <1>11, <2>2 DEF ReleasePop, intr_pop_off
  <2>3. QED
    BY <2>1, <2>2
<1>12. ASSUME NEW c \in Cpus, NEW enable \in Bit, SetInterrupts(c, enable)
       PROVE  NoffCountsSections'
  BY <1>0, <1>12 DEF SetInterrupts
<1>13. CASE UNCHANGED vars
  BY <1>13 DEF vars
<1>14. QED
  BY <1>1, <1>2, <1>3, <1>4, <1>5, <1>6, <1>7, <1>8, <1>9, <1>10, <1>11, <1>12,
     <1>13 DEF Next, AcquireStep, ReleaseStep

\* Every step keeps the relation of noff to the interrupt flag and its saved
\* value.
LEMMA NestingStep ==
  TypeOK /\ NoffCountsSections /\ NestingInv /\ [Next]_vars => NestingInv'
<1> SUFFICES ASSUME TypeOK, NoffCountsSections, NestingInv, [Next]_vars
             PROVE  NestingInv'
  OBVIOUS
<1> USE DEF TypeOK, NestingInv, Goto, Running, Bit
<1>0. \A c \in Cpus :
        /\ pc[c] = Running => (noff[c] = 0 <=> held[c] = {})
        /\ pc[c] = "release_pop" => noff[c] >= 1
  <2>1. ASSUME NEW c \in Cpus
        PROVE  /\ Cardinality(held[c]) \in Nat
               /\ held[c] # {} <=> Cardinality(held[c]) # 0
    BY HeldFinite
  <2>2. QED
    BY <2>1 DEF NoffCountsSections, Sections, Acquires
<1>1. ASSUME NEW c \in Cpus, NEW l \in Locks, AcquireCall(c, l)
      PROVE  NestingInv'
  BY <1>0, <1>1 DEF AcquireCall, intr_push_off
<1>2. ASSUME NEW c \in Cpus, AcquireStep(c) PROVE NestingInv'
  BY <1>2 DEF AcquireStep, AcquireReadLocked, AcquireReadCpu, AcquireSwap,
              AcquireSetCpu
<1>3. ASSUME NEW c \in Cpus, NEW l \in Locks, ReleaseCall(c, l)
      PROVE  NestingInv'
  BY <1>3 DEF ReleaseCall
<1>4. ASSUME NEW c \in Cpus, ReleasePop(c) PROVE NestingInv'
  <2>1. ~(sie[c] = 1 \/ noff[c] < 1)
    BY <1>0, <1>4 DEF ReleasePop
  <2>2. QED
    BY <1>4, <2>1 DEF ReleasePop, intr_pop_off
<1>5. ASSUME NEW c \in Cpus, ReleaseStep(c), ~ReleasePop(c) PROVE NestingInv'
  BY <1>5 DEF ReleaseStep, ReleaseReadLocked, ReleaseReadCpu, ReleaseClearCpu,
              ReleaseUnlock
<1>6. ASSUME NEW c \in Cpus, NEW enable \in Bit, SetInterrupts(c, enable)
      PROVE  NestingInv'
  BY <1>6 DEF SetInterrupts
<1>7. CASE UNCHANGED vars
  BY <1>7 DEF vars
<1>8. QED
  BY <1>1, <1>2, <1>3, <1>4, <1>5, <1>6, <1>7 DEF Next

-----------------------------------------------------------------------------
\* The inductive invariant.
THEOREM Invariance == Spec => []IInv
<1>1. Init => IInv
  <2>1. ASSUME Init PROVE NoffCountsSections
    BY <2>1, FS_EmptySet
       DEF Init, NoffCountsSections, Sections, Running, Acquires
  <2>2. Init => TypeOK /\ LockInv /\ NestingInv
    BY CpusAssumption
       DEF Init, TypeOK, PCs, Bit, Running, LockInv, MutualExclusion,
           LockWordExact, CpuWordSound, CpuWordComplete, PlaceInv, NestingInv
  <2>3. QED
    BY <2>1, <2>2 DEF IInv
<1>2. IInv /\ [Next]_vars => IInv'
  BY TypeStep, LockStep, NoffStep, NestingStep DEF IInv
<1>3. QED
  BY <1>1, <1>2, PTL DEF Spec

\* No lock is held by two CPUs at once (spinlock.c:22-41).
THEOREM LockMutualExclusion == Spec => []MutualExclusion
<1>1. IInv => MutualExclusion
  BY DEF IInv, LockInv
<1>2. QED
  BY <1>1, Invariance, PTL

\* noff is the number of critical sections a CPU is in, as sched() assumes.
THEOREM NoffIsExact == Spec => []NoffCountsSections
<1>1. IInv => NoffCountsSections
  BY DEF IInv
<1>2. QED
  BY <1>1, Invariance, PTL

\* A CPU that holds a lock takes no interrupt.
THEOREM HolderIsUninterrupted == Spec => []InterruptsOffWhileHeld
<1>1. IInv => InterruptsOffWhileHeld
  <2>1. ASSUME IInv, NEW c \in Cpus, held[c] # {} PROVE sie[c] = 0
    <3>1. TypeOK
      BY <2>1 DEF IInv
    <3>2. Cardinality(held[c]) \in Nat \ {0}
      <4>1. PICK l : l \in held[c]
        BY <2>1
      <4>2. l \in Locks
        BY <3>1, <4>1 DEF TypeOK
      <4>3. QED
        BY <2>1, <3>1, <4>2, HeldFinite
    <3>3. noff[c] # 0
      BY <2>1, <3>2 DEF IInv, NoffCountsSections, Sections
    <3>4. QED
      BY <2>1, <3>3 DEF IInv, NestingInv
  <2>2. QED
    BY <2>1 DEF InterruptsOffWhileHeld
<1>2. QED
  BY <1>1, Invariance, PTL

\* holding() is exact: the panics of acquire, release and intr_pop_off are
\* reached only by a caller that misuses a lock.
THEOREM PanicsAreJustified == Spec => []PanicOnlyOnMisuse
<1>1. IInv => PanicOnlyOnMisuse
  BY DEF IInv, LockInv, PlaceInv, NestingInv, PanicOnlyOnMisuse
<1>2. QED
  BY <1>1, Invariance, PTL

\* A caller that misuses a lock never spins on its own lock and never frees
\* another CPU's.
THEOREM MisuseIsCaught == Spec => []MisuseCaught
<1>1. IInv => MisuseCaught
  BY DEF IInv, LockInv, PlaceInv, MisuseCaught
<1>2. QED
  BY <1>1, Invariance, PTL

\* What acquire() and release() promise whatever their callers do.
THEOREM LocksCorrect == Spec => []LocksAreSound
BY TypeCorrect, LockMutualExclusion, HolderIsUninterrupted, NoffIsExact, PTL
   DEF LocksAreSound

\* The panics of acquire() and release() answer every misuse, and nothing else.
THEOREM PanicsCorrect == Spec => []PanicsAreExact
BY PanicsAreJustified, MisuseIsCaught, PTL DEF PanicsAreExact

\* Leaving the last critical section restores the interrupt flag.
THEOREM InterruptFlagRestored == Spec => InterruptsRestored
<1>1. IInv /\ [Next]_vars =>
        [\A c \in Cpus :
           noff[c] # 0 /\ noff'[c] = 0 => sie'[c] = outer[c]]_vars
  <2> SUFFICES ASSUME IInv, [Next]_vars, NEW d \in Cpus,
                      noff[d] # 0, noff'[d] = 0
               PROVE  sie'[d] = outer[d]
    BY DEF vars
  <2> USE DEF IInv, TypeOK, Bit
  <2>1. CASE \E c \in Cpus : ReleasePop(c)
    <3>1. PICK c \in Cpus : ReleasePop(c)
      BY <2>1
    <3>2. c = d /\ noff[d] = 1 /\ sie[d] = 0 /\ intena[d] = outer[d]
      BY <3>1 DEF ReleasePop, intr_pop_off, irqVars, NestingInv
    <3>3. QED
      BY <3>1, <3>2 DEF ReleasePop, intr_pop_off, irqVars
  <2>2. CASE \E c \in Cpus, l \in Locks : AcquireCall(c, l)
    BY <2>2 DEF AcquireCall, intr_push_off
  <2>3. CASE UNCHANGED noff
    BY <2>3
  <2>4. QED
    BY <2>1, <2>2, <2>3
       DEF Next, vars, AcquireStep, ReleaseStep, AcquireReadLocked,
           AcquireReadCpu, AcquireSwap, AcquireSetCpu, ReleaseCall,
           ReleaseReadLocked, ReleaseReadCpu, ReleaseClearCpu, ReleaseUnlock,
           SetInterrupts
<1>2. QED
  BY <1>1, Invariance, PTL DEF Spec, InterruptsRestored

-----------------------------------------------------------------------------
\* Under mutual exclusion the owner of a lock is the one CPU that holds it.
LEMMA OwnerIsHolder ==
  ASSUME MutualExclusion, NEW l \in Locks
  PROVE  /\ \A c \in Cpus : OwnerOf(l) = c <=> l \in held[c]
         /\ OwnerOf(l) = NoCpu <=> \A c \in Cpus : l \notin held[c]
BY CpusAssumption DEF MutualExclusion, OwnerOf

\* A step that leaves held and sie alone is a stutter of AbstractLock.
LEMMA StutterMaps ==
  UNCHANGED <<held, sie>> => UNCHANGED Abstract!vars
BY DEF Abstract!vars, OwnerOf

\* A step that leaves held alone masks or unmasks one CPU, and unmasks it only
\* if it owns nothing.
LEMMA MaskMaps ==
  ASSUME IInv, NEW c \in Cpus, NEW b \in Bit,
         UNCHANGED held, sie' = [sie EXCEPT ![c] = b],
         b = 1 => held[c] = {}
  PROVE  Abstract!Next
<1>1. UNCHANGED [l \in Locks |-> OwnerOf(l)]
  BY DEF OwnerOf
<1>2. CASE b = 0
  <2>1. Abstract!Mask(c)
    BY <1>1, <1>2 DEF Abstract!Mask
  <2>2. QED
    BY <2>1 DEF Abstract!Next
<1>3. CASE b = 1
  <2>1. Abstract!OwnsNothing(c)
    BY <1>3, OwnerIsHolder DEF Abstract!OwnsNothing, IInv, LockInv
  <2>2. Abstract!Unmask(c)
    BY <1>1, <1>3, <2>1 DEF Abstract!Unmask
  <2>3. QED
    BY <2>2 DEF Abstract!Next
<1>4. QED
  BY <1>2, <1>3 DEF Bit

\* Every step of the implementation is a step of AbstractLock or a stutter.
LEMMA StepMaps ==
  ASSUME IInv, IInv', [Next]_vars
  PROVE  [Abstract!Next]_(Abstract!vars)
<1> USE DEF IInv, TypeOK, Bit
<1>1. ASSUME NEW c \in Cpus, AcquireSwap(c) PROVE Abstract!Next
  <2>1. arg[c] \in Locks /\ held' = [held EXCEPT ![c] = @ \cup {arg[c]}]
    BY <1>1 DEF AcquireSwap
  <2>2. OwnerOf(arg[c]) = NoCpu
    BY <1>1, <2>1, OwnerIsHolder DEF AcquireSwap, LockInv, LockWordExact
  <2>3. [l \in Locks |-> OwnerOf(l)]'
          = [[l \in Locks |-> OwnerOf(l)] EXCEPT ![arg[c]] = c]
    <3>1. ASSUME NEW l \in Locks
          PROVE  OwnerOf(l)' = IF l = arg[c] THEN c ELSE OwnerOf(l)
      <4>1. MutualExclusion'
        BY DEF LockInv
      <4>2. CASE l = arg[c]
        BY <2>1, <4>1, <4>2, CpusAssumption DEF OwnerOf, MutualExclusion
      <4>3. CASE l # arg[c]
        <5>1. \A d \in Cpus : l \in held'[d] <=> l \in held[d]
          BY <2>1, <4>3
        <5>2. QED
          BY <4>3, <5>1 DEF OwnerOf
      <4>4. QED
        BY <4>2, <4>3
    <3>2. QED
      BY <2>1, <3>1
  <2>4. sie[c] = 0
    <3>1. noff[c] # 0
      <4>1. Cardinality(held[c]) \in Nat
        BY <2>1, HeldFinite
      <4>2. QED
        BY <1>1, <4>1
           DEF AcquireSwap, Goto, NoffCountsSections, Sections, Acquires
    <3>2. QED
      BY <3>1 DEF NestingInv
  <2>5. Abstract!Take(c, arg[c])
    <3>1. [l \in Locks |-> OwnerOf(l)][arg[c]] = NoCpu
      BY <2>1, <2>2
    <3>2. UNCHANGED sie
      BY <1>1 DEF AcquireSwap
    <3>3. QED
      BY <2>3, <2>4, <3>1, <3>2 DEF Abstract!Take
  <2>6. QED
    BY <2>1, <2>5 DEF Abstract!Next
<1>2. ASSUME NEW c \in Cpus, ReleaseUnlock(c) PROVE Abstract!Next
  <2>1. arg[c] \in Locks /\ held' = [held EXCEPT ![c] = @ \ {arg[c]}]
    BY <1>2 DEF ReleaseUnlock
  <2>2. arg[c] \in held[c] /\ OwnerOf(arg[c]) = c
    BY <1>2, <2>1, OwnerIsHolder DEF ReleaseUnlock, Goto, LockInv, PlaceInv
  <2>3. [l \in Locks |-> OwnerOf(l)]'
          = [[l \in Locks |-> OwnerOf(l)] EXCEPT ![arg[c]] = NoCpu]
    <3>1. ASSUME NEW l \in Locks
          PROVE  OwnerOf(l)' = IF l = arg[c] THEN NoCpu ELSE OwnerOf(l)
      <4>1. CASE l = arg[c]
        <5>1. \A d \in Cpus : l \notin held'[d]
          BY <2>1, <2>2, <4>1 DEF LockInv, MutualExclusion
        <5>2. QED
          BY <4>1, <5>1 DEF OwnerOf
      <4>2. CASE l # arg[c]
        <5>1. \A d \in Cpus : l \in held'[d] <=> l \in held[d]
          BY <2>1, <4>2
        <5>2. QED
          BY <4>2, <5>1 DEF OwnerOf
      <4>3. QED
        BY <4>1, <4>2
    <3>2. QED
      BY <2>1, <3>1
  <2>4. Abstract!Give(c, arg[c])
    BY <1>2, <2>1, <2>2, <2>3 DEF Abstract!Give, ReleaseUnlock
  <2>5. QED
    BY <2>1, <2>4 DEF Abstract!Next
<1>3. ASSUME NEW c \in Cpus, NEW l \in Locks, AcquireCall(c, l)
      PROVE  Abstract!Next
  <2>1. sie' = [sie EXCEPT ![c] = 0] /\ UNCHANGED held
    BY <1>3 DEF AcquireCall, intr_push_off
  <2>2. 0 \in Bit /\ (0 = 1 => held[c] = {})
    OBVIOUS
  <2>3. QED
    BY <2>1, <2>2, MaskMaps
<1>4. ASSUME NEW c \in Cpus, ReleasePop(c)
      PROVE  [Abstract!Next]_(Abstract!vars)
  <2>1. CASE UNCHANGED sie
    BY <1>4, <2>1, StutterMaps DEF ReleasePop
  <2>2. CASE sie' # sie
    <3>1. sie' = [sie EXCEPT ![c] = 1] /\ noff[c] = 1 /\ UNCHANGED held
      BY <1>4, <2>2 DEF ReleasePop, intr_pop_off, irqVars
    <3>2. held[c] = {}
      <4>1. /\ Cardinality(held[c]) \in Nat
            /\ held[c] # {} <=> Cardinality(held[c]) # 0
        <5>1. arg[c] \in Locks
          OBVIOUS
        <5>2. QED
          BY <5>1, HeldFinite
      <4>2. QED
        BY <1>4, <3>1, <4>1 DEF ReleasePop, Goto, NoffCountsSections, Sections
    <3>3. QED
      BY <3>1, <3>2, MaskMaps
  <2>3. QED
    BY <2>1, <2>2
<1>5. ASSUME NEW c \in Cpus, NEW enable \in Bit, SetInterrupts(c, enable)
      PROVE  Abstract!Next
  <2>1. held[c] = {}
    <3>1. /\ Cardinality(held[c]) \in Nat
          /\ held[c] # {} <=> Cardinality(held[c]) # 0
      <4>1. arg[c] \in Locks
        OBVIOUS
      <4>2. QED
        BY <4>1, HeldFinite
    <3>2. QED
      BY <1>5, <3>1
         DEF SetInterrupts, NoffCountsSections, Sections, Acquires, Running
  <2>2. QED
    BY <1>5, <2>1, MaskMaps DEF SetInterrupts
<1>6. CASE UNCHANGED <<held, sie>>
  BY <1>6, StutterMaps
<1>7. QED
  BY <1>1, <1>2, <1>3, <1>4, <1>5, <1>6
     DEF Next, vars, AcquireStep, ReleaseStep, AcquireReadLocked,
         AcquireReadCpu, AcquireSetCpu, ReleaseCall, ReleaseReadLocked,
         ReleaseReadCpu, ReleaseClearCpu

\* acquire and release implement AbstractLock: one owner per lock, given up only
\* by its owner, with interrupts off while it is owned.
THEOREM Refinement == Spec => ImplementsAbstractLock
<1>1. Init => Abstract!Init
  BY DEF Init, Abstract!Init, OwnerOf, Bit
<1>2. IInv /\ IInv' /\ [Next]_vars => [Abstract!Next]_(Abstract!vars)
  BY StepMaps
<1>3. QED
  BY <1>1, <1>2, Invariance, PTL DEF Spec, Abstract!Spec, ImplementsAbstractLock
=============================================================================
