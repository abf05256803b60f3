-------------------------- MODULE InterruptProofs --------------------------
(***************************************************************************)
(* Proofs about the parts of MCInterrupts.  Trap, for any programs and     *)
(* tasks, any number of them, and whatever interrupts and faults come: the *)
(* kernel keeps its stacks and tables, programs and interrupted kernel     *)
(* code get their registers back.  VirtioInput (here Input), for rings of  *)
(* any size and any number of events: the driver and the device share the  *)
(* descriptors between them, and the events stay in their order.  And Proc *)
(* on one hart (here Sched), as an instance of what ProcProofs shows.      *)
(***************************************************************************)
EXTENDS MCInterrupts, SequenceTheorems, FiniteSetTheorems, TLAPS

(***************************************************************************)
(* The inductive invariant of Trap                                         *)
(***************************************************************************)
Counters == 0..(PCS - 1)
File     == [Regs -> Tokens]                       \* of registers
Tables   == {KernelTable} \cup {UserTable(p) : p \in Users}
Causes   == {"none", ECALL, TIMER, EXTERNAL, FAULT}

CSR == [sepc : [loc : Locations, pc : Counters], scause : Causes, SPP : 0..1,
        SPIE : 0..1, SIE : 0..1, sscratch : Tokens,
        stvec : {"trap_vector", "uservec"}, satp : Tables]
Frames   == [epc : Counters, regs : File, kernel : File, satp : Tables]
Contexts == [ra : {"ret", "task"}, SIE : 0..1, sp : Tokens, s0 : Tokens]

TypeInv ==
  /\ loc \in Locations
  /\ cur \in Procs \cup {NoProc}
  /\ regs \in File /\ trap_stack \in File /\ held \in File
  /\ pc \in Counters
  /\ csr \in CSR
  /\ timer \in BOOLEAN /\ external \in BOOLEAN
  /\ ver \in [Users -> 0..1] /\ at \in [Users -> Counters]
  /\ trapframe \in [Users -> Frames]
  /\ context \in [Procs -> Contexts]

\* Places where the kernel cannot be interrupted, the last three while it serves an
\* interrupt of its own.
Vectors == {"trap_vector", "kernel_trap_handler", "restore"}
Masked  == {"uservec", "usertrap", "userret", "halted"} \cup Vectors

\* What the control registers say depends on where the hart is.
HartInv ==
  /\ loc # "panic"
  /\ loc \in Masked => csr.SIE = 0
  /\ csr.stvec = IF loc \in {"user", "uservec", "usertrap", "userret"}
                 THEN "uservec" ELSE "trap_vector"
  /\ csr.satp = IF loc \in {"user", "uservec"} THEN UserTable(cur) ELSE KernelTable
  /\ loc \in {"uservec", "usertrap"} => csr.SPP = 0

\* Where the hart is, or will be when the interrupt of the kernel has been served.
Place == IF loc \in Vectors THEN csr.sepc.loc ELSE loc

PlaceInv ==
  /\ loc \in Vectors => csr.sepc.loc \in {"syscall", "check", "ret", "task", "scheduler"}
  /\ Place \in {"user", "uservec", "usertrap", "syscall", "check", "ret", "userret"}
       => cur \in Users
  /\ Place = "task" => cur \in Tasks
  /\ Place = "scheduler" => cur = NoProc

\* Who waits has its own stack, and knows where it goes on.
ContextInv ==
  /\ \A p \in Procs :
       /\ context[p].sp = Token(p, "stack", 0)
       /\ context[p].ra = "ret" => p \in Users
       /\ context[p].ra = "task" => p \in Tasks
  /\ \A p \in Users : trapframe[p].kernel = KernelRegs(p) /\ trapframe[p].satp = KernelTable

\* Registers of interrupted kernel code are in sscratch and on trap_stack, all but t0.
StackInv ==
  /\ StacksAreOwn
  /\ loc = "trap_vector" => held = regs
  /\ loc \in {"kernel_trap_handler", "restore"} =>
       /\ csr.sscratch = held["sp"]
       /\ \A r \in Regs \ {"t0", "sp"} : trap_stack[r] = held[r]
       /\ held["sp"] = Token(cur, "stack", 0)
       /\ held["tp"] = Token("hart", "tp", 0)

\* A program's registers are in the hart or in its trapframe, its counter in the hart, in
\* sepc or in its trapframe.
ProgramInv ==
  /\ \A p \in Users :
       /\ ~(p = cur /\ loc \in {"user", "uservec"}) => trapframe[p].regs = UserRegs(p)
       /\ ~(p = cur /\ loc \in {"user", "uservec", "usertrap"}) => trapframe[p].epc = at[p]
  /\ loc \in {"user", "uservec"} => regs = UserRegs(cur)
  /\ loc = "user" => pc = at[cur]
  /\ loc \in {"uservec", "usertrap"} =>
       at[cur] = IF csr.scause = ECALL THEN (csr.sepc.pc + 1) % PCS ELSE csr.sepc.pc
  /\ loc = "userret" => csr.sepc.pc = at[cur]

IInv == TypeInv /\ HartInv /\ PlaceInv /\ ContextInv /\ StackInv /\ ProgramInv

-----------------------------------------------------------------------------
(***************************************************************************)
(* Registers and counters                                                  *)
(***************************************************************************)
LEMMA NextCounter == \A n \in Counters : (n + 1) % PCS \in Counters
BY PcsAssumption DEF Counters

\* The registers that a program or the kernel begins with.
LEMMA Files ==
  /\ \A p \in Procs \cup {NoProc, "trap"} : KernelRegs(p) \in File
  /\ TypeInv => \A p \in Users : UserRegs(p) \in File
BY DEF KernelRegs, UserRegs, File, Tokens, Token, Regs, Procs, TypeInv

-----------------------------------------------------------------------------
(***************************************************************************)
(* Types                                                                   *)
(***************************************************************************)
LEMMA TypeInit == Init => TypeInv
<1> SUFFICES ASSUME Init PROVE TypeInv
  OBVIOUS
<1>1. /\ NoProc \in Procs \cup {NoProc, "trap"}
      /\ \A p \in Users : p \in Procs \cup {NoProc, "trap"}
  BY DEF Procs
<1>2. 0 \in Counters
  BY PcsAssumption DEF Counters
<1>3. regs \in File /\ trap_stack \in File /\ held \in File
  BY <1>1, Files DEF Init
<1>4. csr \in CSR
  BY <1>2 DEF Init, CSR, At, Locations, Causes, Token, Tokens, Tables
<1>5. trapframe \in [Users -> Frames]
  <2>1. \A p \in Users : [r \in Regs |-> Token(p, r, 0)] \in File
    BY DEF File, Token, Tokens, Procs
  <2>2. \A p \in Users : KernelRegs(p) \in File
    BY <1>1, Files
  <2> QED
    BY <1>2, <2>1, <2>2 DEF Init, Frames, Tables
<1>6. context \in [Procs -> Contexts]
  BY DEF Init, Contexts, Token, Tokens, Procs, Regs
<1>7. ver \in [Users -> 0..1] /\ at \in [Users -> Counters]
  BY <1>2 DEF Init
<1> QED
  BY <1>2, <1>3, <1>4, <1>5, <1>6, <1>7 DEF Init, TypeInv, Locations

\* A trap keeps the types.
LEMMA TypeTrap ==
  ASSUME TypeInv, HartInv, NEW cause \in Causes, Trap(cause)
  PROVE  loc' \in Locations /\ csr' \in CSR /\ held' \in File
<1>1. csr \in CSR /\ loc \in Locations /\ regs \in File
  BY DEF TypeInv
<1>2. csr.SIE \in 0..1 /\ csr.stvec \in Locations
  BY <1>1 DEF CSR, Locations
<1>3. At(loc, IF InUser THEN pc ELSE 0) \in [loc : Locations, pc : Counters]
  BY <1>1, PcsAssumption DEF At, TypeInv, Counters
<1>4. (IF InUser THEN 0 ELSE 1) \in 0..1
  OBVIOUS
<1>5. csr' \in CSR
  <2>1. csr' = [sepc |-> At(loc, IF InUser THEN pc ELSE 0), scause |-> cause,
                SPP |-> IF InUser THEN 0 ELSE 1, SPIE |-> csr.SIE,
                SIE |-> 0, sscratch |-> csr.sscratch,
                stvec |-> csr.stvec, satp |-> csr.satp]
    BY <1>1 DEF Trap, CSR
  <2> QED
    BY <1>1, <1>2, <1>3, <1>4, <2>1 DEF CSR
<1> QED
  BY <1>1, <1>2, <1>5 DEF Trap

LEMMA TypeStep == IInv /\ [Next]_vars => TypeInv'
<1> SUFFICES ASSUME IInv, [Next]_vars PROVE TypeInv'
  OBVIOUS
<1> USE DEF IInv
<1>1. CASE Interrupt
  BY <1>1, TypeTrap DEF Interrupt, Pending, Causes, TypeInv
<1>2. CASE TimerFires \/ DeviceRaises
  BY <1>2 DEF TimerFires, DeviceRaises, TypeInv
<1>3. CASE Compute
  <2>1. cur \in Users
    BY <1>3 DEF Compute, InUser, PlaceInv, Place, Vectors
  <2>2. regs' \in File
    <3>1. \A r \in Regs : regs[r] = [owner |-> cur, reg |-> r, n |-> ver[cur]]
      BY <1>3 DEF Compute, InUser, ProgramInv, UserRegs, Token
    <3>2. ver[cur] \in 0..1
      BY <2>1 DEF TypeInv
    <3>3. \A r \in Regs : [regs[r] EXCEPT !.n = 1 - @] \in Tokens
      <4>1. ASSUME NEW r \in Regs
            PROVE  [regs[r] EXCEPT !.n = 1 - @] =
                     [owner |-> cur, reg |-> r, n |-> 1 - ver[cur]]
        <5> DEFINE t == regs[r]
        <5>1. t = [owner |-> cur, reg |-> r, n |-> ver[cur]]
          BY <3>1
        <5> HIDE DEF t
        <5>2. [t EXCEPT !.n = 1 - @] = [owner |-> cur, reg |-> r, n |-> 1 - ver[cur]]
          BY <5>1
        <5> QED
          BY <5>2 DEF t
      <4>2. 1 - ver[cur] \in 0..2
        BY <3>2
      <4> QED
        BY <2>1, <4>1, <4>2 DEF Tokens, Procs
    <3> QED
      BY <1>3, <3>3 DEF Compute, File
  <2>3. at' \in [Users -> Counters] /\ pc' \in Counters
    BY <1>3, <2>1, NextCounter DEF Compute, TypeInv
  <2>4. ver' \in [Users -> 0..1]
    BY <1>3, <2>1 DEF Compute, TypeInv
  <2> QED
    BY <1>3, <2>2, <2>3, <2>4 DEF Compute, TypeInv
<1>4. CASE Ecall
  <2>1. loc' \in Locations /\ csr' \in CSR /\ held' \in File
    BY <1>4, TypeTrap DEF Ecall, Causes
  <2>2. cur \in Users
    BY <1>4 DEF Ecall, InUser, PlaceInv, Place, Vectors
  <2>3. at' \in [Users -> Counters]
    BY <1>4, <2>2, NextCounter DEF Ecall, TypeInv
  <2> QED
    BY <1>4, <2>1, <2>3 DEF Ecall, TypeInv
<1>5. CASE Fault
  BY <1>5, TypeTrap DEF Fault, Causes, TypeInv
<1>6. CASE uservec
  <2>1. csr.satp = UserTable(cur) /\ cur \in Users
    BY <1>6 DEF uservec, HartInv, PlaceInv, Place, Vectors
  <2>2. csr.satp.table = cur
    BY <2>1 DEF UserTable
  <2>3. trapframe[cur] \in Frames
    BY <2>1 DEF TypeInv
  <2>4. csr' \in CSR
    BY <1>6, <2>2, <2>3 DEF uservec, TypeInv, CSR, Frames, File, Regs
  <2>5. trapframe' \in [Users -> Frames]
    BY <1>6, <2>1, <2>2, <2>3 DEF uservec, TypeInv, Frames
  <2>6. regs' \in File
    BY <1>6, <2>2, <2>3 DEF uservec, TypeInv, Frames, File, Regs
  <2> QED
    BY <1>6, <2>4, <2>5, <2>6 DEF uservec, TypeInv, Locations
<1>7. CASE userret
  <2>1. cur \in Users
    BY <1>7 DEF userret, PlaceInv, Place, Vectors
  <2>2. csr' \in CSR
    <3>1. csr \in CSR /\ csr.SPIE \in 0..1 /\ UserTable(cur) \in Tables
      BY <2>1 DEF TypeInv, CSR, Tables
    <3> QED
      <4>1. csr' = [sepc |-> csr.sepc, scause |-> csr.scause,
                    SPP |-> csr.SPP, SPIE |-> 1,
                    SIE |-> csr.SPIE, sscratch |-> csr.sscratch,
                    stvec |-> csr.stvec, satp |-> UserTable(cur)]
        BY <1>7, <3>1 DEF userret, CSR
      <4> QED
        BY <3>1, <4>1 DEF CSR
  <2>3. regs' \in File /\ pc' \in Counters
    BY <1>7, <2>1 DEF userret, TypeInv, Frames, CSR
  <2> QED
    BY <1>7, <2>2, <2>3 DEF userret, TypeInv, Locations
<1>8. CASE usertrap
  <2>1. cur \in Users /\ csr.SPP = 0
    BY <1>8 DEF usertrap, PlaceInv, Place, Vectors, HartInv
  <2>2. csr' \in CSR
    <3>1. csr \in CSR /\ (IF csr.scause = ECALL THEN 1 ELSE csr.SIE) \in 0..1
      BY DEF TypeInv, CSR
    <3> QED
      BY <1>8, <2>1, <3>1 DEF usertrap, CSR
  <2>3. KernelRegs(cur) \in File
    BY <2>1, Files DEF Procs
  <2>4. regs' \in File
    BY <1>8, <2>1, <2>3 DEF usertrap, TypeInv, File, Regs
  <2>5. (csr.sepc.pc + 1) % PCS \in Counters /\ csr.sepc.pc \in Counters
    BY NextCounter DEF TypeInv, CSR
  <2>6. trapframe' \in [Users -> Frames]
    BY <1>8, <2>1, <2>5 DEF usertrap, TypeInv, Frames
  <2> QED
    BY <1>8, <2>1, <2>2, <2>4, <2>6 DEF usertrap, TypeInv, Locations
<1>9. CASE Syscall \/ Check
  BY <1>9 DEF Syscall, Check, TypeInv, Locations
<1>10. ASSUME NEW back \in {"ret", "task"}, SwitchFrom(back), cur \in Procs
       PROVE  TypeInv'
  <2>1. KernelRegs(NoProc) \in File
    BY Files
  <2>2. regs' \in File
    BY <1>10, <2>1 DEF SwitchFrom, TypeInv, File, Regs
  <2>3. context' \in [Procs -> Contexts]
    BY <1>10 DEF SwitchFrom, TypeInv, Contexts, CSR, File, Regs
  <2>4. csr' \in CSR
    BY <1>10 DEF SwitchFrom, TypeInv, CSR
  <2> QED
    BY <1>10, <2>2, <2>3, <2>4 DEF SwitchFrom, TypeInv, Locations
<1>11. CASE Yields
  BY <1>10, <1>11 DEF Yields, PlaceInv, Place, Vectors, Procs
<1>12. CASE Dispatch
  <2>1. PICK p \in Procs : /\ cur' = p
                           /\ regs' = [KernelRegs(p) EXCEPT !["tp"] = regs["tp"],
                                         !["sp"] = context[p].sp, !["s0"] = context[p].s0]
                           /\ csr' = [csr EXCEPT !.SIE = context[p].SIE]
                           /\ loc' = context[p].ra
    BY <1>12 DEF Dispatch
  <2>2. context[p] \in Contexts
    BY DEF TypeInv
  <2>3. KernelRegs(p) \in File
    BY Files
  <2>4. regs' \in File
    BY <2>1, <2>2, <2>3 DEF TypeInv, Contexts, File, Regs
  <2>5. csr' \in CSR /\ loc' \in Locations
    BY <2>1, <2>2 DEF TypeInv, CSR, Contexts, Locations
  <2> QED
    BY <1>12, <2>1, <2>4, <2>5 DEF Dispatch, TypeInv
<1>13. CASE user_trap_ret
  <2>1. cur \in Users
    BY <1>13 DEF user_trap_ret, PlaceInv, Place, Vectors
  <2>2. trapframe[cur] \in Frames /\ KernelRegs(cur) \in File
    BY <2>1, Files DEF TypeInv, Procs
  <2>3. csr' \in CSR
    <3>1. csr \in CSR
      BY DEF TypeInv
    <3>2. At("user", trapframe[cur].epc) \in [loc : Locations, pc : Counters]
      BY <2>2 DEF At, Locations, Frames
    <3> QED
      <4>1. csr' = [sepc |-> At("user", trapframe[cur].epc), scause |-> csr.scause,
                    SPP |-> 0, SPIE |-> 1,
                    SIE |-> 0, sscratch |-> csr.sscratch,
                    stvec |-> "uservec", satp |-> csr.satp]
        BY <1>13, <3>1 DEF user_trap_ret, CSR
      <4> QED
        BY <3>1, <3>2, <4>1 DEF CSR
  <2>4. [KernelRegs(cur) EXCEPT !["tp"] = regs["tp"]] \in File
    BY <2>2 DEF TypeInv, File, Regs
  <2>5. trapframe' \in [Users -> Frames]
    BY <1>13, <2>1, <2>2, <2>4 DEF user_trap_ret, TypeInv, Frames, CSR
  <2> QED
    BY <1>13, <2>3, <2>5 DEF user_trap_ret, TypeInv, Locations
<1>14. CASE TaskRuns
  <2>1. CASE csr.SIE = 0
    BY <1>14, <2>1 DEF TaskRuns, TypeInv, CSR
  <2>2. CASE csr.SIE # 0
    BY <1>10, <1>14, <2>2 DEF TaskRuns, PlaceInv, Place, Vectors, Procs
  <2> QED
    BY <2>1, <2>2
<1>15. CASE TaskFaults
  BY <1>15, TypeTrap DEF TaskFaults, Causes, TypeInv
<1>16. CASE trap_vector
  <2>1. KernelRegs("trap") \in File
    BY Files
  <2>2. csr' \in CSR
    BY <1>16 DEF trap_vector, TypeInv, CSR, File, Regs
  <2>3. regs' \in File /\ trap_stack' \in File
    BY <1>16, <2>1 DEF trap_vector, TypeInv, File, Regs
  <2> QED
    BY <1>16, <2>2, <2>3 DEF trap_vector, TypeInv, Locations
<1>17. CASE kernel_trap_handler
  BY <1>17 DEF kernel_trap_handler, TypeInv, Locations
<1>18. CASE restore_regs
  <2>1. csr' \in CSR /\ loc' \in Locations
    <3>1. csr \in CSR /\ csr.SPIE \in 0..1 /\ csr.sepc.loc \in Locations
      BY DEF TypeInv, CSR
    <3> QED
      <4>1. csr' = [sepc |-> csr.sepc, scause |-> csr.scause,
                    SPP |-> 0, SPIE |-> 1,
                    SIE |-> csr.SPIE, sscratch |-> csr.sscratch,
                    stvec |-> csr.stvec, satp |-> csr.satp]
        BY <1>18, <3>1 DEF restore_regs, CSR
      <4> QED
        BY <1>18, <3>1, <4>1 DEF restore_regs, CSR
  <2>2. regs' \in File
    BY <1>18 DEF restore_regs, TypeInv, CSR, File, Regs
  <2> QED
    BY <1>18, <2>1, <2>2 DEF restore_regs, TypeInv
<1>19. CASE UNCHANGED vars
  BY <1>19 DEF vars, TypeInv
<1> QED
  BY <1>1, <1>2, <1>3, <1>4, <1>5, <1>6, <1>7, <1>8, <1>9, <1>11, <1>12, <1>13, <1>14,
     <1>15, <1>16, <1>17, <1>18, <1>19 DEF Next, Program, Kernel

-----------------------------------------------------------------------------
(***************************************************************************)
(* Where the hart is                                                       *)
(***************************************************************************)
\* The control registers fit every place the hart comes to.
LEMMA HartStep == IInv /\ [Next]_vars => HartInv'
<1> SUFFICES ASSUME IInv, [Next]_vars PROVE HartInv'
  OBVIOUS
<1> USE DEF IInv, TypeInv, CSR, HartInv, PlaceInv, Place, Vectors, Masked
<1>1. CASE Interrupt
  BY <1>1 DEF Interrupt, Pending, Trap, At, InUser, Taken
<1>2. CASE TimerFires \/ DeviceRaises
  BY <1>2 DEF TimerFires, DeviceRaises
<1>3. CASE Compute
  BY <1>3 DEF Compute, InUser
<1>4. CASE Ecall
  BY <1>4 DEF Ecall, Trap, At, InUser
<1>5. CASE Fault
  BY <1>5 DEF Fault, Trap, At, InUser
<1>6. CASE uservec
  <2>1. csr.satp = UserTable(cur) /\ cur \in Users
    BY <1>6 DEF uservec
  <2>2. csr.satp.table = cur /\ trapframe[cur].satp = KernelTable
    BY <2>1 DEF UserTable, ContextInv
  <2> QED
    BY <1>6, <2>2 DEF uservec
<1>7. CASE userret
  BY <1>7 DEF userret
<1>8. CASE usertrap
  BY <1>8 DEF usertrap
<1>9. CASE Syscall \/ Check
  BY <1>9 DEF Syscall, Check
<1>10. CASE Yields
  BY <1>10 DEF Yields, SwitchFrom
<1>11. CASE Dispatch
  BY <1>11 DEF Dispatch, Contexts
<1>12. CASE user_trap_ret
  BY <1>12 DEF user_trap_ret, At
<1>13. CASE TaskRuns
  BY <1>13 DEF TaskRuns, SwitchFrom
<1>14. CASE TaskFaults
  BY <1>14 DEF TaskFaults, Trap, At, InUser
<1>15. CASE trap_vector
  BY <1>15 DEF trap_vector
<1>16. CASE kernel_trap_handler
  BY <1>16 DEF kernel_trap_handler
<1>17. CASE restore_regs
  BY <1>17 DEF restore_regs
<1>18. CASE UNCHANGED vars
  BY <1>18 DEF vars
<1> QED
  BY <1>1, <1>2, <1>3, <1>4, <1>5, <1>6, <1>7, <1>8, <1>9,
     <1>10, <1>11, <1>12, <1>13, <1>14, <1>15, <1>16, <1>17, <1>18
     DEF Next, Program, Kernel

\* current_proc() is a process of the kind that can be in that place.
LEMMA PlaceStep == IInv /\ [Next]_vars => PlaceInv'
<1> SUFFICES ASSUME IInv, [Next]_vars PROVE PlaceInv'
  OBVIOUS
<1> USE DEF IInv, TypeInv, CSR, HartInv, PlaceInv, Place, Vectors, Masked
<1>1. CASE Interrupt
  BY <1>1 DEF Interrupt, Pending, Trap, At, InUser, Taken, Locations
<1>2. CASE TimerFires \/ DeviceRaises
  BY <1>2 DEF TimerFires, DeviceRaises
<1>3. CASE Compute
  BY <1>3 DEF Compute, InUser
<1>4. CASE Ecall
  BY <1>4 DEF Ecall, Trap, At, InUser
<1>5. CASE Fault
  BY <1>5 DEF Fault, Trap, At, InUser
<1>6. CASE uservec
  BY <1>6 DEF uservec
<1>7. CASE userret
  BY <1>7 DEF userret
<1>8. CASE usertrap
  BY <1>8 DEF usertrap
<1>9. CASE Syscall \/ Check
  BY <1>9 DEF Syscall, Check
<1>10. CASE Yields
  BY <1>10 DEF Yields, SwitchFrom
<1>11. CASE Dispatch
  BY <1>11 DEF Dispatch, Contexts, ContextInv
<1>12. CASE user_trap_ret
  BY <1>12 DEF user_trap_ret, At
<1>13. CASE TaskRuns
  BY <1>13 DEF TaskRuns, SwitchFrom
<1>14. CASE TaskFaults
  BY <1>14 DEF TaskFaults, Trap, At, InUser
<1>15. CASE trap_vector
  BY <1>15 DEF trap_vector
<1>16. CASE kernel_trap_handler
  BY <1>16 DEF kernel_trap_handler
<1>17. CASE restore_regs
  BY <1>17 DEF restore_regs
<1>18. CASE UNCHANGED vars
  BY <1>18 DEF vars
<1> QED
  BY <1>1, <1>2, <1>3, <1>4, <1>5, <1>6, <1>7, <1>8, <1>9,
     <1>10, <1>11, <1>12, <1>13, <1>14, <1>15, <1>16, <1>17, <1>18
     DEF Next, Program, Kernel

\* Who gives up the hart leaves a context of its own.
LEMMA ContextStep == IInv /\ [Next]_vars => ContextInv'
<1> SUFFICES ASSUME IInv, [Next]_vars PROVE ContextInv'
  OBVIOUS
<1> USE DEF IInv, TypeInv, ContextInv
<1>1. CASE Interrupt
  BY <1>1 DEF Interrupt, Pending, Trap, At, InUser, Taken
<1>2. CASE TimerFires \/ DeviceRaises
  BY <1>2 DEF TimerFires, DeviceRaises
<1>3. CASE Compute
  BY <1>3 DEF Compute, InUser
<1>4. CASE Ecall
  BY <1>4 DEF Ecall, Trap, At, InUser
<1>5. CASE Fault
  BY <1>5 DEF Fault, Trap, At, InUser
<1>6. CASE uservec
  BY <1>6 DEF uservec
<1>7. CASE userret
  BY <1>7 DEF userret
<1>8. CASE usertrap
  <2>1. cur \in Users
    BY <1>8 DEF usertrap, PlaceInv, Place, Vectors
  <2>2. \A p \in Users : trapframe'[p].kernel = trapframe[p].kernel
                         /\ trapframe'[p].satp = trapframe[p].satp
    BY <1>8, <2>1 DEF usertrap, Frames
  <2> QED
    BY <1>8, <2>2 DEF usertrap
<1>9. CASE Syscall \/ Check
  BY <1>9 DEF Syscall, Check
<1>10. CASE Yields
  <2>1. cur \in Users /\ regs["sp"] = Token(cur, "stack", 0)
    BY <1>10 DEF Yields, PlaceInv, Place, Vectors, StackInv, StacksAreOwn
  <2> QED
    BY <1>10, <2>1 DEF Yields, SwitchFrom, Procs
<1>11. CASE Dispatch
  BY <1>11 DEF Dispatch
<1>12. CASE user_trap_ret
  <2>1. cur \in Users /\ regs["tp"] = Token("hart", "tp", 0) /\ csr.satp = KernelTable
    BY <1>12 DEF user_trap_ret, PlaceInv, Place, Vectors, StackInv, StacksAreOwn, HartInv
  <2>2. [KernelRegs(cur) EXCEPT !["tp"] = regs["tp"]] = KernelRegs(cur)
    BY <2>1 DEF KernelRegs, Regs
  <2>3. \A p \in Users : trapframe'[p].kernel = KernelRegs(p) /\ trapframe'[p].satp = KernelTable
    <3>1. TAKE p \in Users
    <3>2. CASE p = cur
      BY <1>12, <2>1, <2>2, <3>2 DEF user_trap_ret, Frames
    <3>3. CASE p # cur
      BY <1>12, <2>1, <3>3 DEF user_trap_ret, Frames
    <3> QED
      BY <3>2, <3>3
  <2> QED
    BY <1>12, <2>3 DEF user_trap_ret
<1>13. CASE TaskRuns
  <2>1. cur \in Tasks /\ regs["sp"] = Token(cur, "stack", 0)
    BY <1>13 DEF TaskRuns, PlaceInv, Place, Vectors, StackInv, StacksAreOwn
  <2> QED
    BY <1>13, <2>1 DEF TaskRuns, SwitchFrom, Procs
<1>14. CASE TaskFaults
  BY <1>14 DEF TaskFaults, Trap, At, InUser
<1>15. CASE trap_vector
  BY <1>15 DEF trap_vector
<1>16. CASE kernel_trap_handler
  BY <1>16 DEF kernel_trap_handler
<1>17. CASE restore_regs
  BY <1>17 DEF restore_regs
<1>18. CASE UNCHANGED vars
  BY <1>18 DEF vars
<1> QED
  BY <1>1, <1>2, <1>3, <1>4, <1>5, <1>6, <1>7, <1>8, <1>9,
     <1>10, <1>11, <1>12, <1>13, <1>14, <1>15, <1>16, <1>17, <1>18
     DEF Next, Program, Kernel

-----------------------------------------------------------------------------
(***************************************************************************)
(* What the registers hold                                                 *)
(***************************************************************************)
\* Stacks and tp, and the registers of interrupted code.
LEMMA StackStep == IInv /\ [Next]_vars => StackInv'
<1> SUFFICES ASSUME IInv, [Next]_vars PROVE StackInv'
  OBVIOUS
<1> USE DEF IInv, TypeInv, CSR, File, Regs, HartInv, Masked, Vectors,
        StackInv, StacksAreOwn, KernelRegs
<1>1. CASE Interrupt
  BY <1>1 DEF Interrupt, Pending, Trap, At, InUser, Taken
<1>2. CASE TimerFires \/ DeviceRaises
  BY <1>2 DEF TimerFires, DeviceRaises
<1>3. CASE Compute
  BY <1>3 DEF Compute, InUser
<1>4. CASE Ecall
  BY <1>4 DEF Ecall, Trap, At, InUser
<1>5. CASE Fault
  BY <1>5 DEF Fault, Trap, At, InUser
<1>6. CASE uservec
  <2>1. csr.satp = UserTable(cur) /\ cur \in Users
    BY <1>6 DEF uservec, PlaceInv, Place
  <2>2. csr.satp.table = cur /\ trapframe[cur].kernel = KernelRegs(cur)
    BY <2>1 DEF UserTable, ContextInv
  <2>3. regs'["sp"] = Token(cur, "stack", 0) /\ regs'["tp"] = Token("hart", "tp", 0)
    BY <1>6, <2>2 DEF uservec
  <2> QED
    BY <1>6, <2>3 DEF uservec
<1>7. CASE userret
  BY <1>7 DEF userret
<1>8. CASE usertrap
  BY <1>8 DEF usertrap
<1>9. CASE Syscall \/ Check
  BY <1>9 DEF Syscall, Check
<1>10. CASE Yields
  BY <1>10 DEF Yields, SwitchFrom
<1>11. CASE Dispatch
  BY <1>11 DEF Dispatch, Contexts, ContextInv
<1>12. CASE user_trap_ret
  BY <1>12 DEF user_trap_ret, At
<1>13. CASE TaskRuns
  <2>1. CASE csr.SIE = 0
    BY <1>13, <2>1 DEF TaskRuns
  <2>2. CASE csr.SIE # 0
    <3>1. regs'["sp"] = Token(NoProc, "stack", 0) /\ regs'["tp"] = regs["tp"]
      BY <1>13, <2>2 DEF TaskRuns, SwitchFrom
    <3>2. loc' = "scheduler" /\ cur' = NoProc
      BY <1>13, <2>2 DEF TaskRuns, SwitchFrom
    <3> QED
      BY <1>13, <3>1, <3>2 DEF TaskRuns
  <2> QED
    BY <2>1, <2>2
<1>14. CASE TaskFaults
  BY <1>14 DEF TaskFaults, Trap, At, InUser
<1>15. CASE trap_vector
  BY <1>15 DEF trap_vector
<1>16. CASE kernel_trap_handler
  BY <1>16 DEF kernel_trap_handler
<1>17. CASE restore_regs
  <2>1. csr.sepc.loc \in {"syscall", "check", "ret", "task", "scheduler"}
    BY <1>17 DEF restore_regs, PlaceInv
  <2>2. regs'["sp"] = Token(cur, "stack", 0) /\ regs'["tp"] = Token("hart", "tp", 0)
    BY <1>17 DEF restore_regs
  <2> QED
    BY <1>17, <2>1, <2>2 DEF restore_regs
<1>18. CASE UNCHANGED vars
  BY <1>18 DEF vars
<1> QED
  BY <1>1, <1>2, <1>3, <1>4, <1>5, <1>6, <1>7, <1>8, <1>9,
     <1>10, <1>11, <1>12, <1>13, <1>14, <1>15, <1>16, <1>17, <1>18
     DEF Next, Program, Kernel

\* The registers and the counters of the programs.
LEMMA ProgramStep == IInv /\ [Next]_vars => ProgramInv'
<1> SUFFICES ASSUME IInv, [Next]_vars PROVE ProgramInv'
  OBVIOUS
<1> USE DEF IInv, TypeInv, CSR, Frames, File, HartInv, Masked, Vectors,
        ProgramInv, UserRegs
<1>1. CASE Interrupt
  <2>1. CASE InUser
    BY <1>1, <2>1 DEF Interrupt, Pending, Trap, At, InUser, ECALL, TIMER, EXTERNAL
  <2>2. CASE ~InUser
    <3>1. loc \notin {"user", "uservec", "usertrap", "userret"} /\ loc' = "trap_vector"
      BY <1>1, <2>2 DEF Interrupt, Taken, Trap, InUser
    <3> QED
      BY <1>1, <3>1 DEF Interrupt, Trap
  <2> QED
    BY <2>1, <2>2
<1>2. CASE TimerFires \/ DeviceRaises
  BY <1>2 DEF TimerFires, DeviceRaises
<1>3. CASE Compute
  <2>1. cur \in Users /\ loc = "user" /\ loc' = "user" /\ cur' = cur
    BY <1>3 DEF Compute, InUser, PlaceInv, Place
  <2>2. ver'[cur] = 1 - ver[cur] /\ \A p \in Users : p # cur => ver'[p] = ver[p] /\ at'[p] = at[p]
    BY <1>3, <2>1 DEF Compute
  <2>3. regs' = UserRegs(cur)'
    <3>1. ASSUME NEW r \in Regs PROVE [regs[r] EXCEPT !.n = 1 - @] = Token(cur, r, 1 - ver[cur])
      <4> DEFINE t == regs[r]
      <4>1. t = [owner |-> cur, reg |-> r, n |-> ver[cur]]
        BY <2>1 DEF Token
      <4> HIDE DEF t
      <4>2. [t EXCEPT !.n = 1 - @] = Token(cur, r, 1 - ver[cur])
        BY <4>1 DEF Token
      <4> QED
        BY <4>2 DEF t
    <3> QED
      BY <1>3, <2>1, <2>2, <3>1 DEF Compute
  <2>4. pc' = at'[cur]
    BY <1>3, <2>1 DEF Compute
  <2>5. ASSUME NEW p \in Users, p # cur
        PROVE  trapframe'[p].regs = UserRegs(p)' /\ trapframe'[p].epc = at'[p]
    BY <1>3, <2>1, <2>2, <2>5 DEF Compute
  <2> QED
    BY <2>1, <2>3, <2>4, <2>5
<1>4. CASE Ecall
  <2>1. cur \in Users /\ loc = "user" /\ loc' = "uservec" /\ cur' = cur
    BY <1>4 DEF Ecall, Trap, InUser, PlaceInv, Place
  <2>2. at'[cur] = (csr'.sepc.pc + 1) % PCS /\ csr'.scause = ECALL
    BY <1>4, <2>1 DEF Ecall, Trap, At, InUser
  <2>3. \A p \in Users : p # cur => at'[p] = at[p]
    BY <1>4 DEF Ecall
  <2> QED
    BY <1>4, <2>1, <2>2, <2>3 DEF Ecall
<1>5. CASE Fault
  BY <1>5 DEF Fault, Trap, At, InUser, ECALL, FAULT
<1>6. CASE uservec
  <2>1. csr.satp = UserTable(cur) /\ cur \in Users
    BY <1>6 DEF uservec, PlaceInv, Place
  <2>2. csr.satp.table = cur
    BY <2>1 DEF UserTable
  <2> QED
    BY <1>6, <2>1, <2>2 DEF uservec
<1>7. CASE userret
  <2>1. cur \in Users /\ trapframe[cur].regs = UserRegs(cur)
    BY <1>7 DEF userret, PlaceInv, Place
  <2> QED
    BY <1>7, <2>1 DEF userret
<1>8. CASE usertrap
  BY <1>8 DEF usertrap
<1>9. CASE Syscall \/ Check
  BY <1>9 DEF Syscall, Check
<1>10. CASE Yields
  BY <1>10 DEF Yields, SwitchFrom
<1>11. CASE Dispatch
  <2>1. loc' \in {"ret", "task"}
    BY <1>11 DEF Dispatch, Contexts
  <2>2. \A p \in Users : trapframe[p].regs = UserRegs(p) /\ trapframe[p].epc = at[p]
    BY <1>11 DEF Dispatch
  <2> QED
    BY <1>11, <2>1, <2>2 DEF Dispatch
<1>12. CASE user_trap_ret
  <2>1. cur \in Users /\ trapframe[cur].epc = at[cur]
    BY <1>12 DEF user_trap_ret, PlaceInv, Place
  <2>2. csr'.sepc.pc = at[cur]
    BY <1>12, <2>1 DEF user_trap_ret, At
  <2>3. \A p \in Users : trapframe'[p].regs = trapframe[p].regs /\ trapframe'[p].epc = trapframe[p].epc
    BY <1>12, <2>1 DEF user_trap_ret
  <2> QED
    BY <1>12, <2>2, <2>3 DEF user_trap_ret
<1>13. CASE TaskRuns
  BY <1>13 DEF TaskRuns, SwitchFrom
<1>14. CASE TaskFaults
  BY <1>14 DEF TaskFaults, Trap, At, InUser
<1>15. CASE trap_vector
  BY <1>15 DEF trap_vector
<1>16. CASE kernel_trap_handler
  <2>1. loc' \in {"restore", "halted"}
    BY <1>16 DEF kernel_trap_handler
  <2>2. \A p \in Users : trapframe[p].regs = UserRegs(p) /\ trapframe[p].epc = at[p]
    BY <1>16 DEF kernel_trap_handler
  <2> QED
    BY <1>16, <2>1, <2>2 DEF kernel_trap_handler
<1>17. CASE restore_regs
  <2>1. loc' \in {"syscall", "check", "ret", "task", "scheduler"}
    BY <1>17 DEF restore_regs, PlaceInv
  <2>2. \A p \in Users : trapframe[p].regs = UserRegs(p) /\ trapframe[p].epc = at[p]
    BY <1>17 DEF restore_regs
  <2> QED
    BY <1>17, <2>1, <2>2 DEF restore_regs
<1>18. CASE UNCHANGED vars
  BY <1>18 DEF vars
<1> QED
  BY <1>1, <1>2, <1>3, <1>4, <1>5, <1>6, <1>7, <1>8, <1>9,
     <1>10, <1>11, <1>12, <1>13, <1>14, <1>15, <1>16, <1>17, <1>18
     DEF Next, Program, Kernel

-----------------------------------------------------------------------------
(***************************************************************************)
(* The theorems                                                            *)
(***************************************************************************)
LEMMA InvInit == Init => IInv
<1> SUFFICES ASSUME Init PROVE IInv
  OBVIOUS
<1>1. TypeInv
  BY TypeInit
<1>2. HartInv /\ PlaceInv
  BY DEF Init, HartInv, PlaceInv, Place, Vectors, Masked
<1>3. ContextInv
  BY DEF Init, ContextInv, Procs
<1>4. StackInv
  BY DEF Init, StackInv, StacksAreOwn, KernelRegs, Regs
<1>5. ProgramInv
  BY DEF Init, ProgramInv, UserRegs
<1> QED
  BY <1>1, <1>2, <1>3, <1>4, <1>5 DEF IInv

LEMMA Invariance == Spec => []IInv
<1>1. IInv /\ [Next]_vars => IInv'
  BY TypeStep, HartStep, PlaceStep, ContextStep, StackStep, ProgramStep DEF IInv
<1> QED
  BY <1>1, InvInit, PTL DEF Spec

\* A program finds its registers as it has left them and goes on where it should,
\* whatever traps, calls and switches come in between (trampoline.S, proc.c:639-716).
THEOREM ProgramsCorrect == Spec => []ProgramsSeeNothing
<1>1. IInv => ProgramsSeeNothing
  BY DEF IInv, ProgramInv, ProgramsSeeNothing, InUser
<1> QED
  BY <1>1, Invariance, PTL

\* The kernel is entered with its own table, vector, stack and tp, from wherever.
THEOREM KernelCorrect == Spec => []KernelIsSound
<1>1. IInv => TypeOK
  BY DEF IInv, TypeInv, TypeOK, File, CSR, Causes, Counters, Frames, Contexts
<1>2. IInv => KernelIsNotLost
  BY DEF IInv, HartInv, KernelIsNotLost
<1>3. IInv => StacksAreOwn
  BY DEF IInv, StackInv
<1> QED
  BY <1>1, <1>2, <1>3, Invariance, PTL DEF KernelIsSound

\* Kernel code that is interrupted gets its registers back, all but t0 (trap.s).
THEOREM RegistersCorrect == Spec => RegistersComeBack
<1>1. IInv /\ [Next]_vars => [restore_regs => \A r \in Regs \ {"t0"} : regs'[r] = held[r]]_vars
  BY DEF IInv, TypeInv, File, CSR, Regs, StackInv, restore_regs
<1> QED
  BY <1>1, Invariance, PTL DEF Spec, RegistersComeBack

LEMMA DivMod ==
  ASSUME NEW m \in Nat \ {0}, NEW x \in Int
  PROVE  \E q \in Int, r \in 0..(m-1) : x = m * q + r /\ x % m = r
<1>1. x % m \in 0..(m - 1)
  BY Z3
<1>2. x \div m \in Int
  BY Z3
<1>3. x = m * (x \div m) + (x % m)
  BY Z3
<1> QED
  BY <1>1, <1>2, <1>3

LEMMA ModIs ==
  ASSUME NEW m \in Nat \ {0}, NEW q \in Int, NEW r \in 0..(m-1)
  PROVE  (m * q + r) % m = r
  BY Z3

LEMMA ModSame ==
  ASSUME NEW m \in Nat \ {0}, NEW q \in Int, NEW x \in Int
  PROVE  (m * q + x) % m = x % m
<1>1. PICK p \in Int, r \in 0..(m-1) : x = m * p + r /\ x % m = r
  BY DivMod
<1>2. m * q + x = m * (q + p) + r /\ q + p \in Int
  BY <1>1
<1> QED
  BY <1>1, <1>2, ModIs

LEMMA ModApart ==
  ASSUME NEW m \in Nat \ {0}, NEW x \in Int, NEW y \in Int, x % m = y % m, x - y < m, y - x < m
  PROVE  x = y
<1>1. PICK p \in Int, r \in 0..(m-1) : x = m * p + r /\ x % m = r
  BY DivMod
<1>2. PICK q \in Int, t \in 0..(m-1) : y = m * q + t /\ y % m = t
  BY DivMod
<1>3. x - y = m * (p - q) /\ p - q \in Int
  BY <1>1, <1>2
<1>4. ASSUME NEW d \in Int, m * d < m, -(m * d) < m PROVE d = 0
  BY <1>4
<1>5. p - q = 0
  BY <1>3, <1>4
<1> QED
  BY <1>1, <1>2, <1>5

LEMMA ModShort ==
  ASSUME NEW m \in Nat \ {0}, NEW x \in 0..(m-1)
  PROVE  x % m = x
  BY Z3

LEMMA ModPlus ==
  ASSUME NEW m \in Nat \ {0}, NEW x \in Int, NEW y \in Int
  PROVE  ((x % m) + y) % m = (x + y) % m
<1>1. PICK p \in Int, r \in 0..(m-1) : x = m * p + r /\ x % m = r
  BY DivMod
<1>2. PICK z \in Int : z = r + y
  OBVIOUS
<1>3. x + y = m * p + z
  BY <1>1, <1>2
<1>4. (m * p + z) % m = z % m
  BY ModSame
<1> QED
  BY <1>1, <1>2, <1>3, <1>4

LEMMA ModModPlus ==
  ASSUME NEW m \in Nat \ {0}, NEW w \in Nat \ {0}, w % m = 0, NEW x \in Int, NEW y \in Int
  PROVE  ((x % w) + y) % m = (x + y) % m
<1>1. PICK p \in Int, r \in 0..(w-1) : x = w * p + r /\ x % w = r
  BY DivMod
<1>2. PICK q \in Int : w = m * q
  <2>1. PICK q \in Int, z \in 0..(m - 1) : w = m * q + z /\ w % m = z
    BY DivMod
  <2>2. z = 0
    BY <2>1
  <2>3. w = m * q
    BY <2>1, <2>2
  <2> QED
    BY <2>3, Zenon
<1>3. PICK n \in Int, z \in Int : n = q * p /\ z = r + y
  BY <1>1
<1>4. w * p = m * n
  BY <1>2, <1>3
<1>5. x + y = m * n + z
  BY <1>1, <1>3, <1>4
<1>6. (m * n + z) % m = z % m
  BY ModSame
<1> QED
  BY <1>1, <1>3, <1>5, <1>6
-----------------------------------------------------------------------------
(***************************************************************************)
(* Indices count modulo WRAP, slots modulo SIZE.                           *)
(***************************************************************************)
Indices == 0..(WRAP - 1)

Ahead(a, n) == (a + n) % WRAP
Slot(a, n)  == (a + n) % SIZE
Dist(a, b)  == (b - a) % WRAP

LEMMA Sizes0 ==
  ASSUME Input!SizeAssumption
  PROVE  /\ SIZE \in Nat \ {0} /\ WRAP \in Nat \ {0} /\ WRAP > SIZE /\ WRAP % SIZE = 0
         /\ Indices \subseteq Nat /\ Input!Descriptors \subseteq Nat
            /\ Input!None \notin Input!Descriptors
BY DEF Input!SizeAssumption, Indices, Input!Descriptors, Input!None

LEMMA AheadIs ==
  ASSUME Input!SizeAssumption, NEW a \in Nat, NEW n \in Nat
  PROVE  /\ Ahead(a, n) \in Indices /\ Slot(a, n) \in Input!Descriptors
         /\ \A k \in Nat : /\ Ahead(Ahead(a, n), k) = Ahead(a, n + k)
                           /\ Slot(Ahead(a, n), k) = Slot(a, n + k)
<1>1. SIZE \in Nat \ {0} /\ WRAP \in Nat \ {0} /\ WRAP % SIZE = 0
  BY Sizes0
<1>2. PICK x \in Nat : x = a + n
  OBVIOUS
<1>3. (x % WRAP) \in 0..(WRAP - 1) /\ (x % SIZE) \in 0..(SIZE - 1)
  BY <1>1
<1>4. ASSUME NEW k \in Nat
      PROVE  ((x % WRAP) + k) % WRAP = (x + k) % WRAP /\ ((x % WRAP) + k) % SIZE = (x + k) % SIZE
  <2>1. x \in Int /\ k \in Int
    OBVIOUS
  <2> QED
    BY <1>1, <2>1, ModPlus, ModModPlus, Zenon
<1>5. \A k \in Nat : x + k = a + (n + k)
  BY <1>2
<1> QED
  BY <1>2, <1>3, <1>4, <1>5 DEF Ahead, Slot, Indices, Input!Descriptors

LEMMA IndexIs ==
  ASSUME Input!SizeAssumption, NEW b \in Indices
  PROVE  /\ b % SIZE = Slot(b, 0) /\ (b + 1) % WRAP = Ahead(b, 1) /\ Ahead(b, 0) = b
         /\ Slot(b, SIZE) = Slot(b, 0)
<1>1. SIZE \in Nat \ {0} /\ WRAP \in Nat \ {0} /\ b \in Nat /\ b \in 0..(WRAP - 1)
  BY Sizes0 DEF Indices
<1>2. b + 0 = b /\ b + SIZE = SIZE * 1 + b
  BY <1>1
<1>3. b % WRAP = b
  BY <1>1, ModShort
<1>4. (SIZE * 1 + b) % SIZE = b % SIZE
  <2>1. 1 \in Int /\ b \in Int
    BY <1>1
  <2> QED
    BY <1>1, <2>1, ModSame, Zenon
<1> QED
  BY <1>2, <1>3, <1>4 DEF Slot, Ahead

LEMMA DistIs ==
  ASSUME Input!SizeAssumption, NEW a \in Indices
  PROVE  /\ \A n \in 0..SIZE : Dist(a, Ahead(a, n)) = n
         /\ \A b \in Indices : Dist(a, b) \in Nat /\ Ahead(a, Dist(a, b)) = b
<1>1. SIZE \in Nat /\ WRAP \in Nat \ {0} /\ a \in Nat /\ SIZE < WRAP
  BY Sizes0
<1>2. ASSUME NEW n \in 0..SIZE PROVE Dist(a, Ahead(a, n)) = n
  <2>1. PICK x \in Int : x = a + n
    BY <1>1, <1>2
  <2>2. PICK y \in Int : y = 0 - a
    BY <1>1
  <2>3. ((x % WRAP) + y) % WRAP = (x + y) % WRAP
    BY <1>1, ModPlus
  <2>4. x + y = n /\ n \in 0..(WRAP - 1)
    BY <1>1, <1>2, <2>1, <2>2
  <2>5. n % WRAP = n
    BY <1>1, <2>4, ModShort
  <2>6. (x % WRAP) \in Int
    BY <1>1
  <2>7. (x % WRAP) - a = (x % WRAP) + y
    BY <1>1, <2>2, <2>6
  <2> QED
    BY <2>1, <2>3, <2>4, <2>5, <2>7 DEF Dist, Ahead
<1>3. ASSUME NEW b \in Indices PROVE Dist(a, b) \in Nat /\ Ahead(a, Dist(a, b)) = b
  <2>1. b \in 0..(WRAP - 1) /\ b \in Int
    BY <1>1 DEF Indices
  <2>2. PICK x \in Int : x = b - a
    BY <1>1, <2>1
  <2>3. (x % WRAP) \in Nat
    BY <1>1
  <2>4. ((x % WRAP) + a) % WRAP = (x + a) % WRAP
    <3>1. a \in Int
      BY <1>1
    <3> QED
      BY <1>1, <3>1, ModPlus, Zenon
  <2>5. x + a = b
    BY <1>1, <2>1, <2>2
  <2>6. b % WRAP = b
    BY <1>1, <2>1, ModShort
  <2>7. (x % WRAP) + a = a + (x % WRAP)
    BY <1>1, <2>3
  <2> QED
    BY <2>2, <2>3, <2>4, <2>5, <2>6, <2>7 DEF Dist, Ahead
<1> QED
  BY <1>2, <1>3

LEMMA SlotsApart ==
  ASSUME Input!SizeAssumption, NEW a \in Nat, NEW m \in Input!Descriptors,
         NEW n \in Input!Descriptors, m # n
  PROVE  Slot(a, m) # Slot(a, n)
<1>1. SIZE \in Nat \ {0} /\ m \in 0..(SIZE - 1) /\ n \in 0..(SIZE - 1)
  BY Sizes0 DEF Input!Descriptors
<1>2. PICK x \in Int, y \in Int : x = a + m /\ y = a + n
  BY <1>1
<1>3. x - y < SIZE /\ y - x < SIZE /\ x # y
  BY <1>1, <1>2
<1>4. x % SIZE # y % SIZE
  BY <1>1, <1>3, ModApart
<1> QED
  BY <1>2, <1>4 DEF Slot

-----------------------------------------------------------------------------
(***************************************************************************)
(* The invariant.  Seen from the driver's place in the used ring, the      *)
(* descriptors that wait come first, then the one the device has taken,    *)
(* then those that are offered, and Spot has each of them once.           *)
(***************************************************************************)
Assumptions == Input!SizeAssumption /\ Input!BoundAssumption

Ready == "DRIVER_OK" \in status
Wait  == Dist(last_used_idx, used.idx)
Held  == IF dev.id = Input!None THEN 0 ELSE 1
Busy  == step \in {"loop", "handle", "recycle", "advance"}

Spot == [n \in Input!Descriptors |->
            IF n < Wait THEN used.ring[Slot(last_used_idx, n)]
            ELSE IF n < Wait + Held THEN dev.id
            ELSE avail.ring[Slot(last_used_idx, n)]]

\* Until the driver is ready nothing has happened.
SetupInv ==
  ~Ready =>
    /\ step \in {"device_init", "queue_setup", "status_queue", "panic"}
    /\ used.idx = 0 /\ last_used_idx = 0 /\ ~isr
    /\ dev = [at |-> Input!Idle, seen |-> 0, id |-> Input!None]
    /\ happened = 0 /\ put = Input!None /\ got = Input!None
    /\ step = "status_queue" =>
         avail.idx = SIZE /\ \A d \in Input!Descriptors : avail.ring[d] = d

RingInv ==
  Ready =>
    /\ step \in {Input!Idle, "notify"} \/ Busy
    /\ Wait + Held <= SIZE
    /\ avail.idx = Ahead(last_used_idx, SIZE)
    /\ dev.seen = Ahead(last_used_idx, Wait + Held)
    /\ \A m, n \in Input!Descriptors : m # n => Spot[m] # Spot[n]
    /\ \A d \in Input!Descriptors : \E n \in Input!Descriptors : Spot[n] = d

\* What the device has done of its event.
DeviceInv ==
  /\ dev.id # Input!None <=> dev.at \in {"fill", "ring", "index"}
  /\ dev.at = "index" => used.ring[used.idx % SIZE] = dev.id
  /\ put < happened
  /\ dev.at \in {"fill", "ring", "index"} => put < happened - 1
  /\ dev.at \in {"ring", "index"} => buffers[dev.id] = happened - 1

\* What the driver has done of its own.
DriverInv ==
  /\ step \in {"handle", "recycle", "advance"} =>
       ~Input!Drained /\ id = used.ring[last_used_idx % SIZE]
  /\ step = "advance" => avail.ring[avail.idx % SIZE] = id

\* NoEventIsStranded, wherever the driver is.
AlarmInv == Input!Drained \/ isr \/ dev.at = "interrupt" \/ failures > 0 \/ Busy

QueueInv == Input!TypeOK /\ SetupInv /\ RingInv /\ DeviceInv /\ DriverInv /\ AlarmInv

-----------------------------------------------------------------------------
LEMMA TypeIs ==
  ASSUME Assumptions, Input!TypeOK
  PROVE  /\ Input!SizeAssumption
         /\ last_used_idx \in Indices /\ used.idx \in Indices /\ avail.idx \in Indices
         /\ dev.seen \in Indices /\ id \in Input!Descriptors
            /\ dev.id \in Input!Descriptors \cup {Input!None}
         /\ avail.ring \in [Input!Descriptors -> Input!Descriptors]
         /\ used.ring \in [Input!Descriptors -> Input!Descriptors]
         /\ last_used_idx \in Nat /\ used.idx \in Nat /\ avail.idx \in Nat /\ dev.seen \in Nat
         /\ Wait \in Nat /\ Held \in {0, 1} /\ used.idx = Ahead(last_used_idx, Wait)
         /\ Input!Drained <=> Wait = 0
<1>1. /\ Input!SizeAssumption
      /\ last_used_idx \in Indices /\ used.idx \in Indices /\ avail.idx \in Indices
      /\ dev.seen \in Indices /\ id \in Input!Descriptors
         /\ dev.id \in Input!Descriptors \cup {Input!None}
      /\ avail.ring \in [Input!Descriptors -> Input!Descriptors]
      /\ used.ring \in [Input!Descriptors -> Input!Descriptors]
  BY DEF Assumptions, Input!TypeOK, Indices
<1>2. Indices \subseteq Nat
  BY <1>1, Sizes0
<1>3. Wait \in Nat /\ used.idx = Ahead(last_used_idx, Wait)
  BY <1>1, DistIs DEF Wait
<1>4. Input!Drained => Wait = 0
  <2> SUFFICES ASSUME Input!Drained PROVE Wait = 0
    OBVIOUS
  <2>1. 0 \in 0..SIZE /\ Ahead(last_used_idx, 0) = last_used_idx
    BY <1>1, Sizes0, IndexIs
  <2>2. Dist(last_used_idx, Ahead(last_used_idx, 0)) = 0
    BY <1>1, <2>1, DistIs
  <2> QED
    BY <2>1, <2>2 DEF Input!Drained, Wait
<1>5. Wait = 0 => Input!Drained
  BY <1>1, <1>3, IndexIs DEF Input!Drained
<1> QED
  BY <1>1, <1>2, <1>3, <1>4, <1>5 DEF Held

LEMMA QueueInit ==
  ASSUME Assumptions, Input!Init
  PROVE  QueueInv
<1>1. SIZE \in Nat \ {0} /\ WRAP \in Nat \ {0} /\ WRAP > SIZE /\ MaxEvents \in Nat
      /\ MaxFailures \in Nat
  BY Sizes0 DEF Assumptions, Input!BoundAssumption
<1>2. 0 \in Input!Descriptors /\ 0 \in 0..(WRAP - 1) /\ Input!None \in Input!Numbers
      /\ 0 \in 0..MaxEvents
      /\ 0 \in 0..MaxFailures
  BY <1>1 DEF Input!Descriptors, Input!Numbers, Input!None
<1>3. Input!TypeOK
  BY <1>2 DEF Input!Init, Input!TypeOK
<1>4. ~Ready
  BY DEF Input!Init, Ready
<1> QED
  BY <1>3, <1>4 DEF Input!Init, QueueInv, SetupInv, RingInv, DeviceInv, DriverInv, AlarmInv,
                    Input!Drained, Input!None, Input!Idle

-----------------------------------------------------------------------------
(***************************************************************************)
(* Set-up.                                                                 *)
(***************************************************************************)
LEMMA SetupKeeps ==
  ASSUME Assumptions, QueueInv, Input!virtio_device_init \/ Input!virtio_queue_setup
  PROVE  QueueInv'
<1>1. ~Ready /\ ~Ready' /\ Input!TypeOK
  BY DEF QueueInv, RingInv, Busy, Input!Idle, Ready, Input!TypeOK, Input!virtio_device_init,
         Input!virtio_queue_setup
<1>2. SIZE \in Nat \ {0} /\ SIZE \in 0..(WRAP - 1) /\ 0 \in 0..(WRAP - 1)
  BY Sizes0 DEF Assumptions
<1>3. Input!TypeOK'
  <2>1. CASE Input!virtio_device_init
    BY <1>1, <2>1 DEF Input!TypeOK, Input!virtio_device_init, Input!device
  <2>2. CASE Input!virtio_queue_setup
    BY <1>1, <1>2, <2>2 DEF Input!TypeOK, Input!virtio_queue_setup, Input!device
  <2> QED
    BY <2>1, <2>2
<1>4. SetupInv'
  <2>1. CASE Input!virtio_device_init
    BY <1>1, <2>1 DEF QueueInv, SetupInv, Input!virtio_device_init, Input!device
  <2>2. CASE Input!virtio_queue_setup
    BY <1>1, <1>2, <2>2 DEF QueueInv, SetupInv, Input!virtio_queue_setup, Input!device
  <2> QED
    BY <2>1, <2>2
<1>5. DeviceInv' /\ DriverInv' /\ AlarmInv' /\ RingInv'
  BY <1>1, <1>4 DEF SetupInv, DeviceInv, DriverInv, AlarmInv, RingInv, Input!Drained,
                    Input!None, Input!Idle
<1> QED
  BY <1>3, <1>4, <1>5 DEF QueueInv

LEMMA OkKeeps ==
  ASSUME Assumptions, QueueInv, Input!driver_ok
  PROVE  QueueInv'
<1>1. /\ step = "status_queue" /\ ~Ready /\ Input!TypeOK
      /\ used.idx = 0 /\ last_used_idx = 0 /\ ~isr
      /\ dev = [at |-> Input!Idle, seen |-> 0, id |-> Input!None]
      /\ happened = 0 /\ put = Input!None /\ got = Input!None
      /\ avail.idx = SIZE /\ \A d \in Input!Descriptors : avail.ring[d] = d
  BY DEF QueueInv, RingInv, SetupInv, Busy, Input!Idle, Input!driver_ok
<1>2. UNCHANGED <<avail, last_used_idx, id, got, failures, used, buffers, dev, happened, put, isr>>
  BY DEF Input!driver_ok, Input!device
<1>3. Input!TypeOK'
  BY <1>1, <1>2 DEF Input!TypeOK, Input!driver_ok
<1>4. DeviceInv' /\ DriverInv' /\ AlarmInv'
  BY <1>1, <1>2 DEF DeviceInv, DriverInv, AlarmInv, Input!Drained, Input!driver_ok, Input!None,
                    Input!Idle
<1>5. SetupInv'
  BY <1>1, <1>2 DEF SetupInv, Input!driver_ok, Ready
<1>6. RingInv'
  <2> SUFFICES ASSUME Ready' PROVE RingInv'
    BY DEF RingInv
  <2>1. step' = Input!Idle
    BY <1>1 DEF Input!driver_ok, Ready
  <2>2. Wait' = 0 /\ Held' = 0
    <3>1. Wait = 0
      BY <1>1, TypeIs DEF Input!Drained
    <3>2. Wait' = Wait /\ Held' = 0
      BY <1>1, <1>2 DEF Wait, Held
    <3> QED
      BY <3>1, <3>2
  <2>3. SIZE \in Nat \ {0} /\ 0 \in Indices /\ SIZE \in 0..(WRAP - 1) /\ WRAP \in Nat \ {0}
        /\ Input!Descriptors \subseteq Nat
    BY Sizes0 DEF Assumptions, Indices
  <2>4. Ahead(0, SIZE) = SIZE /\ Ahead(0, 0) = 0
    <3>1. Ahead(0, SIZE) = SIZE
      <4>1. SIZE % WRAP = SIZE
        BY <2>3, ModShort
      <4> QED
        BY <2>3, <4>1 DEF Ahead
    <3> QED
      BY <2>3, <3>1, IndexIs DEF Assumptions
  <2>5. ASSUME NEW n \in Input!Descriptors PROVE Slot(0, n) = n
    <3>1. n \in 0..(SIZE - 1)
      BY DEF Input!Descriptors
    <3>2. n % SIZE = n /\ 0 + n = n
      BY <2>3, <3>1, ModShort
    <3> QED
      BY <3>2 DEF Slot
  <2>6. \A n \in Input!Descriptors : Spot'[n] = n
    BY <1>1, <1>2, <2>2, <2>3, <2>5 DEF Spot
  <2> HIDE DEF Spot
  <2>7. avail'.idx = SIZE /\ dev'.seen = 0 /\ last_used_idx' = 0
    BY <1>1, <1>2
  <2> QED
    BY <2>1, <2>2, <2>3, <2>4, <2>6, <2>7 DEF RingInv
<1> QED
  BY <1>3, <1>4, <1>5, <1>6 DEF QueueInv

-----------------------------------------------------------------------------
(***************************************************************************)
(* The device.                                                             *)
(***************************************************************************)
\* What RingInv depends on.
Ringed == <<status, avail, used, last_used_idx, dev.id, dev.seen>>

LEMMA RingStays ==
  ASSUME RingInv, UNCHANGED Ringed, step' \in {Input!Idle, "notify"} \/ Busy' \/ ~Ready
  PROVE  RingInv'
BY DEF RingInv, Ringed, Ready, Wait, Held, Spot

\* What RingInv says while the driver is ready.
LEMMA RingIs ==
  ASSUME Assumptions, Input!TypeOK, RingInv, Ready
  PROVE  /\ Wait \in 0..SIZE /\ Wait + Held <= SIZE
         /\ dev.seen = avail.idx <=> Wait + Held = SIZE
         /\ used.idx % SIZE = Slot(last_used_idx, Wait)
         /\ dev.seen % SIZE = Slot(last_used_idx, Wait + Held)
         /\ avail.idx % SIZE = Slot(last_used_idx, 0)
         /\ last_used_idx % SIZE = Slot(last_used_idx, 0)
<1>1. PICK a \in Indices, u \in Nat, h \in {0, 1} : a = last_used_idx /\ u = Wait /\ h = Held
  BY TypeIs
<1>2. /\ Input!SizeAssumption /\ u + h <= SIZE /\ a \in Nat
      /\ used.idx = Ahead(a, u) /\ dev.seen = Ahead(a, u + h) /\ avail.idx = Ahead(a, SIZE)
      /\ used.idx \in Indices /\ dev.seen \in Indices /\ avail.idx \in Indices
  BY <1>1, TypeIs DEF RingInv
<1>3. u \in 0..SIZE /\ u + h \in 0..SIZE /\ SIZE \in 0..SIZE /\ SIZE \in Nat
  BY <1>1, <1>2, Sizes0
<1>4. dev.seen = avail.idx <=> u + h = SIZE
  <2>1. Dist(a, Ahead(a, u + h)) = u + h /\ Dist(a, Ahead(a, SIZE)) = SIZE
    BY <1>2, <1>3, DistIs
  <2> QED
    BY <1>2, <2>1
<1>5. ASSUME NEW n \in Nat, Ahead(a, n) \in Indices PROVE Ahead(a, n) % SIZE = Slot(a, n)
  <2>1. Ahead(a, n) % SIZE = Slot(Ahead(a, n), 0)
    BY <1>2, <1>5, IndexIs
  <2>2. Slot(Ahead(a, n), 0) = Slot(a, n + 0) /\ n + 0 = n
    BY <1>2, AheadIs
  <2> QED
    BY <2>1, <2>2
<1>6. u + h \in Nat
  BY <1>3
<1>7. Slot(a, SIZE) = Slot(a, 0) /\ a % SIZE = Slot(a, 0)
  BY <1>2, IndexIs
<1> QED
  BY <1>1, <1>2, <1>3, <1>4, <1>5, <1>6, <1>7

LEMMA EventKeeps ==
  ASSUME Assumptions, QueueInv, Input!Event
  PROVE  QueueInv'
<1>1. /\ Input!TypeOK /\ Ready /\ RingInv /\ dev.at = Input!Idle /\ dev.id = Input!None
         /\ Held = 0
      /\ dev \in [at : {Input!Idle, "fill", "ring", "index", "interrupt"}, seen : 0..(WRAP - 1),
                  id : Input!Descriptors \cup {Input!None}]
  BY DEF QueueInv, Input!Event, Ready, DeviceInv, Input!TypeOK, Input!Idle, Held
<1>2. /\ happened' = happened + 1 /\ happened \in 0..MaxEvents /\ happened < MaxEvents
      /\ MaxEvents \in Nat /\ happened' \in 0..MaxEvents
  <2>1. happened' = happened + 1 /\ happened \in 0..MaxEvents /\ happened < MaxEvents
        /\ MaxEvents \in Nat
    BY <1>1 DEF Input!Event, Input!TypeOK, Assumptions, Input!BoundAssumption
  <2> QED
    BY <2>1
<1>3. UNCHANGED <<used, buffers, put, status, avail, step, last_used_idx, id, got, failures, isr>>
  BY DEF Input!Event, Input!driver
<1>4. SetupInv'
  BY <1>1, <1>3 DEF SetupInv, Ready
<1>5. DriverInv'
  BY <1>3 DEF QueueInv, DriverInv, Input!Drained
<1>6. put < happened /\ put < happened' /\ put < happened' - 1 /\ put \in Int
  <2>1. put < happened /\ put \in Int
    BY <1>1 DEF QueueInv, DeviceInv, Input!TypeOK, Input!Numbers, Input!None
  <2> QED
    BY <1>2, <2>1
<1>7. CASE dev.seen = avail.idx
  <2>1. dev' = dev
    BY <1>7 DEF Input!Event
  <2>2. Input!TypeOK'
    BY <1>1, <1>2, <1>3, <2>1 DEF Input!TypeOK
  <2>3. DeviceInv' /\ AlarmInv'
    BY <1>1, <1>3, <1>6, <2>1 DEF QueueInv, DeviceInv, AlarmInv, Input!Drained, Input!Idle, Busy
  <2>4. RingInv'
    BY <1>1, <1>3, <2>1 DEF RingInv, Ready, Wait, Held, Spot, Busy
  <2> QED
    BY <1>4, <1>5, <2>2, <2>3, <2>4 DEF QueueInv
<1>8. CASE dev.seen # avail.idx
  <2>1. PICK a \in Indices, u \in Nat, d \in Input!Descriptors :
          /\ a = last_used_idx /\ u = Wait /\ u < SIZE /\ u \in Input!Descriptors
          /\ dev.seen = Ahead(a, u) /\ d = avail.ring[Slot(a, u)]
          /\ dev' = [at |-> "fill", seen |-> Ahead(a, u + 1), id |-> d]
    <3>1. PICK a \in Indices, u \in Nat : a = last_used_idx /\ u = Wait /\ a \in Nat
      BY <1>1, TypeIs
    <3>2. u + 0 = u /\ SIZE \in Nat
      BY Sizes0 DEF Assumptions
    <3>3. u < SIZE /\ dev.seen % SIZE = Slot(a, u) /\ dev.seen = Ahead(a, u)
      <4>1. u + 0 <= SIZE /\ u + 0 # SIZE /\ dev.seen % SIZE = Slot(a, u + 0)
            /\ dev.seen = Ahead(a, u + 0)
        BY <1>1, <1>8, <3>1, RingIs DEF RingInv
      <4> QED
        BY <3>2, <4>1
    <3>4. u \in Input!Descriptors /\ Slot(a, u) \in Input!Descriptors
      BY <3>1, <3>2, <3>3, AheadIs DEF Input!Descriptors, Assumptions
    <3>5. avail.ring[Slot(a, u)] \in Input!Descriptors
      BY <1>1, <3>4, TypeIs
    <3>6. (dev.seen + 1) % WRAP = Ahead(Ahead(a, u), 1)
      BY <1>1, <3>3, TypeIs, IndexIs
    <3>7. Ahead(Ahead(a, u), 1) = Ahead(a, u + 1)
      BY <3>1, AheadIs DEF Assumptions
    <3>8. dev' = [at |-> "fill", seen |-> Ahead(a, u + 1), id |-> avail.ring[Slot(a, u)]]
      BY <1>8, <3>3, <3>6, <3>7 DEF Input!Event
    <3> QED
      BY <3>1, <3>3, <3>4, <3>5, <3>8
  <2>2. d # Input!None /\ a \in Nat /\ Ahead(a, u + 1) \in Indices /\ SIZE \in Nat
        /\ Input!Descriptors \subseteq Nat /\ u + 1 <= SIZE
    <3>1. a \in Nat /\ SIZE \in Nat /\ Input!Descriptors \subseteq Nat
          /\ Input!None \notin Input!Descriptors
      BY <2>1, Sizes0 DEF Assumptions
    <3>2. u \in Nat /\ u + 1 \in Nat /\ u + 1 <= SIZE
      BY <2>1, <3>1
    <3>3. Ahead(a, u + 1) \in Indices
      BY <3>1, <3>2, AheadIs DEF Assumptions
    <3> QED
      BY <2>1, <3>1, <3>2, <3>3
  <2>3. dev'.at = "fill" /\ dev'.seen = Ahead(a, u + 1) /\ dev'.id = d /\ Held' = 1 /\ Wait' = u
        /\ last_used_idx' = a
    BY <1>3, <2>1, <2>2 DEF Held, Wait
  <2>4. Input!TypeOK'
    <3>1. dev' \in [at : {Input!Idle, "fill", "ring", "index", "interrupt"}, seen : 0..(WRAP - 1),
                    id : Input!Descriptors \cup {Input!None}]
      BY <2>1, <2>2 DEF Indices
    <3> QED
      BY <1>1, <1>2, <1>3, <3>1 DEF Input!TypeOK
  <2>5. DeviceInv' /\ AlarmInv'
    BY <1>1, <1>3, <1>6, <2>2, <2>3 DEF QueueInv, DeviceInv, AlarmInv, Input!Drained,
                                        Input!Idle, Busy
  <2>6. ASSUME NEW n \in Input!Descriptors PROVE Spot'[n] = Spot[n]
    <3>1. Spot[n] = IF n < u THEN used.ring[Slot(a, n)] ELSE avail.ring[Slot(a, n)]
      BY <1>1, <2>1, <2>2 DEF Spot
    <3>2. Spot'[n] = IF n < u THEN used.ring[Slot(a, n)]
                      ELSE IF n < u + 1 THEN d ELSE avail.ring[Slot(a, n)]
      BY <1>3, <2>3 DEF Spot
    <3>3. n \in Nat /\ (n < u + 1 /\ ~(n < u) => n = u)
      BY <2>2
    <3> QED
      BY <2>1, <3>1, <3>2, <3>3
  <2>7. RingInv'
    <3>1. Ready' /\ (step' \in {Input!Idle, "notify"} \/ Busy')
      BY <1>1, <1>3 DEF RingInv, Ready, Busy
    <3>2. Wait' + Held' = u + 1 /\ avail'.idx = Ahead(last_used_idx', SIZE)
      BY <1>1, <1>3, <2>3 DEF RingInv
    <3>3. /\ \A m, n \in Input!Descriptors : m # n => Spot'[m] # Spot'[n]
          /\ \A c \in Input!Descriptors : \E n \in Input!Descriptors : Spot'[n] = c
      BY <1>1, <2>6 DEF RingInv
    <3> QED
      BY <2>2, <2>3, <3>1, <3>2, <3>3 DEF RingInv
  <2> QED
    BY <1>4, <1>5, <2>4, <2>5, <2>7 DEF QueueInv
<1> QED
  BY <1>7, <1>8

DevType == [at : {Input!Idle, "fill", "ring", "index", "interrupt"}, seen : 0..(WRAP - 1),
            id : Input!Descriptors \cup {Input!None}]

\* What the steps after the first one leave alone; none of them moves a descriptor to
\* another place.
LEMMA FinishIs ==
  ASSUME Assumptions, QueueInv, Input!Finish
  PROVE  /\ Input!TypeOK /\ Ready /\ RingInv /\ dev \in DevType
         /\ UNCHANGED <<status, avail, step, last_used_idx, id, got, failures, happened>>
         /\ SetupInv' /\ happened - 1 \in Input!Numbers
<1>1. /\ Input!TypeOK /\ RingInv /\ dev \in DevType /\ dev.at # Input!Idle
      /\ UNCHANGED <<status, avail, step, last_used_idx, id, got, failures, happened>>
  BY DEF QueueInv, Input!Finish, Input!Fill, Input!UseRing, Input!UseIndex,
         Input!RaiseInterrupt, Input!driver, Input!TypeOK, DevType, Input!Idle
<1>2. Ready
  BY <1>1 DEF QueueInv, SetupInv
<1>3. happened - 1 \in Input!Numbers
  BY <1>1 DEF Input!TypeOK, Input!Numbers, Input!None, Assumptions, Input!BoundAssumption
<1> QED
  BY <1>1, <1>2, <1>3 DEF SetupInv, Ready

LEMMA FillKeeps ==
  ASSUME Assumptions, QueueInv, Input!Fill
  PROVE  QueueInv'
<1>1. /\ Input!TypeOK /\ Ready /\ RingInv /\ dev \in DevType /\ SetupInv'
      /\ UNCHANGED <<status, avail, step, last_used_idx, id, got, failures, happened>>
      /\ happened - 1 \in Input!Numbers
  BY FinishIs DEF Input!Finish
<1>2. /\ dev.at = "fill" /\ dev' \in DevType /\ dev'.at = "ring" /\ dev'.id = dev.id
      /\ dev'.seen = dev.seen /\ UNCHANGED <<used, put, isr>>
      /\ buffers' = [buffers EXCEPT ![dev.id] = happened - 1]
  BY <1>1 DEF Input!Fill, DevType
<1>3. dev.id \in Input!Descriptors
  BY <1>1, <1>2 DEF QueueInv, DeviceInv, DevType
<1>4. buffers' \in [Input!Descriptors -> Input!Numbers] /\ buffers'[dev.id] = happened - 1
  BY <1>1, <1>2, <1>3 DEF Input!TypeOK
<1>5. Input!TypeOK'
  BY <1>1, <1>2, <1>4 DEF Input!TypeOK, DevType
<1>6. RingInv'
  BY <1>1, <1>2, RingStays DEF Ringed, RingInv, Busy
<1>7. DeviceInv' /\ DriverInv' /\ AlarmInv'
  BY <1>1, <1>2, <1>3, <1>4 DEF QueueInv, DeviceInv, DriverInv, AlarmInv, Input!Drained, Busy
<1> QED
  BY <1>1, <1>5, <1>6, <1>7 DEF QueueInv

LEMMA UseRingKeeps ==
  ASSUME Assumptions, QueueInv, Input!UseRing
  PROVE  QueueInv'
<1>1. /\ Input!TypeOK /\ Ready /\ RingInv /\ dev \in DevType /\ SetupInv'
      /\ UNCHANGED <<status, avail, step, last_used_idx, id, got, failures, happened>>
  BY FinishIs DEF Input!Finish
<1>2. /\ dev.at = "ring" /\ dev' \in DevType /\ dev'.at = "index" /\ dev'.id = dev.id
      /\ dev'.seen = dev.seen /\ UNCHANGED <<buffers, put, isr>>
      /\ used' = [used EXCEPT !.ring[used.idx % SIZE] = dev.id]
  BY <1>1 DEF Input!UseRing, DevType
<1>3. dev.id \in Input!Descriptors /\ dev.id # Input!None /\ Held = 1
  BY <1>1, <1>2, Sizes0 DEF QueueInv, DeviceInv, DevType, Held, Assumptions
<1>4. PICK a \in Indices, u \in Nat :
        /\ a = last_used_idx /\ u = Wait /\ u + 1 <= SIZE /\ used.idx % SIZE = Slot(a, u)
        /\ a \in Nat /\ u \in Input!Descriptors /\ Slot(a, u) \in Input!Descriptors
  <2>1. PICK a \in Indices, u \in Nat : a = last_used_idx /\ u = Wait /\ a \in Nat
    BY <1>1, TypeIs
  <2>2. u + 1 <= SIZE /\ used.idx % SIZE = Slot(a, u)
    BY <1>1, <1>3, <2>1, RingIs
  <2>3. u \in Input!Descriptors /\ Slot(a, u) \in Input!Descriptors
    BY <2>1, <2>2, Sizes0, AheadIs DEF Input!Descriptors, Assumptions
  <2> QED
    BY <2>1, <2>2, <2>3
<1>5. /\ used'.idx = used.idx
      /\ used'.ring = [used.ring EXCEPT ![Slot(a, u)] = dev.id]
      /\ used' \in [idx : 0..(WRAP - 1), ring : [Input!Descriptors -> Input!Descriptors]]
      /\ used.ring \in [Input!Descriptors -> Input!Descriptors]
  <2>1. used \in [idx : 0..(WRAP - 1), ring : [Input!Descriptors -> Input!Descriptors]]
    BY <1>1 DEF Input!TypeOK
  <2> QED
    BY <1>2, <1>3, <1>4, <2>1
<1>6. Input!TypeOK'
  BY <1>1, <1>2, <1>5 DEF Input!TypeOK, DevType
<1>7. DeviceInv' /\ AlarmInv'
  BY <1>1, <1>2, <1>3, <1>4, <1>5 DEF QueueInv, DeviceInv, AlarmInv, Input!Drained, Busy
<1>8. Wait' = u /\ Held' = 1 /\ last_used_idx' = a
  BY <1>1, <1>2, <1>3, <1>4, <1>5 DEF Wait, Held
<1>9. ASSUME NEW n \in Input!Descriptors, n < u
      PROVE  Slot(a, n) # Slot(a, u) /\ used'.ring[Slot(a, n)] = used.ring[Slot(a, n)]
  <2>1. n \in Nat /\ n # u
    BY <1>4, <1>9, Sizes0 DEF Assumptions
  <2>2. Slot(a, n) # Slot(a, u) /\ Slot(a, n) \in Input!Descriptors
    BY <1>4, <2>1, SlotsApart, AheadIs DEF Assumptions
  <2> QED
    BY <1>5, <2>2
<1>10. ASSUME NEW n \in Input!Descriptors PROVE Spot'[n] = Spot[n]
  BY <1>1, <1>2, <1>3, <1>4, <1>8, <1>9 DEF Spot
<1>11. RingInv'
  <2>1. Ready' /\ (step' \in {Input!Idle, "notify"} \/ Busy')
    BY <1>1 DEF RingInv, Ready, Busy
  <2>2. Wait' + Held' = Wait + Held /\ Wait + Held <= SIZE
    BY <1>1, <1>3, <1>4, <1>8 DEF RingInv
  <2>3. /\ \A m, n \in Input!Descriptors : m # n => Spot'[m] # Spot'[n]
        /\ \A c \in Input!Descriptors : \E n \in Input!Descriptors : Spot'[n] = c
    BY <1>1, <1>10 DEF RingInv
  <2>4. avail'.idx = Ahead(last_used_idx', SIZE) /\ dev'.seen = Ahead(last_used_idx', Wait + Held)
    BY <1>1, <1>2 DEF RingInv
  <2> QED
    BY <2>1, <2>2, <2>3, <2>4 DEF RingInv
<1>12. DriverInv'
  <2>1. ASSUME ~Input!Drained PROVE used'.ring[last_used_idx % SIZE] = used.ring[last_used_idx % SIZE]
    <3>1. u > 0 /\ 0 \in Input!Descriptors
      BY <1>1, <1>4, <2>1, TypeIs, Sizes0 DEF Assumptions, Input!Descriptors
    <3>2. last_used_idx % SIZE = Slot(a, 0)
      BY <1>1, <1>4, RingIs
    <3> QED
      BY <1>9, <3>1, <3>2
  <2>2. avail'.ring[avail'.idx % SIZE] = avail.ring[avail.idx % SIZE]
    BY <1>1
  <2> QED
    BY <1>1, <1>5, <2>1, <2>2 DEF QueueInv, DriverInv, Input!Drained
<1> QED
  BY <1>1, <1>6, <1>7, <1>11, <1>12 DEF QueueInv

LEMMA UseIndexKeeps ==
  ASSUME Assumptions, QueueInv, Input!UseIndex
  PROVE  QueueInv' /\ Wait' = Wait + 1
<1>1. /\ Input!TypeOK /\ Ready /\ RingInv /\ dev \in DevType /\ SetupInv'
      /\ UNCHANGED <<status, avail, step, last_used_idx, id, got, failures, happened>>
      /\ happened - 1 \in Input!Numbers
  BY FinishIs DEF Input!Finish
<1>2. /\ dev.at = "index" /\ dev' \in DevType /\ dev'.at = "interrupt" /\ dev'.id = Input!None
      /\ dev'.seen = dev.seen /\ UNCHANGED <<buffers, isr>> /\ put' = happened - 1
      /\ used' = [used EXCEPT !.idx = (@ + 1) % WRAP]
  BY <1>1 DEF Input!UseIndex, DevType
<1>3. dev.id \in Input!Descriptors /\ dev.id # Input!None /\ Held = 1 /\ Held' = 0
      /\ used.ring[used.idx % SIZE] = dev.id
  BY <1>1, <1>2, Sizes0 DEF QueueInv, DeviceInv, DevType, Held, Assumptions
<1>4. PICK a \in Indices, u \in Nat :
        /\ a = last_used_idx /\ u = Wait /\ u + 1 <= SIZE /\ used.idx % SIZE = Slot(a, u)
        /\ a \in Nat /\ used.idx = Ahead(a, u) /\ u + 1 \in 0..SIZE
  <2>1. PICK a \in Indices, u \in Nat :
          a = last_used_idx /\ u = Wait /\ a \in Nat /\ used.idx = Ahead(a, u)
    BY <1>1, TypeIs
  <2>2. u + 1 <= SIZE /\ used.idx % SIZE = Slot(a, u)
    BY <1>1, <1>3, <2>1, RingIs
  <2>3. u + 1 \in 0..SIZE
    BY <2>1, <2>2, Sizes0 DEF Assumptions
  <2> QED
    BY <2>1, <2>2, <2>3
<1>5. /\ used'.idx = Ahead(a, u + 1) /\ used'.ring = used.ring
      /\ used' \in [idx : 0..(WRAP - 1), ring : [Input!Descriptors -> Input!Descriptors]]
      /\ used'.idx # used.idx
  <2>1. used \in [idx : 0..(WRAP - 1), ring : [Input!Descriptors -> Input!Descriptors]]
    BY <1>1 DEF Input!TypeOK
  <2>2. (used.idx + 1) % WRAP = Ahead(Ahead(a, u), 1)
    BY <1>1, <1>4, TypeIs, IndexIs
  <2>3. Ahead(Ahead(a, u), 1) = Ahead(a, u + 1) /\ Ahead(a, u + 1) \in 0..(WRAP - 1)
    BY <1>4, AheadIs DEF Assumptions, Indices
  <2>4. Dist(a, Ahead(a, u + 1)) = u + 1 /\ Dist(a, used.idx) = u
    BY <1>4, DistIs DEF Assumptions, Wait
  <2>5. used'.idx = (used.idx + 1) % WRAP /\ used'.ring = used.ring
    BY <1>2, <2>1
  <2>6. used' \in [idx : 0..(WRAP - 1), ring : [Input!Descriptors -> Input!Descriptors]]
    BY <1>2, <2>1, <2>2, <2>3
  <2>7. used'.idx = Ahead(a, u + 1)
    BY <2>2, <2>3, <2>5
  <2>8. used'.idx # used.idx
    BY <1>4, <2>4, <2>7
  <2> QED
    BY <2>5, <2>6, <2>7, <2>8
<1>6. Wait' = u + 1 /\ last_used_idx' = a
  BY <1>1, <1>4, <1>5, DistIs DEF Assumptions, Wait
<1>7. Input!TypeOK'
  BY <1>1, <1>2, <1>5 DEF Input!TypeOK, DevType
<1>8. DeviceInv' /\ AlarmInv'
  <2>1. happened \in Nat /\ happened - 1 < happened
    BY <1>1 DEF Input!TypeOK
  <2> QED
    BY <1>1, <1>2, <2>1 DEF DeviceInv, AlarmInv
<1>9. ASSUME NEW n \in Input!Descriptors PROVE Spot'[n] = Spot[n]
  <2>1. n \in Nat /\ (n < u + 1 <=> n < u \/ n = u)
    BY Sizes0 DEF Assumptions
  <2>2. Spot[n] = IF n < u THEN used.ring[Slot(a, n)]
                   ELSE IF n < u + 1 THEN dev.id ELSE avail.ring[Slot(a, n)]
    BY <1>3, <1>4 DEF Spot
  <2>3. Spot'[n] = IF n < u + 1 THEN used.ring[Slot(a, n)]
                    ELSE IF n < u + 1 + 0 THEN dev'.id ELSE avail.ring[Slot(a, n)]
    BY <1>1, <1>3, <1>5, <1>6 DEF Spot
  <2> QED
    BY <1>3, <1>4, <2>1, <2>2, <2>3
<1>10. RingInv'
  <2>1. Ready' /\ (step' \in {Input!Idle, "notify"} \/ Busy')
    BY <1>1 DEF RingInv, Ready, Busy
  <2>2. Wait' + Held' = Wait + Held /\ Wait + Held <= SIZE
    BY <1>1, <1>3, <1>4, <1>6 DEF RingInv
  <2>3. /\ \A m, n \in Input!Descriptors : m # n => Spot'[m] # Spot'[n]
        /\ \A c \in Input!Descriptors : \E n \in Input!Descriptors : Spot'[n] = c
    BY <1>1, <1>9 DEF RingInv
  <2>4. avail'.idx = Ahead(last_used_idx', SIZE) /\ dev'.seen = Ahead(last_used_idx', Wait + Held)
    BY <1>1, <1>2 DEF RingInv
  <2> QED
    BY <2>1, <2>2, <2>3, <2>4 DEF RingInv
<1>11. DriverInv'
  <2>1. ~Input!Drained'
    <3>1. Ahead(a, 0) = a /\ Dist(a, Ahead(a, 0)) = 0
      BY <1>4, IndexIs, DistIs, Sizes0 DEF Assumptions
    <3>2. Dist(a, used'.idx) = u + 1
      BY <1>4, <1>5, DistIs DEF Assumptions
    <3>3. a # used'.idx
      BY <1>4, <3>1, <3>2
    <3> QED
      BY <1>6, <3>3 DEF Input!Drained
  <2> QED
    BY <1>1, <1>5, <2>1 DEF QueueInv, DriverInv
<1> QED
  BY <1>1, <1>4, <1>6, <1>7, <1>8, <1>10, <1>11 DEF QueueInv

LEMMA RaiseKeeps ==
  ASSUME Assumptions, QueueInv, Input!RaiseInterrupt
  PROVE  QueueInv'
<1>1. /\ Input!TypeOK /\ Ready /\ RingInv /\ dev \in DevType /\ SetupInv'
      /\ UNCHANGED <<status, avail, step, last_used_idx, id, got, failures, happened>>
  BY FinishIs DEF Input!Finish
<1>2. /\ dev.at = "interrupt" /\ dev' \in DevType /\ dev'.at = Input!Idle /\ dev'.id = dev.id
      /\ dev'.seen = dev.seen /\ UNCHANGED <<used, buffers, put>> /\ isr' = TRUE
  BY <1>1 DEF Input!RaiseInterrupt, DevType
<1>3. Input!TypeOK'
  BY <1>1, <1>2 DEF Input!TypeOK, DevType
<1>4. RingInv'
  BY <1>1, <1>2, RingStays DEF Ringed, RingInv, Busy
<1>5. DeviceInv' /\ DriverInv' /\ AlarmInv'
  BY <1>1, <1>2 DEF QueueInv, DeviceInv, DriverInv, AlarmInv, Input!Drained, Busy, Input!Idle
<1> QED
  BY <1>1, <1>3, <1>4, <1>5 DEF QueueInv

-----------------------------------------------------------------------------
(***************************************************************************)
(* The driver.                                                             *)
(***************************************************************************)
\* What all its steps leave alone.
LEMMA DriverIs ==
  ASSUME Assumptions, QueueInv, Input!Handler \/ Input!KeypressFails
  PROVE  /\ Input!TypeOK /\ Ready /\ RingInv
         /\ UNCHANGED <<status, used, buffers, dev, happened, put>> /\ SetupInv' /\ DeviceInv'
<1>1. /\ Input!TypeOK /\ RingInv
         /\ step \in {Input!Idle, "loop", "handle", "recycle", "advance", "notify"}
      /\ UNCHANGED <<status, used, buffers, dev, happened, put>>
  BY DEF QueueInv, Input!Handler, Input!KeypressFails, Input!handle_irq, Input!NextUsed,
         Input!HandleEvent, Input!Recycle, Input!Advance,
         Input!Leave, Input!Notify, Input!device
<1>2. Ready
  BY <1>1 DEF QueueInv, SetupInv, Input!Idle
<1> QED
  BY <1>1, <1>2 DEF QueueInv, SetupInv, Ready, DeviceInv

\* The steps that leave the rings alone.
LEMMA LooksKeep ==
  ASSUME Assumptions, QueueInv,
         Input!handle_irq \/ Input!NextUsed \/ Input!HandleEvent \/ Input!KeypressFails
         \/ Input!Leave \/ Input!Notify
  PROVE  QueueInv'
<1>1. /\ Input!TypeOK /\ Ready /\ RingInv
      /\ UNCHANGED <<status, used, buffers, dev, happened, put>> /\ SetupInv' /\ DeviceInv'
  BY DriverIs DEF Input!Handler
<1>2. UNCHANGED <<avail, last_used_idx>> /\ (step' \in {Input!Idle, "notify"} \/ Busy')
  BY DEF Input!handle_irq, Input!NextUsed, Input!HandleEvent, Input!KeypressFails, Input!Leave,
         Input!Notify, Busy
<1>3. RingInv'
  BY <1>1, <1>2, RingStays DEF Ringed
<1>4. PICK a \in Indices : a = last_used_idx /\ a % SIZE \in Input!Descriptors
  <2>1. last_used_idx % SIZE = Slot(last_used_idx, 0)
    BY <1>1, RingIs
  <2> QED
    BY <1>1, <2>1, TypeIs, AheadIs
<1>5. Input!TypeOK'
  <2>1. id' \in Input!Descriptors
    BY <1>1, <1>4, TypeIs DEF Input!handle_irq, Input!NextUsed, Input!HandleEvent,
                              Input!KeypressFails, Input!Leave, Input!Notify
  <2>2. got' \in Input!Numbers
    BY <1>1 DEF Input!TypeOK, Input!handle_irq, Input!NextUsed, Input!HandleEvent,
                Input!KeypressFails, Input!Leave, Input!Notify
  <2>3. failures' \in 0..MaxFailures
    <3>1. failures \in 0..MaxFailures /\ MaxFailures \in Nat
      BY <1>1 DEF Input!TypeOK, Assumptions, Input!BoundAssumption
    <3>2. CASE Input!KeypressFails
      BY <3>1, <3>2 DEF Input!KeypressFails
    <3>3. CASE ~Input!KeypressFails
      BY <3>1, <3>3 DEF Input!handle_irq, Input!NextUsed, Input!HandleEvent, Input!Leave,
                        Input!Notify
    <3> QED
      BY <3>2, <3>3
  <2>5. isr' \in BOOLEAN
    BY <1>1 DEF Input!TypeOK, Input!handle_irq, Input!NextUsed, Input!HandleEvent,
                Input!KeypressFails, Input!Leave, Input!Notify
  <2>4. step' \in {Input!Idle, "loop", "handle", "recycle", "notify"}
    BY DEF Input!handle_irq, Input!NextUsed, Input!HandleEvent, Input!KeypressFails,
           Input!Leave, Input!Notify
  <2> QED
    BY <1>1, <1>2, <2>1, <2>2, <2>3, <2>4, <2>5 DEF Input!TypeOK
<1>6. DriverInv'
  <2>1. CASE Input!NextUsed
    BY <1>1, <1>2, <2>1 DEF Input!NextUsed, DriverInv, Input!Drained
  <2>2. CASE Input!HandleEvent
    BY <1>1, <1>2, <2>2 DEF QueueInv, Input!HandleEvent, DriverInv, Input!Drained
  <2>3. CASE Input!handle_irq \/ Input!KeypressFails \/ Input!Leave \/ Input!Notify
    BY <2>3 DEF Input!handle_irq, Input!KeypressFails, Input!Leave, Input!Notify, DriverInv,
                Input!Idle
  <2> QED
    BY <2>1, <2>2, <2>3
<1>7. AlarmInv'
  <2>1. CASE Input!handle_irq \/ Input!NextUsed \/ Input!HandleEvent
    BY <2>1 DEF Input!handle_irq, Input!NextUsed, Input!HandleEvent, AlarmInv, Busy
  <2>2. CASE Input!KeypressFails
    BY <1>1, <2>2 DEF Input!KeypressFails, AlarmInv, Input!TypeOK, Assumptions,
                      Input!BoundAssumption
  <2>3. CASE Input!Leave
    BY <1>1, <1>2, <2>3 DEF Input!Leave, AlarmInv, Input!Drained
  <2>4. CASE Input!Notify
    BY <1>1, <1>2, <2>4 DEF QueueInv, Input!Notify, AlarmInv, Input!Drained, Busy
  <2> QED
    BY <2>1, <2>2, <2>3, <2>4
<1> QED
  BY <1>1, <1>3, <1>5, <1>6, <1>7 DEF QueueInv

LEMMA RecycleKeeps ==
  ASSUME Assumptions, QueueInv, Input!Recycle
  PROVE  QueueInv'
<1>1. /\ Input!TypeOK /\ Ready /\ RingInv
      /\ UNCHANGED <<status, used, buffers, dev, happened, put>> /\ SetupInv' /\ DeviceInv'
  BY DriverIs DEF Input!Handler
<1>2. /\ step = "recycle" /\ step' = "advance"
      /\ avail' = [avail EXCEPT !.ring[avail.idx % SIZE] = id]
      /\ UNCHANGED <<last_used_idx, id, got, failures, isr>>
  BY DEF Input!Recycle
<1>3. ~Input!Drained /\ id = used.ring[last_used_idx % SIZE]
  BY <1>2 DEF QueueInv, DriverInv
<1>4. PICK a \in Indices, u \in Nat :
        /\ a = last_used_idx /\ u = Wait /\ u > 0 /\ a \in Nat /\ Slot(a, 0) \in Input!Descriptors
        /\ avail.idx % SIZE = Slot(a, 0)
  <2>1. PICK a \in Indices, u \in Nat : a = last_used_idx /\ u = Wait /\ u # 0 /\ a \in Nat
    BY <1>1, <1>3, TypeIs
  <2>2. avail.idx % SIZE = Slot(a, 0)
    BY <1>1, <2>1, RingIs
  <2> QED
    BY <2>1, <2>2, AheadIs DEF Assumptions
<1>5. /\ avail'.idx = avail.idx /\ avail'.ring = [avail.ring EXCEPT ![Slot(a, 0)] = id]
      /\ avail' \in [idx : 0..(WRAP - 1), ring : [Input!Descriptors -> Input!Descriptors]]
      /\ avail.ring \in [Input!Descriptors -> Input!Descriptors]
  <2>1. avail \in [idx : 0..(WRAP - 1), ring : [Input!Descriptors -> Input!Descriptors]]
        /\ id \in Input!Descriptors
    BY <1>1 DEF Input!TypeOK
  <2> QED
    BY <1>2, <1>4, <2>1
<1>6. Input!TypeOK'
  BY <1>1, <1>2, <1>5 DEF Input!TypeOK
<1>7. Wait' = u /\ Held' = Held /\ last_used_idx' = a /\ Held \in {0, 1}
  BY <1>1, <1>2, <1>4 DEF Wait, Held
<1>8. ASSUME NEW n \in Input!Descriptors PROVE Spot'[n] = Spot[n]
  <2>1. n \in Nat /\ 0 \in Input!Descriptors
    BY Sizes0 DEF Assumptions, Input!Descriptors
  <2>2. Spot[n] = IF n < u THEN used.ring[Slot(a, n)]
                   ELSE IF n < u + Held THEN dev.id ELSE avail.ring[Slot(a, n)]
    BY <1>4 DEF Spot
  <2>3. Spot'[n] = IF n < u THEN used.ring[Slot(a, n)]
                    ELSE IF n < u + Held THEN dev.id ELSE avail'.ring[Slot(a, n)]
    BY <1>1, <1>7 DEF Spot
  <2>4. ASSUME ~(n < u) PROVE avail'.ring[Slot(a, n)] = avail.ring[Slot(a, n)]
    <3>1. n # 0
      BY <1>4, <2>1, <2>4
    <3>2. Slot(a, n) # Slot(a, 0) /\ Slot(a, n) \in Input!Descriptors
      BY <1>4, <2>1, <3>1, SlotsApart, AheadIs DEF Assumptions
    <3> QED
      BY <1>5, <3>2
  <2> QED
    BY <2>2, <2>3, <2>4
<1>9. RingInv'
  <2>1. Ready' /\ Busy'
    BY <1>1, <1>2 DEF Ready, Busy
  <2>2. Wait' + Held' = Wait + Held /\ Wait + Held <= SIZE
    BY <1>1, <1>4, <1>7 DEF RingInv
  <2>3. /\ \A m, n \in Input!Descriptors : m # n => Spot'[m] # Spot'[n]
        /\ \A c \in Input!Descriptors : \E n \in Input!Descriptors : Spot'[n] = c
    BY <1>1, <1>8 DEF RingInv
  <2>4. avail'.idx = Ahead(last_used_idx', SIZE) /\ dev'.seen = Ahead(last_used_idx', Wait + Held)
    BY <1>1, <1>2, <1>5 DEF RingInv
  <2> QED
    BY <2>1, <2>2, <2>3, <2>4 DEF RingInv
<1>10. DriverInv'
  BY <1>1, <1>2, <1>3, <1>4, <1>5 DEF DriverInv, Input!Drained
<1>11. AlarmInv'
  BY <1>2 DEF AlarmInv, Busy
<1> QED
  BY <1>1, <1>6, <1>9, <1>10, <1>11 DEF QueueInv

LEMMA AdvanceKeeps ==
  ASSUME Assumptions, QueueInv, Input!Advance
  PROVE  /\ QueueInv' /\ Wait > 0 /\ Wait' = Wait - 1
         /\ \A n \in 0..(Wait - 2) : Slot(last_used_idx', n) = Slot(last_used_idx, n + 1)
<1>1. /\ Input!TypeOK /\ Ready /\ RingInv
      /\ UNCHANGED <<status, used, buffers, dev, happened, put>> /\ SetupInv' /\ DeviceInv'
  BY DriverIs DEF Input!Handler
<1>2. /\ step = "advance" /\ step' = "loop"
      /\ avail' = [avail EXCEPT !.idx = (@ + 1) % WRAP]
      /\ last_used_idx' = (last_used_idx + 1) % WRAP
      /\ UNCHANGED <<id, got, failures, isr>>
  BY DEF Input!Advance
<1>3. /\ ~Input!Drained /\ id = used.ring[last_used_idx % SIZE]
         /\ avail.ring[avail.idx % SIZE] = id
  BY <1>2 DEF QueueInv, DriverInv
<1>4. PICK a \in Indices, u \in Nat, h \in {0, 1} :
        /\ a = last_used_idx /\ u = Wait /\ h = Held /\ u > 0 /\ a \in Nat
        /\ u + h <= SIZE /\ used.idx = Ahead(a, u) /\ avail.idx % SIZE = Slot(a, 0)
        /\ last_used_idx % SIZE = Slot(a, 0)
        /\ avail.idx = Ahead(a, SIZE) /\ dev.seen = Ahead(a, u + h)
  <2>1. PICK a \in Indices, u \in Nat, h \in {0, 1} :
          /\ a = last_used_idx /\ u = Wait /\ h = Held /\ u # 0 /\ a \in Nat
          /\ used.idx = Ahead(a, u)
    BY <1>1, <1>3, TypeIs
  <2>2. /\ avail.idx % SIZE = Slot(a, 0) /\ last_used_idx % SIZE = Slot(a, 0)
        /\ u + h <= SIZE
    BY <1>1, <2>1, RingIs
  <2>3. avail.idx = Ahead(a, SIZE) /\ dev.seen = Ahead(a, u + h)
    BY <1>1, <2>1 DEF RingInv
  <2> QED
    BY <2>1, <2>2, <2>3
<1>5. SIZE \in Nat \ {0} /\ Input!Descriptors = 0..(SIZE - 1)
  BY Sizes0 DEF Assumptions, Input!Descriptors
<1>6. PICK b \in Indices :
        /\ b = Ahead(a, 1) /\ last_used_idx' = b
        /\ \A k \in Nat : Ahead(b, k) = Ahead(a, 1 + k) /\ Slot(b, k) = Slot(a, 1 + k)
  <2>1. (a + 1) % WRAP = Ahead(a, 1)
    BY <1>4, IndexIs DEF Assumptions
  <2>2. /\ Ahead(a, 1) \in Indices
        /\ \A k \in Nat : /\ Ahead(Ahead(a, 1), k) = Ahead(a, 1 + k)
                          /\ Slot(Ahead(a, 1), k) = Slot(a, 1 + k)
    BY <1>4, AheadIs DEF Assumptions
  <2> QED
    BY <1>2, <1>4, <2>1, <2>2
<1>7. /\ avail'.idx = Ahead(b, SIZE) /\ avail'.ring = avail.ring
      /\ avail' \in [idx : 0..(WRAP - 1), ring : [Input!Descriptors -> Input!Descriptors]]
  <2>1. avail \in [idx : 0..(WRAP - 1), ring : [Input!Descriptors -> Input!Descriptors]]
    BY <1>1 DEF Input!TypeOK
  <2>2. (avail.idx + 1) % WRAP = Ahead(Ahead(a, SIZE), 1)
    BY <1>1, <1>4, TypeIs, IndexIs
  <2>3. Ahead(Ahead(a, SIZE), 1) = Ahead(a, SIZE + 1) /\ Ahead(a, SIZE + 1) \in 0..(WRAP - 1)
    BY <1>4, <1>5, AheadIs DEF Assumptions, Indices
  <2>4. SIZE + 1 = 1 + SIZE /\ Ahead(b, SIZE) = Ahead(a, 1 + SIZE)
    BY <1>5, <1>6
  <2>5. avail'.idx = (avail.idx + 1) % WRAP /\ avail'.ring = avail.ring
    BY <1>2, <2>1
  <2>6. avail' \in [idx : 0..(WRAP - 1), ring : [Input!Descriptors -> Input!Descriptors]]
    BY <1>2, <2>1, <2>2, <2>3
  <2> QED
    BY <2>2, <2>3, <2>4, <2>5, <2>6
<1>8. PICK v \in Nat : v = u - 1 /\ 1 + v = u /\ v \in 0..SIZE /\ v + h \in Nat /\ v + h < SIZE
  BY <1>4, <1>5
<1>9. Wait' = v /\ Held' = h
  <2>1. used.idx = Ahead(b, v)
    BY <1>4, <1>6, <1>8
  <2>2. Dist(b, Ahead(b, v)) = v
    BY <1>6, <1>8, DistIs DEF Assumptions
  <2> QED
    BY <1>1, <1>4, <1>6, <2>1, <2>2 DEF Wait, Held
<1>10. dev'.seen = Ahead(b, v + h)
  <2>1. 1 + (v + h) = u + h
    BY <1>8
  <2> QED
    BY <1>1, <1>4, <1>6, <1>8, <2>1
<1>11. Input!TypeOK'
  BY <1>1, <1>2, <1>6, <1>7 DEF Input!TypeOK, Indices
<1>12. ASSUME NEW n \in Input!Descriptors
       PROVE  Spot'[n] = IF n = SIZE - 1 THEN Spot[0] ELSE Spot[n + 1]
  <2>1. n \in Nat /\ n <= SIZE - 1 /\ 0 \in Input!Descriptors /\ 1 + n = n + 1
    BY <1>5
  <2>2. Spot'[n] = IF n < v THEN used.ring[Slot(b, n)]
                    ELSE IF n < v + h THEN dev.id ELSE avail.ring[Slot(b, n)]
    BY <1>1, <1>6, <1>7, <1>9 DEF Spot
  <2>3. Slot(b, n) = Slot(a, n + 1)
    BY <1>6, <2>1
  <2>4. CASE n = SIZE - 1
    <3>1. Spot[0] = used.ring[Slot(a, 0)]
      BY <1>4, <2>1 DEF Spot
    <3>2. Slot(a, n + 1) = Slot(a, 0)
      BY <1>4, <2>4, <1>5, IndexIs DEF Assumptions
    <3>3. ~(n < v) /\ ~(n < v + h)
      BY <1>5, <1>8, <2>4
    <3>4. avail.ring[Slot(a, 0)] = used.ring[Slot(a, 0)]
      BY <1>3, <1>4
    <3> QED
      BY <2>2, <2>3, <2>4, <3>1, <3>2, <3>3, <3>4
  <2>5. CASE n # SIZE - 1
    <3>1. n + 1 \in Input!Descriptors
      BY <1>5, <2>1, <2>5
    <3>2. Spot[n + 1] = IF n + 1 < u THEN used.ring[Slot(a, n + 1)]
                         ELSE IF n + 1 < u + h THEN dev.id ELSE avail.ring[Slot(a, n + 1)]
      BY <1>4, <3>1 DEF Spot
    <3>3. (n < v <=> n + 1 < u) /\ (n < v + h <=> n + 1 < u + h)
      BY <1>8, <2>1
    <3> QED
      BY <2>2, <2>3, <2>5, <3>2, <3>3
  <2> QED
    BY <2>4, <2>5
<1>13. RingInv'
  <2>1. Ready' /\ Busy'
    BY <1>1, <1>2 DEF Ready, Busy
  <2>2. Wait' + Held' = v + h /\ v + h <= SIZE
    <3>1. v + h <= SIZE
      BY <1>5, <1>8
    <3> QED
      BY <1>9, <3>1
  <2> DEFINE Old(n) == IF n = SIZE - 1 THEN 0 ELSE n + 1
  <2>3. \A n \in Input!Descriptors : Old(n) \in Input!Descriptors /\ Spot'[n] = Spot[Old(n)]
    BY <1>5, <1>12
  <2>4. \A m, n \in Input!Descriptors : m # n => Old(m) # Old(n)
    BY <1>5
  <2>5. \A c \in Input!Descriptors : \E n \in Input!Descriptors : Old(n) = c
    <3> SUFFICES ASSUME NEW c \in Input!Descriptors PROVE \E n \in Input!Descriptors : Old(n) = c
      OBVIOUS
    <3>1. CASE c = 0
      <4>1. SIZE - 1 \in Input!Descriptors /\ Old(SIZE - 1) = 0
        BY <1>5
      <4> QED
        BY <3>1, <4>1
    <3>2. CASE c # 0
      <4>1. c - 1 \in Input!Descriptors /\ Old(c - 1) = c
        BY <1>5, <3>2
      <4> QED
        BY <4>1
    <3> QED
      BY <3>1, <3>2
  <2> HIDE DEF Old
  <2>6. \A m, n \in Input!Descriptors : m # n => Spot'[m] # Spot'[n]
    BY <1>1, <2>3, <2>4 DEF RingInv
  <2>7. ASSUME NEW c \in Input!Descriptors PROVE \E n \in Input!Descriptors : Spot'[n] = c
    <3>1. PICK m \in Input!Descriptors : Spot[m] = c
      BY <1>1 DEF RingInv
    <3>2. PICK n \in Input!Descriptors : Old(n) = m
      BY <2>5
    <3> QED
      BY <2>3, <3>1, <3>2
  <2> QED
    BY <1>6, <1>7, <1>10, <2>1, <2>2, <2>6, <2>7 DEF RingInv
<1>14. DriverInv' /\ AlarmInv'
  BY <1>2 DEF DriverInv, AlarmInv, Busy
<1>15. ASSUME NEW n \in 0..(Wait - 2) PROVE Slot(last_used_idx', n) = Slot(last_used_idx, n + 1)
  <2>1. n \in Nat /\ 1 + n = n + 1
    BY <1>4
  <2> QED
    BY <1>4, <1>6, <2>1
<1>16. Wait > 0 /\ Wait' = Wait - 1
  BY <1>4, <1>8, <1>9
<1>17. QueueInv'
  BY <1>1, <1>11, <1>13, <1>14 DEF QueueInv
<1> QED
  BY <1>15, <1>16, <1>17

LEMMA QueueStep ==
  ASSUME Assumptions, QueueInv, [Input!Next]_(Input!vars)
  PROVE  QueueInv'
<1>1. CASE UNCHANGED Input!vars
  BY <1>1 DEF Input!vars, Input!driver, Input!device, QueueInv, Input!TypeOK, SetupInv, RingInv,
              DeviceInv, DriverInv, AlarmInv,
              Ready, Wait, Held, Spot, Input!Drained, Busy
<1> QED
  BY <1>1, SetupKeeps, OkKeeps, EventKeeps, FillKeeps, UseRingKeeps, UseIndexKeeps, RaiseKeeps,
     LooksKeep, RecycleKeeps, AdvanceKeeps
  DEF Input!Next, Input!Device, Input!Finish, Input!Setup, Input!Handler

-----------------------------------------------------------------------------
(***************************************************************************)
(* What the invariant says about the sequences of the properties.          *)
(***************************************************************************)
LEMMA BetweenIs ==
  ASSUME Input!SizeAssumption, NEW ring \in [Input!Descriptors -> Input!Descriptors],
         NEW a \in Indices, NEW b \in Indices
  PROVE  /\ Dist(a, b) \in Nat
         /\ Input!Between(ring, a, b) = [n \in 1..Dist(a, b) |-> ring[Slot(a, n - 1)]]
         /\ Input!Between(ring, a, b) \in Seq(Input!Descriptors)
            /\ Len(Input!Between(ring, a, b)) = Dist(a, b)
<1>1. a \in Nat /\ Dist(a, b) \in Nat
  BY Sizes0, DistIs
<1>2. PICK d \in Nat : d = Dist(a, b)
  BY <1>1
<1>3. ASSUME NEW n \in 1..d
      PROVE  /\ ring[Slot(a, n - 1)] \in Input!Descriptors
                /\ ring[(a + n - 1) % SIZE] = ring[Slot(a, n - 1)]
  <2>1. n - 1 \in Nat /\ a + n - 1 = a + (n - 1)
    BY <1>1, <1>2
  <2>2. Slot(a, n - 1) \in Input!Descriptors
    BY <1>1, <2>1, AheadIs
  <2> QED
    BY <2>1, <2>2 DEF Slot
<1>4. Input!Between(ring, a, b) = [n \in 1..d |-> ring[(a + n - 1) % SIZE]]
  BY <1>2 DEF Input!Between, Dist
<1>5. Input!Between(ring, a, b) = [n \in 1..d |-> ring[Slot(a, n - 1)]]
  BY <1>3, <1>4
<1>6. Input!Between(ring, a, b) \in [1..d -> Input!Descriptors]
  BY <1>3, <1>5
<1>7. Input!Between(ring, a, b) \in Seq(Input!Descriptors) /\ Len(Input!Between(ring, a, b)) = d
  BY <1>2, <1>6
<1> QED
  BY <1>2, <1>5, <1>7

\* Three sequences one after another.
LEMMA Joined ==
  ASSUME NEW S, NEW p \in Seq(S), NEW q \in Seq(S), NEW r \in Seq(S)
  PROVE  /\ (p \o q) \o r \in Seq(S) /\ Len((p \o q) \o r) = Len(p) + Len(q) + Len(r)
         /\ \A n \in 1..Len(p) : ((p \o q) \o r)[n] = p[n]
         /\ \A n \in 1..Len(q) : ((p \o q) \o r)[Len(p) + n] = q[n]
         /\ \A n \in 1..Len(r) : ((p \o q) \o r)[Len(p) + Len(q) + n] = r[n]
<1>1. Len(p) \in Nat /\ Len(q) \in Nat /\ Len(r) \in Nat
  OBVIOUS
<1>2. p \o q \in Seq(S) /\ Len(p \o q) = Len(p) + Len(q)
      /\ \A n \in 1..(Len(p) + Len(q)) : (p \o q)[n] = IF n <= Len(p) THEN p[n] ELSE q[n - Len(p)]
  BY ConcatProperties
<1>3. PICK x \in Seq(S) : x = p \o q
  BY <1>2
<1>4. x \o r \in Seq(S) /\ Len(x \o r) = Len(x) + Len(r)
      /\ \A n \in 1..(Len(x) + Len(r)) : (x \o r)[n] = IF n <= Len(x) THEN x[n] ELSE r[n - Len(x)]
  BY ConcatProperties
<1>5. Len(x) = Len(p) + Len(q) /\ Len(x \o r) = Len(p) + Len(q) + Len(r)
  BY <1>1, <1>2, <1>3, <1>4
<1>6. ASSUME NEW n \in 1..Len(p) PROVE (x \o r)[n] = p[n]
  BY <1>1, <1>2, <1>3, <1>4, <1>5
<1>7. ASSUME NEW n \in 1..Len(q) PROVE (x \o r)[Len(p) + n] = q[n]
  BY <1>1, <1>2, <1>3, <1>4, <1>5
<1>8. ASSUME NEW n \in 1..Len(r) PROVE (x \o r)[Len(p) + Len(q) + n] = r[n]
  BY <1>1, <1>4, <1>5
<1> QED
  BY <1>3, <1>4, <1>5, <1>6, <1>7, <1>8

LEMMA InvQueues ==
  ASSUME Assumptions, QueueInv
  PROVE  Input!DescriptorsHaveOnePlace
<1> SUFFICES ASSUME Ready PROVE Input!DescriptorsHaveOnePlace
  BY DEF Input!DescriptorsHaveOnePlace, Ready
<1>1. Input!TypeOK /\ RingInv /\ Input!SizeAssumption
  BY DEF QueueInv, Assumptions
<1>2. PICK a \in Indices, u \in Nat, h \in {0, 1}, o \in Nat :
        /\ a = last_used_idx /\ u = Wait /\ h = Held /\ a \in Nat /\ o + h + u = SIZE
        /\ dev.seen = Ahead(a, u + h) /\ avail.idx = Ahead(a, SIZE)
        /\ dev.seen \in Indices /\ avail.idx \in Indices /\ used.idx \in Indices
  <2>1. PICK a \in Indices, u \in Nat, h \in {0, 1} : a = last_used_idx /\ u = Wait /\ h = Held
    BY <1>1, TypeIs
  <2>2. PICK n \in Nat : n = SIZE /\ u + h <= n
    BY <1>1, <2>1, Sizes0 DEF RingInv
  <2>3. PICK o \in Nat : o = n - h - u
    BY <2>1, <2>2
  <2>4. o + h + u = SIZE
    BY <2>1, <2>2, <2>3
  <2>5. dev.seen = Ahead(a, u + h) /\ avail.idx = Ahead(a, SIZE)
    BY <1>1, <2>1 DEF RingInv
  <2> QED
    BY <1>1, <2>1, <2>4, <2>5, TypeIs
<1>3. SIZE \in Nat \ {0} /\ Input!Descriptors = 0..(SIZE - 1)
      /\ Input!None \notin Input!Descriptors
  BY <1>1, Sizes0 DEF Input!Descriptors
<1>4. Input!Waiting = [n \in 1..u |-> used.ring[Slot(a, n - 1)]]
      /\ Input!Waiting \in Seq(Input!Descriptors)
      /\ Len(Input!Waiting) = u
  <2>1. used.ring \in [Input!Descriptors -> Input!Descriptors] /\ Dist(a, used.idx) = u
    BY <1>1, <1>2, TypeIs DEF Wait
  <2>2. /\ Input!Between(used.ring, a, used.idx) = [n \in 1..Dist(a, used.idx) |-> used.ring[Slot(a, n - 1)]]
        /\ Input!Between(used.ring, a, used.idx) \in Seq(Input!Descriptors)
        /\ Len(Input!Between(used.ring, a, used.idx)) = Dist(a, used.idx)
    BY <1>1, <1>2, <2>1, BetweenIs
  <2>3. Input!Waiting = Input!Between(used.ring, a, used.idx)
    BY <1>2 DEF Input!Waiting
  <2> QED
    BY <2>1, <2>2, <2>3
<1>5. /\ Input!Offered \in Seq(Input!Descriptors) /\ Len(Input!Offered) = o
      /\ \A n \in 1..o : Input!Offered[n] = avail.ring[Slot(a, u + h + (n - 1))]
  <2>1. avail.ring \in [Input!Descriptors -> Input!Descriptors] /\ u + h \in Nat
    BY <1>1, <1>2, TypeIs
  <2>2. Ahead(a, SIZE) = Ahead(Ahead(a, u + h), o) /\ o \in 0..SIZE
    <3>1. (u + h) + o = SIZE /\ o \in 0..SIZE
      BY <1>2
    <3>2. Ahead(Ahead(a, u + h), o) = Ahead(a, (u + h) + o)
      BY <1>1, <1>2, <2>1, AheadIs
    <3> QED
      BY <3>1, <3>2
  <2>3. Dist(dev.seen, avail.idx) = o
    <3>1. avail.idx = Ahead(dev.seen, o)
      BY <1>2, <2>2
    <3> QED
      BY <1>1, <1>2, <2>2, <3>1, DistIs
  <2>4. Input!Offered = [n \in 1..o |-> avail.ring[Slot(dev.seen, n - 1)]]
        /\ Input!Offered \in Seq(Input!Descriptors) /\ Len(Input!Offered) = o
    BY <1>1, <1>2, <2>1, <2>3, BetweenIs DEF Input!Offered
  <2>5. ASSUME NEW n \in 1..o PROVE Input!Offered[n] = avail.ring[Slot(a, u + h + (n - 1))]
    <3>1. n - 1 \in Nat
      OBVIOUS
    <3>2. Slot(Ahead(a, u + h), n - 1) = Slot(a, u + h + (n - 1))
      BY <1>1, <1>2, <2>1, <3>1, AheadIs
    <3> QED
      BY <1>2, <2>4, <3>2
  <2> QED
    BY <2>4, <2>5
<1>6. Input!Taken \in Seq(Input!Descriptors) /\ Len(Input!Taken) = h
      /\ (h = 1 => Input!Taken[1] = dev.id)
  <2>1. dev.id \in Input!Descriptors \cup {Input!None}
    BY <1>1, TypeIs
  <2>2. CASE dev.id = Input!None
    <3>1. Input!Taken = <<>> /\ h = 0
      BY <1>2, <2>2 DEF Input!Taken, Held
    <3> QED
      BY <3>1
  <2>3. CASE dev.id # Input!None
    <3>1. Input!Taken = <<dev.id>> /\ h = 1 /\ dev.id \in Input!Descriptors
      BY <1>2, <2>1, <2>3 DEF Input!Taken, Held
    <3> QED
      BY <3>1
  <2> QED
    BY <2>2, <2>3
<1> DEFINE all == Input!Offered \o Input!Taken \o Input!Waiting
<1>7. PICK O \in Seq(Input!Descriptors), T \in Seq(Input!Descriptors),
           W \in Seq(Input!Descriptors) :
        O = Input!Offered /\ T = Input!Taken /\ W = Input!Waiting /\ Len(O) = o /\ Len(T) = h
        /\ Len(W) = u
  BY <1>4, <1>5, <1>6
<1>8. /\ all \in Seq(Input!Descriptors) /\ Len(all) = SIZE
      /\ \A n \in 1..o : all[n] = Input!Offered[n]
      /\ \A n \in 1..h : all[o + n] = Input!Taken[n]
      /\ \A n \in 1..u : all[o + h + n] = Input!Waiting[n]
  <2>1. all = (O \o T) \o W
    BY <1>7
  <2>2. /\ (O \o T) \o W \in Seq(Input!Descriptors) /\ Len((O \o T) \o W) = o + h + u
        /\ \A n \in 1..o : ((O \o T) \o W)[n] = O[n]
        /\ \A n \in 1..h : ((O \o T) \o W)[o + n] = T[n]
        /\ \A n \in 1..u : ((O \o T) \o W)[o + h + n] = W[n]
    <3>1. /\ (O \o T) \o W \in Seq(Input!Descriptors)
             /\ Len((O \o T) \o W) = Len(O) + Len(T) + Len(W)
          /\ \A n \in 1..Len(O) : ((O \o T) \o W)[n] = O[n]
          /\ \A n \in 1..Len(T) : ((O \o T) \o W)[Len(O) + n] = T[n]
          /\ \A n \in 1..Len(W) : ((O \o T) \o W)[Len(O) + Len(T) + n] = W[n]
      BY Joined
    <3> QED
      BY <1>7, <3>1, Zenon
  <2> HIDE DEF all
  <2> QED
    BY <1>2, <1>7, <2>1, <2>2
<1> HIDE DEF all
<1>9. ASSUME NEW d \in Input!Descriptors PROVE \E n \in 1..SIZE : all[n] = d
  <2>1. PICK n \in Input!Descriptors : Spot[n] = d
    BY <1>1 DEF RingInv
  <2>2. n \in Nat /\ n < SIZE /\ n + 1 - 1 = n
    BY <1>3
  <2>3. d = IF n < u THEN used.ring[Slot(a, n)]
            ELSE IF n < u + h THEN dev.id ELSE avail.ring[Slot(a, n)]
    BY <1>2, <2>1 DEF Spot
  <2>4. CASE n < u
    <3>1. n + 1 \in 1..u /\ o + h + (n + 1) \in 1..SIZE
      BY <1>2, <2>2, <2>4
    <3>2. all[o + h + (n + 1)] = Input!Waiting[n + 1]
      BY <1>8, <3>1
    <3>3. Input!Waiting[n + 1] = used.ring[Slot(a, n)]
      BY <1>4, <2>2, <3>1
    <3> QED
      BY <2>3, <2>4, <3>1, <3>2, <3>3
  <2>5. CASE ~(n < u) /\ n < u + h
    <3>1. h = 1 /\ 1 \in 1..h /\ o + 1 \in 1..SIZE
      BY <1>2, <2>2, <2>5
    <3>2. all[o + 1] = Input!Taken[1]
      BY <1>8, <3>1
    <3> QED
      BY <1>6, <2>3, <2>5, <3>1, <3>2
  <2>6. CASE ~(n < u) /\ ~(n < u + h)
    <3>1. PICK m \in 1..o : u + h + (m - 1) = n
      <4>1. PICK m \in Int : m = n + 1 - u - h
        BY <1>2, <2>2
      <4>2. m \in 1..o /\ u + h + (m - 1) = n
        BY <1>2, <1>3, <2>2, <2>6, <4>1
      <4> QED
        BY <4>2
    <3>2. all[m] = avail.ring[Slot(a, n)]
      BY <1>5, <1>8, <3>1
    <3>3. m \in 1..SIZE
      BY <1>2, <1>3, <3>1
    <3> QED
      BY <2>3, <2>6, <3>2, <3>3
  <2> QED
    BY <2>4, <2>5, <2>6
<1>10. \A n \in 1..SIZE : all[n] \in Input!Descriptors
  BY <1>3, <1>8
<1>11. {all[n] : n \in 1..Len(all)} = Input!Descriptors
  BY <1>8, <1>9, <1>10
<1> QED
  BY <1>8, <1>11 DEF Input!DescriptorsHaveOnePlace, all

LEMMA InvSound ==
  ASSUME Assumptions, QueueInv
  PROVE  Input!QueueIsSound
BY InvQueues DEF QueueInv, Input!QueueIsSound, Input!NoEventIsStranded, AlarmInv, Busy, Input!Idle

LEMMA QueueInvariance == Input!Spec => []QueueInv
<1>1. Assumptions
  BY InputConstants DEF Assumptions
<1>2. Input!Init => QueueInv
  BY <1>1, QueueInit
<1>3. QueueInv /\ [Input!Next]_(Input!vars) => QueueInv'
  BY <1>1, QueueStep
<1> QED
  BY <1>2, <1>3, PTL DEF Input!Spec

\* The rings hold every descriptor once, and the interrupt of what waits is on its way.
THEOREM InputCorrect == Input!Spec => []Input!QueueIsSound
<1>1. QueueInv => Input!QueueIsSound
  BY InvSound, InputConstants DEF Assumptions
<1> QED
  BY <1>1, QueueInvariance, PTL

-----------------------------------------------------------------------------
(***************************************************************************)
(* The refinement: UseIndex puts an event into the queue, HandleEvent gets *)
(* one, and no other step touches one that waits.                          *)
(***************************************************************************)
\* The event being handled still waits in the ring once it has been got.
Skip == IF step \in {"recycle", "advance"} THEN 1 ELSE 0

\* What waits d places long in a ring, but for the first m: as Queue has it, and slot by slot.
Show(ring, buf, a, b, m) ==
  [k \in 1..(Len(Input!Between(ring, a, b)) - m) |-> buf[Input!Between(ring, a, b)[k + m]]]
Seen(ring, buf, a, d, m) == [k \in 1..(d - m) |-> buf[ring[Slot(a, (k + m) - 1)]]]

LEMMA Shown ==
  ASSUME Input!SizeAssumption, NEW ring \in [Input!Descriptors -> Input!Descriptors],
         NEW buf \in [Input!Descriptors -> Input!Numbers], NEW a \in Indices, NEW b \in Indices,
         NEW m \in {0, 1}
  PROVE  Show(ring, buf, a, b, m) = Seen(ring, buf, a, Dist(a, b), m)
<1>1. PICK d \in Nat, w \in Seq(Input!Descriptors) :
        /\ w = Input!Between(ring, a, b) /\ d = Dist(a, b) /\ Len(w) = d
        /\ w = [n \in 1..d |-> ring[Slot(a, n - 1)]]
  BY BetweenIs
<1>2. ASSUME NEW k \in 1..(d - m) PROVE w[k + m] = ring[Slot(a, (k + m) - 1)]
  <2>1. k + m \in 1..d
    OBVIOUS
  <2> QED
    BY <1>1, <2>1
<1>3. [k \in 1..(d - m) |-> buf[w[k + m]]] = [k \in 1..(d - m) |-> buf[ring[Slot(a, (k + m) - 1)]]]
  BY <1>2
<1> QED
  BY <1>1, <1>3 DEF Show, Seen

LEMMA QueueIs ==
  ASSUME Assumptions, Input!TypeOK
  PROVE  Input!Queue = Seen(used.ring, buffers, last_used_idx, Wait, Skip)
<1>1. /\ Input!SizeAssumption /\ last_used_idx \in Indices /\ used.idx \in Indices
      /\ used.ring \in [Input!Descriptors -> Input!Descriptors]
         /\ buffers \in [Input!Descriptors -> Input!Numbers]
      /\ Skip \in {0, 1}
  BY TypeIs DEF Input!TypeOK, Skip
<1>2. Input!Queue = Show(used.ring, buffers, last_used_idx, used.idx, Skip)
  BY DEF Input!Queue, Skip, Show, Input!Waiting
<1> QED
  BY <1>1, <1>2, Shown DEF Wait

LEMMA QueueIsNext ==
  ASSUME Assumptions, Input!TypeOK'
  PROVE  Input!Queue' = Seen(used'.ring, buffers', last_used_idx', Wait', Skip')
<1>1. /\ Input!SizeAssumption /\ last_used_idx' \in Indices /\ used'.idx \in Indices
      /\ used'.ring \in [Input!Descriptors -> Input!Descriptors]
         /\ buffers' \in [Input!Descriptors -> Input!Numbers]
      /\ Skip' \in {0, 1}
  BY DEF Input!TypeOK, Skip, Assumptions, Indices
<1>2. Input!Queue' = Show(used'.ring, buffers', last_used_idx', used'.idx, Skip')
  BY DEF Input!Queue, Skip, Show, Input!Waiting
<1> QED
  BY <1>1, <1>2, Shown DEF Wait

LEMMA SeenSame ==
  ASSUME NEW r, NEW f, NEW a, NEW d \in Nat, NEW m \in {0, 1},
         NEW s, NEW g, NEW b, NEW e \in Nat, NEW n \in {0, 1}, d - m = e - n,
         \A k \in 1..(d - m) : f[r[Slot(a, (k + m) - 1)]] = g[s[Slot(b, (k + n) - 1)]]
  PROVE  Seen(r, f, a, d, m) = Seen(s, g, b, e, n)
BY DEF Seen

LEMMA SeenIs ==
  ASSUME Input!SizeAssumption, NEW r \in [Input!Descriptors -> Input!Descriptors],
         NEW f \in [Input!Descriptors -> Input!Numbers],
         NEW a \in Indices, NEW d \in Nat, NEW m \in {0, 1}, m <= d
  PROVE  /\ Seen(r, f, a, d, m) \in Seq(Input!Numbers) /\ Len(Seen(r, f, a, d, m)) = d - m
         /\ \A k \in 1..(d - m) : Seen(r, f, a, d, m)[k] = f[r[Slot(a, (k + m) - 1)]]
<1>1. PICK c \in Nat : c = d - m
  OBVIOUS
<1>2. ASSUME NEW k \in 1..c PROVE f[r[Slot(a, (k + m) - 1)]] \in Input!Numbers
  <2>1. (k + m) - 1 \in Nat /\ a \in Nat
    BY Sizes0
  <2>2. Slot(a, (k + m) - 1) \in Input!Descriptors
    BY <2>1, AheadIs
  <2> QED
    BY <2>2
<1>3. Seen(r, f, a, d, m) = [k \in 1..c |-> f[r[Slot(a, (k + m) - 1)]]]
  BY <1>1 DEF Seen
<1>4. Seen(r, f, a, d, m) \in [1..c -> Input!Numbers]
  BY <1>2, <1>3
<1>5. Seen(r, f, a, d, m) \in Seq(Input!Numbers) /\ Len(Seen(r, f, a, d, m)) = c
  BY <1>1, <1>4
<1> QED
  BY <1>1, <1>3, <1>5

LEMMA SeenGrows ==
  ASSUME Input!SizeAssumption, NEW r \in [Input!Descriptors -> Input!Descriptors],
         NEW f \in [Input!Descriptors -> Input!Numbers],
         NEW a \in Indices, NEW d \in Nat, NEW m \in {0, 1}, m <= d
  PROVE  Seen(r, f, a, d + 1, m) = Append(Seen(r, f, a, d, m), f[r[Slot(a, d)]])
<1>1. PICK c \in Nat : c = d - m
  OBVIOUS
<1>2. d + 1 \in Nat /\ m <= d + 1 /\ (d + 1) - m = c + 1 /\ ((c + 1) + m) - 1 = d
  BY <1>1
<1>3. PICK x \in Seq(Input!Numbers) :
        /\ x = Seen(r, f, a, d, m) /\ Len(x) = c
        /\ \A k \in 1..c : x[k] = f[r[Slot(a, (k + m) - 1)]]
  BY <1>1, SeenIs
<1>4. PICK y \in Seq(Input!Numbers) :
        /\ y = Seen(r, f, a, d + 1, m) /\ Len(y) = c + 1
        /\ \A k \in 1..(c + 1) : y[k] = f[r[Slot(a, (k + m) - 1)]]
  <2>1. PICK e \in Nat : e = d + 1
    OBVIOUS
  <2>2. /\ Seen(r, f, a, e, m) \in Seq(Input!Numbers) /\ Len(Seen(r, f, a, e, m)) = e - m
        /\ \A k \in 1..(e - m) : Seen(r, f, a, e, m)[k] = f[r[Slot(a, (k + m) - 1)]]
    <3>1. m <= e
      BY <1>2, <2>1
    <3> QED
      BY <3>1, SeenIs, Zenon
  <2> QED
    BY <1>2, <2>1, <2>2
<1>5. y[c + 1] = f[r[Slot(a, d)]]
  BY <1>1, <1>2, <1>4
<1>6. PICK v \in Input!Numbers : v = f[r[Slot(a, d)]]
  <2>1. Slot(a, d) \in Input!Descriptors
    BY Sizes0, AheadIs
  <2> QED
    BY <2>1
<1>7. y = Append(x, v)
  <2>1. \A k \in 1..(c + 1) : y[k] = IF k <= c THEN x[k] ELSE v
    BY <1>1, <1>3, <1>4, <1>5, <1>6
  <2>2. Append(x, v) \in Seq(Input!Numbers) /\ Len(Append(x, v)) = c + 1
        /\ \A k \in 1..(c + 1) : Append(x, v)[k] = IF k <= c THEN x[k] ELSE v
    BY <1>3, AppendProperties
  <2> QED
    BY <1>4, <2>1, <2>2, SeqEqual
<1> QED
  BY <1>3, <1>4, <1>6, <1>7

LEMMA SeenShrinks ==
  ASSUME Input!SizeAssumption, NEW r \in [Input!Descriptors -> Input!Descriptors],
         NEW f \in [Input!Descriptors -> Input!Numbers],
         NEW a \in Indices, NEW d \in Nat, 0 < d
  PROVE  /\ Seen(r, f, a, d, 0) # <<>>
         /\ Head(Seen(r, f, a, d, 0)) = f[r[Slot(a, 0)]]
         /\ Tail(Seen(r, f, a, d, 0)) = Seen(r, f, a, d, 1)
<1>1. PICK c \in Nat : c = d - 1
  OBVIOUS
<1>2. PICK x \in Seq(Input!Numbers) :
        x = Seen(r, f, a, d, 0) /\ Len(x) = d /\ \A k \in 1..d : x[k] = f[r[Slot(a, k - 1)]]
  <2>1. 0 <= d /\ 0 \in {0, 1} /\ d - 0 = d /\ \A k \in 1..d : (k + 0) - 1 = k - 1
    OBVIOUS
  <2>2. /\ Seen(r, f, a, d, 0) \in Seq(Input!Numbers) /\ Len(Seen(r, f, a, d, 0)) = d - 0
        /\ \A k \in 1..(d - 0) : Seen(r, f, a, d, 0)[k] = f[r[Slot(a, (k + 0) - 1)]]
    BY <2>1, SeenIs, Zenon
  <2> QED
    BY <2>1, <2>2
<1>3. PICK y \in Seq(Input!Numbers) :
        y = Seen(r, f, a, d, 1) /\ Len(y) = c /\ \A k \in 1..c : y[k] = f[r[Slot(a, (k + 1) - 1)]]
  <2>1. 1 <= d /\ 1 \in {0, 1}
    OBVIOUS
  <2>2. /\ Seen(r, f, a, d, 1) \in Seq(Input!Numbers) /\ Len(Seen(r, f, a, d, 1)) = d - 1
        /\ \A k \in 1..(d - 1) : Seen(r, f, a, d, 1)[k] = f[r[Slot(a, (k + 1) - 1)]]
    BY <2>1, SeenIs, Zenon
  <2> QED
    BY <1>1, <2>2
<1>4. x # <<>> /\ Head(x) = x[1] /\ x[1] = f[r[Slot(a, 0)]]
  <2>1. 1 \in 1..d /\ 1 - 1 = 0 /\ x # <<>>
    BY <1>2
  <2> QED
    BY <1>2, <2>1
<1>5. Tail(x) = y
  <2>1. Tail(x) \in Seq(Input!Numbers) /\ Len(Tail(x)) = c
        /\ \A k \in 1..c : Tail(x)[k] = x[k + 1]
    BY <1>1, <1>2, <1>4, HeadTailProperties
  <2>2. ASSUME NEW k \in 1..c PROVE Tail(x)[k] = y[k]
    <3>1. k + 1 \in 1..d
      BY <1>1
    <3> QED
      BY <1>2, <1>3, <2>1, <3>1
  <2> QED
    BY <1>3, <2>1, <2>2, SeqEqual
<1> QED
  BY <1>2, <1>3, <1>4, <1>5

-----------------------------------------------------------------------------
\* What the driver's place and the rings say of a step that leaves Queue alone.
LEMMA Stays ==
  ASSUME Assumptions, Input!TypeOK, Input!TypeOK', Wait' - Skip' = Wait - Skip, UNCHANGED <<put,
         got>>,
         \A k \in 1..(Wait - Skip) :
           buffers[used.ring[Slot(last_used_idx, (k + Skip) - 1)]]
             = buffers'[used'.ring[Slot(last_used_idx', (k + Skip') - 1)]]
  PROVE  UNCHANGED <<Input!Queue, put, got>>
<1>1. Input!Queue = Seen(used.ring, buffers, last_used_idx, Wait, Skip)
  BY QueueIs
<1>2. Input!Queue' = Seen(used'.ring, buffers', last_used_idx', Wait', Skip')
  BY QueueIsNext
<1>3. Input!Queue' = Input!Queue
  BY <1>1, <1>2 DEF Seen
<1> QED
  BY <1>3

\* A step that touches neither the used ring nor a buffer nor the driver's place.
LEMMA Same ==
  ASSUME Assumptions, Input!TypeOK, Input!TypeOK', UNCHANGED <<used, buffers, last_used_idx,
         put, got>>,
         Skip' = Skip
  PROVE  UNCHANGED <<Input!Queue, put, got>>
BY Stays DEF Wait

\* What is ahead of the driver.
LEMMA WaitingIs ==
  ASSUME Assumptions, QueueInv
  PROVE  /\ \E a \in Indices, u \in Nat, m \in {0, 1} :
              a = last_used_idx /\ a \in Nat /\ u = Wait /\ m = Skip /\ m <= u
         /\ \A k \in 1..(Wait - Skip) : (k + Skip) - 1 \in 0..(Wait - 1)
<1>1. Skip = 1 => ~Input!Drained
  BY DEF QueueInv, DriverInv, Skip
<1>2. PICK a \in Indices, u \in Nat, m \in {0, 1} :
        a = last_used_idx /\ a \in Nat /\ u = Wait /\ m = Skip /\ (m = 1 => u # 0)
  BY <1>1, TypeIs DEF QueueInv, Skip
<1>3. m <= u
  BY <1>2
<1> QED
  BY <1>2, <1>3

LEMMA SetupStutters ==
  ASSUME Assumptions, QueueInv, QueueInv', Input!Setup
  PROVE  UNCHANGED <<Input!Queue, put, got>>
<1>1. step \in {"device_init", "queue_setup", "status_queue"} /\ Input!TypeOK /\ Input!TypeOK'
      /\ Skip' = 0 /\ Skip = 0 /\ UNCHANGED <<used, buffers, put, got>>
  BY DEF QueueInv, Input!Setup, Input!virtio_device_init, Input!virtio_queue_setup,
         Input!driver_ok, Input!device, Skip, Input!Idle
<1>2. last_used_idx' = last_used_idx
  BY <1>1 DEF QueueInv, SetupInv, RingInv, Busy, Input!Idle, Input!Setup,
              Input!virtio_device_init, Input!virtio_queue_setup,
              Input!driver_ok
<1> QED
  BY <1>1, <1>2, Same

LEMMA FillStutters ==
  ASSUME Assumptions, QueueInv, QueueInv', Input!Fill
  PROVE  UNCHANGED <<Input!Queue, put, got>>
<1>1. /\ Input!TypeOK /\ Input!TypeOK' /\ Ready /\ RingInv /\ dev \in DevType
      /\ UNCHANGED <<step, last_used_idx, got, used, put>>
      /\ buffers' = [buffers EXCEPT ![dev.id] = happened - 1]
      /\ buffers \in [Input!Descriptors -> Input!Numbers]
  BY FinishIs DEF Input!Finish, Input!Fill, QueueInv, Input!TypeOK
<1>2. dev.id \in Input!Descriptors /\ Held = 1
  BY <1>1, Sizes0 DEF QueueInv, DeviceInv, DevType, Input!Fill, Held, Assumptions
<1>3. PICK a \in Indices, u \in Nat, m \in {0, 1} :
        a = last_used_idx /\ u = Wait /\ a \in Nat /\ m = Skip /\ u + 1 <= SIZE
  BY <1>1, <1>2, WaitingIs DEF RingInv
<1>4. ASSUME NEW n \in 0..(u - 1)
      PROVE  buffers'[used.ring[Slot(a, n)]] = buffers[used.ring[Slot(a, n)]]
  <2>1. n \in Input!Descriptors /\ u \in Input!Descriptors /\ n # u /\ n \in Nat /\ n < u
    BY <1>3, Sizes0 DEF Input!Descriptors, Assumptions
  <2>2. Spot[n] = used.ring[Slot(a, n)] /\ Spot[u] = dev.id
    BY <1>2, <1>3, <2>1 DEF Spot
  <2>3. used.ring[Slot(a, n)] # dev.id
    BY <1>1, <2>1, <2>2 DEF RingInv
  <2>4. used.ring[Slot(a, n)] \in Input!Descriptors
    BY <1>1, <1>3, <2>1, TypeIs, AheadIs
  <2> QED
    BY <1>1, <2>3, <2>4
<1>5. Skip' = Skip /\ Wait' = Wait
  BY <1>1 DEF Skip, Wait
<1>6. ASSUME NEW k \in 1..(Wait - Skip)
      PROVE  buffers[used.ring[Slot(last_used_idx, (k + Skip) - 1)]]
               = buffers'[used'.ring[Slot(last_used_idx', (k + Skip') - 1)]]
  BY <1>1, <1>3, <1>4, <1>5, WaitingIs
<1> QED
  BY <1>1, <1>5, <1>6, Stays

LEMMA UseRingStutters ==
  ASSUME Assumptions, QueueInv, QueueInv', Input!UseRing
  PROVE  UNCHANGED <<Input!Queue, put, got>>
<1>1. /\ Input!TypeOK /\ Input!TypeOK' /\ Ready /\ RingInv /\ dev \in DevType
      /\ UNCHANGED <<step, last_used_idx, got, buffers, put>>
      /\ used' = [used EXCEPT !.ring[used.idx % SIZE] = dev.id]
      /\ used \in [idx : 0..(WRAP - 1), ring : [Input!Descriptors -> Input!Descriptors]]
  BY FinishIs DEF Input!Finish, Input!UseRing, QueueInv, Input!TypeOK
<1>2. dev.id \in Input!Descriptors /\ Held = 1
  BY <1>1, Sizes0 DEF QueueInv, DeviceInv, DevType, Input!UseRing, Held, Assumptions
<1>3. PICK a \in Indices, u \in Nat, m \in {0, 1} :
        /\ a = last_used_idx /\ u = Wait /\ a \in Nat /\ m = Skip /\ u + 1 <= SIZE
        /\ used.idx % SIZE = Slot(a, u)
  <2>1. PICK a \in Indices, u \in Nat, m \in {0, 1} :
          a = last_used_idx /\ u = Wait /\ a \in Nat /\ m = Skip /\ u + 1 <= SIZE
    BY <1>1, <1>2, WaitingIs DEF RingInv
  <2>2. used.idx % SIZE = Slot(a, u)
    BY <1>1, <2>1, RingIs
  <2> QED
    BY <2>1, <2>2
<1>4. used'.idx = used.idx /\ used'.ring = [used.ring EXCEPT ![Slot(a, u)] = dev.id]
  BY <1>1, <1>3
<1>5. ASSUME NEW n \in 0..(u - 1) PROVE used'.ring[Slot(a, n)] = used.ring[Slot(a, n)]
  <2>1. n \in Input!Descriptors /\ u \in Input!Descriptors /\ n # u /\ n \in Nat
    BY <1>3, Sizes0 DEF Input!Descriptors, Assumptions
  <2>2. Slot(a, n) # Slot(a, u) /\ Slot(a, n) \in Input!Descriptors
    BY <1>3, <2>1, SlotsApart, AheadIs DEF Assumptions
  <2> QED
    BY <1>1, <1>4, <2>2
<1>6. Skip' = Skip /\ Wait' = Wait
  BY <1>1, <1>4 DEF Skip, Wait
<1>7. ASSUME NEW k \in 1..(Wait - Skip)
      PROVE  buffers[used.ring[Slot(last_used_idx, (k + Skip) - 1)]]
               = buffers'[used'.ring[Slot(last_used_idx', (k + Skip') - 1)]]
  BY <1>1, <1>3, <1>5, <1>6, WaitingIs
<1> QED
  BY <1>1, <1>6, <1>7, Stays

LEMMA UseIndexPuts ==
  ASSUME Assumptions, QueueInv, QueueInv', Input!UseIndex
  PROVE  Input!EventQueue!Put
<1>1. /\ Input!TypeOK /\ Input!TypeOK' /\ Ready /\ RingInv /\ dev \in DevType
         /\ UNCHANGED <<step, last_used_idx, got>>
      /\ Wait' = Wait + 1
  BY FinishIs, UseIndexKeeps DEF Input!Finish, QueueInv
<1>2. /\ dev.at = "index" /\ UNCHANGED <<buffers, got>> /\ put' = happened - 1
      /\ used' = [used EXCEPT !.idx = (@ + 1) % WRAP]
      /\ used \in [idx : 0..(WRAP - 1), ring : [Input!Descriptors -> Input!Descriptors]]
      /\ buffers \in [Input!Descriptors -> Input!Numbers]
  BY <1>1 DEF Input!UseIndex, Input!TypeOK
<1>3. dev.id \in Input!Descriptors /\ Held = 1 /\ used.ring[used.idx % SIZE] = dev.id
      /\ buffers[dev.id] = happened - 1 /\ put < happened - 1
  BY <1>1, <1>2, Sizes0 DEF QueueInv, DeviceInv, DevType, Held, Assumptions
<1>4. PICK a \in Indices, u \in Nat, m \in {0, 1} :
        /\ a = last_used_idx /\ u = Wait /\ m = Skip /\ m <= u /\ u + 1 <= SIZE
        /\ used.idx % SIZE = Slot(a, u)
  <2>1. PICK a \in Indices, u \in Nat, m \in {0, 1} :
          a = last_used_idx /\ u = Wait /\ m = Skip /\ m <= u /\ u + 1 <= SIZE
    BY <1>1, <1>3, WaitingIs DEF RingInv
  <2>2. used.idx % SIZE = Slot(a, u)
    BY <1>1, <2>1, RingIs
  <2> QED
    BY <2>1, <2>2
<1>5. PICK r \in [Input!Descriptors -> Input!Descriptors],
           f \in [Input!Descriptors -> Input!Numbers] :
        r = used.ring /\ f = buffers /\ used'.ring = r /\ buffers' = f
  BY <1>2
<1>6. Input!Queue = Seen(r, f, a, u, m) /\ Input!Queue' = Seen(r, f, a, u + 1, m)
  <2>1. Input!Queue = Seen(used.ring, buffers, last_used_idx, Wait, Skip)
    BY <1>1, QueueIs
  <2>2. Input!Queue' = Seen(used'.ring, buffers', last_used_idx', Wait', Skip')
    BY <1>1, QueueIsNext
  <2>3. Skip' = m /\ Wait' = u + 1 /\ last_used_idx' = a
    BY <1>1, <1>4 DEF Skip
  <2> QED
    BY <1>4, <1>5, <2>1, <2>2, <2>3
<1>7. Input!Queue' = Append(Input!Queue, put')
  <2>1. Seen(r, f, a, u + 1, m) = Append(Seen(r, f, a, u, m), f[r[Slot(a, u)]])
    BY <1>4, SeenGrows DEF Assumptions
  <2> QED
    BY <1>2, <1>3, <1>4, <1>5, <1>6, <2>1
<1>8. Len(Input!Queue) < SIZE
  <2>1. Len(Seen(r, f, a, u, m)) = u - m
    BY <1>4, SeenIs DEF Assumptions
  <2>2. u - m < SIZE
    BY <1>4, Sizes0 DEF Assumptions
  <2> QED
    BY <1>6, <2>1, <2>2
<1>9. put' > put
  <2>1. put \in Int /\ happened \in Int
    BY <1>1 DEF Input!TypeOK, Input!Numbers, Input!None
  <2> QED
    BY <1>2, <1>3, <2>1
<1> QED
  BY <1>1, <1>7, <1>8, <1>9 DEF Input!EventQueue!Put

LEMMA HandleEventGets ==
  ASSUME Assumptions, QueueInv, QueueInv', Input!HandleEvent
  PROVE  Input!EventQueue!Get
<1>1. /\ Input!TypeOK /\ Input!TypeOK' /\ RingInv /\ Ready
      /\ UNCHANGED <<used, buffers, last_used_idx, put>>
      /\ Skip = 0 /\ Skip' = 1 /\ got' = buffers[id]
      /\ ~Input!Drained /\ id = used.ring[last_used_idx % SIZE]
  BY DriverIs DEF QueueInv, DriverInv, Input!HandleEvent, Input!device, Skip, Input!Handler
<1>2. PICK a \in Indices, u \in Nat, r \in [Input!Descriptors -> Input!Descriptors],
           f \in [Input!Descriptors -> Input!Numbers] :
        a = last_used_idx /\ u = Wait /\ 0 < u /\ r = used.ring /\ f = buffers
  <2>1. last_used_idx \in Indices /\ Wait \in Nat /\ Wait # 0
        /\ used.ring \in [Input!Descriptors -> Input!Descriptors]
           /\ buffers \in [Input!Descriptors -> Input!Numbers]
    BY <1>1, TypeIs DEF Input!TypeOK
  <2> QED
    BY <2>1
<1>3. Input!Queue = Seen(r, f, a, u, 0)
  BY <1>1, <1>2, QueueIs
<1>4. Input!Queue' = Seen(r, f, a, u, 1)
  <2>1. Input!Queue' = Seen(used'.ring, buffers', last_used_idx', Wait', Skip')
    BY <1>1, QueueIsNext
  <2>2. Wait' = u
    BY <1>1, <1>2 DEF Wait
  <2> QED
    BY <1>1, <1>2, <2>1, <2>2
<1>5. /\ Seen(r, f, a, u, 0) # <<>>
      /\ Head(Seen(r, f, a, u, 0)) = f[r[Slot(a, 0)]]
      /\ Tail(Seen(r, f, a, u, 0)) = Seen(r, f, a, u, 1)
  BY <1>2, SeenShrinks DEF Assumptions
<1>6. got' = f[r[Slot(a, 0)]]
  <2>1. last_used_idx % SIZE = Slot(a, 0)
    BY <1>1, <1>2, RingIs
  <2> QED
    BY <1>1, <1>2, <2>1
<1> QED
  BY <1>1, <1>3, <1>4, <1>5, <1>6 DEF Input!EventQueue!Get

LEMMA AdvanceStutters ==
  ASSUME Assumptions, QueueInv, QueueInv', Input!Advance
  PROVE  UNCHANGED <<Input!Queue, put, got>>
<1>1. Input!TypeOK /\ Input!TypeOK' /\ Skip = 1 /\ Skip' = 0
      /\ UNCHANGED <<used, buffers, put, got>>
  BY DEF QueueInv, Input!Advance, Skip, Input!device
<1>2. Wait > 0 /\ Wait' = Wait - 1
      /\ \A n \in 0..(Wait - 2) : Slot(last_used_idx', n) = Slot(last_used_idx, n + 1)
  BY AdvanceKeeps
<1>3. PICK u \in Nat : u = Wait
  BY WaitingIs
<1>4. ASSUME NEW k \in 1..(Wait - Skip)
      PROVE  buffers[used.ring[Slot(last_used_idx, (k + Skip) - 1)]]
               = buffers'[used'.ring[Slot(last_used_idx', (k + Skip') - 1)]]
  <2>1. k - 1 \in 0..(u - 2) /\ (k + 1) - 1 = (k - 1) + 1 /\ (k + 0) - 1 = k - 1
    BY <1>1, <1>3
  <2> QED
    BY <1>1, <1>2, <1>3, <2>1
<1>5. Wait' - Skip' = Wait - Skip
  BY <1>1, <1>2, <1>3
<1> QED
  BY <1>1, <1>4, <1>5, Stays

LEMMA StepRefines ==
  ASSUME Assumptions, QueueInv, QueueInv', [Input!Next]_(Input!vars)
  PROVE  Input!EventQueue!Step
<1>1. CASE Input!Event \/ Input!RaiseInterrupt \/ Input!handle_irq \/ Input!NextUsed
           \/ Input!KeypressFails \/ Input!Recycle \/ Input!Leave
             \/ Input!Notify \/ UNCHANGED Input!vars
  <2>1. UNCHANGED <<used, buffers, last_used_idx, put, got>> /\ Skip' = Skip
    BY <1>1 DEF Input!Event, Input!RaiseInterrupt, Input!handle_irq, Input!NextUsed,
                Input!KeypressFails, Input!Recycle, Input!Leave, Input!Notify,
                Input!driver, Input!device, Input!vars, Skip, Input!Idle
  <2>2. UNCHANGED <<Input!Queue, put, got>>
    BY <2>1, Same DEF QueueInv
  <2> QED
    BY <2>2 DEF Input!EventQueue!Step
<1>2. CASE Input!Setup \/ Input!Fill \/ Input!UseRing \/ Input!Advance
  <2>1. UNCHANGED <<Input!Queue, put, got>>
    BY <1>2, SetupStutters, FillStutters, UseRingStutters, AdvanceStutters
  <2> QED
    BY <2>1 DEF Input!EventQueue!Step
<1>3. CASE Input!UseIndex \/ Input!HandleEvent
  BY <1>3, UseIndexPuts, HandleEventGets DEF Input!EventQueue!Step, Input!EventQueue!Next
<1> QED
  BY <1>1, <1>2, <1>3 DEF Input!Next, Input!Device, Input!Finish, Input!Handler

LEMMA InitRefines ==
  ASSUME Assumptions, Input!Init
  PROVE  Input!EventQueue!Init
<1>1. Input!TypeOK /\ Input!Drained /\ Skip = 0
  BY QueueInit DEF QueueInv, Input!Init, Input!Drained, Skip
<1>2. Wait = 0
  BY <1>1, TypeIs
<1>3. Input!Queue = [k \in 1..(0 - 0) |-> buffers[used.ring[Slot(last_used_idx, (k + 0) - 1)]]]
  BY <1>1, <1>2, QueueIs DEF Seen
<1>4. Input!Queue = <<>>
  BY <1>3
<1> QED
  BY <1>4 DEF Input!Init, Input!EventQueue!Init, Input!None

\* Events are handled once each and in the order they happened, whatever device and
\* handler do at the same time.
THEOREM InputRefinement == Input!Spec => Input!ImplementsAbstractEvents
<1>1. Input!Init => Input!EventQueue!Init
  BY InitRefines, InputConstants DEF Assumptions
<1>2. QueueInv /\ QueueInv' /\ [Input!Next]_(Input!vars)
        => [Input!EventQueue!Step]_<<Input!Queue, put, got>>
  BY StepRefines, InputConstants DEF Assumptions
<1> QED
  BY <1>1, <1>2, QueueInvariance, PTL
  DEF Input!Spec, Input!ImplementsAbstractEvents, Input!EventQueue!Spec

-----------------------------------------------------------------------------
(***************************************************************************)
(* The same in the behaviours of MCInterrupts, where the path of a trap    *)
(* may be the subject.                                                     *)
(***************************************************************************)
MCInv == subject = "input" => QueueInv

LEMMA MCInvariance == MCSpec => []MCInv
<1>1. MCInit => MCInv
  BY QueueInit, InputConstants DEF MCInit, MCInv, Assumptions
<1>2. subject = "input" /\ [MCNext]_<<vars, input, table, subject>> => [Input!Next]_(Input!vars)
  BY DEF MCNext, input, Input!vars, Input!driver, Input!device
<1>3. MCInv /\ [MCNext]_<<vars, input, table, subject>> => MCInv'
  BY <1>2, QueueStep, InputConstants DEF MCNext, MCInv, Assumptions
<1> QED
  BY <1>1, <1>3, PTL DEF MCSpec

\* The rings hold every descriptor once, and the interrupt of what waits is on its way.
THEOREM QueueCorrect == MCSpec => []QueueIsSound
<1>1. MCInv => QueueIsSound
  BY InvSound, InputConstants DEF QueueIsSound, MCInv, Assumptions
<1> QED
  BY <1>1, MCInvariance, PTL

\* Events are handled once each and in the order they happened.
THEOREM QueueRefinement == MCSpec => ImplementsAbstractEvents
<1>1. MCInit => Input!EventQueue!Init
  BY InitRefines, InputConstants DEF MCInit, Assumptions
<1>2. MCInv /\ MCInv' /\ [MCNext]_<<vars, input, table, subject>>
        => [subject = "input" => Input!EventQueue!Step]_input
  <2> SUFFICES ASSUME subject = "input", MCInv, MCInv', [MCNext]_<<vars, input, table, subject>>
               PROVE  Input!EventQueue!Step
    OBVIOUS
  <2>1. subject' = "input" /\ [Input!Next]_(Input!vars)
    BY DEF MCNext, input, Input!vars, Input!driver, Input!device
  <2> QED
    BY <2>1, StepRefines, InputConstants DEF MCInv, Assumptions
<1> QED
  BY <1>1, <1>2, MCInvariance, PTL DEF MCSpec, ImplementsAbstractEvents

-----------------------------------------------------------------------------
(***************************************************************************)
(* The process table on one hart.  ProcProofs holds for every instance of  *)
(* Proc whose constants satisfy its assumptions; this is the one of the    *)
(* run.                                                                    *)
(***************************************************************************)
Table == INSTANCE ProcProofs WITH
  Cpus <- {c0}, BootCpu <- c0, BootProcs <- <<"flush", "code", "code">>,
  Calls <- {"exit", "await", "fork", "kill", "wait", "setkilled"}, Failures <- {}

LEMMA TableConstants ==
  /\ Table!CpusAssumption /\ Table!NprocAssumption /\ Table!BootAssumption /\ Table!PidAssumption
  /\ \A c \in {c0} : c = c0
<1>1. Table!CpusAssumption /\ Table!NprocAssumption /\ Table!PidAssumption
  BY SchedConstants DEF Sched!CpusAssumption, Sched!NprocAssumption, Sched!PidAssumption,
     Table!CpusAssumption, Table!NprocAssumption, Table!PidAssumption
<1>2. Table!BootAssumption
  BY DEF Table!BootAssumption, Table!Kinds
<1> QED
  BY <1>1, <1>2

\* Table and Sched are one instance under two names: their definitions are the same when
\* they are expanded.
LEMMA SameInit == Sched!Init => Table!Init
BY Zenon DEF
  Table!Slots, Sched!Slots, Table!NoProc, Sched!NoProc, Table!WaitLock, Sched!WaitLock,
  Table!Locks, Sched!Locks, Table!UnusedProc, Sched!UnusedProc, Table!AtPc, Sched!AtPc,
  Table!InitCpu, Sched!InitCpu, Table!Init, Sched!Init

LEMMA SameNext == Sched!Next => Table!Next
BY Zenon DEF
  Table!Slots, Sched!Slots, Table!NoProc, Sched!NoProc, Table!WaitLock, Sched!WaitLock,
  Table!NoLock, Sched!NoLock, Table!Locks, Sched!Locks, Table!PRIORITY, Sched!PRIORITY,
  Table!AtPc, Sched!AtPc, Table!InitCpu, Sched!InitCpu, Table!Push, Sched!Push,
  Table!Pop, Sched!Pop, Table!Visit, Sched!Visit, Table!Acquire, Sched!Acquire,
  Table!Release, Sched!Release, Table!Me, Sched!Me, Table!My, Sched!My, Table!At, Sched!At,
  Table!AtScheduler, Sched!AtScheduler, Table!Goto, Sched!Goto, Table!Finish, Sched!Finish,
  Table!Wants, Sched!Wants, Table!AcquirePanic, Sched!AcquirePanic, Table!Made, Sched!Made,
  Table!free_process, Sched!free_process, Table!FromCode, Sched!FromCode,
  Table!KernelTask, Sched!KernelTask, Table!Unused, Sched!Unused, Table!First, Sched!First,
  Table!BootKind, Sched!BootKind, Table!AtBoot, Sched!AtBoot, Table!Boot, Sched!Boot,
  Table!BootFails, Sched!BootFails, Table!StartSchedulers, Sched!StartSchedulers,
  Table!ScanSlot, Sched!ScanSlot, Table!Restored, Sched!Restored, Table!Dispatch, Sched!Dispatch,
  Table!Idle, Sched!Idle, Table!SchedulerResumes, Sched!SchedulerResumes,
  Table!SchedComplaint, Sched!SchedComplaint, Table!sched, Sched!sched, Table!Sched, Sched!Sched,
  Table!Start, Sched!Start, Table!Return, Sched!Return, Table!CallYield, Sched!CallYield,
  Table!Call, Sched!Call, Table!User, Sched!User, Table!CallExit, Sched!CallExit,
  Table!CallWait, Sched!CallWait, Table!CallAwait, Sched!CallAwait, Table!CallFork, Sched!CallFork,
  Table!CallKill, Sched!CallKill, Table!CallSetkilled, Sched!CallSetkilled,
  Table!InitExits, Sched!InitExits, Table!TaskReturns, Sched!TaskReturns, Table!Yield, Sched!Yield,
  Table!Yielded, Sched!Yielded, Table!Exit, Sched!Exit, Table!Reparent, Sched!Reparent,
  Table!WakeSlot, Sched!WakeSlot, Table!Wakeup, Sched!Wakeup,
  Table!BecomeZombie, Sched!BecomeZombie, Table!WaitEnter, Sched!WaitEnter,
  Table!WaitReturns, Sched!WaitReturns, Table!WaitFails, Sched!WaitFails,
  Table!AwaitEnter, Sched!AwaitEnter, Table!ZombieChild, Sched!ZombieChild,
  Table!Awaited, Sched!Awaited, Table!AwaitMore, Sched!AwaitMore,
  Table!AwaitKilled, Sched!AwaitKilled, Table!Sleep, Sched!Sleep, Table!Slept, Sched!Slept,
  Table!Rewait, Sched!Rewait, Table!Killed, Sched!Killed, Table!Kill, Sched!Kill,
  Table!Setkilled, Sched!Setkilled, Table!ForkSlot, Sched!ForkSlot, Table!ForkCopy, Sched!ForkCopy,
  Table!ForkParent, Sched!ForkParent, Table!ForkReady, Sched!ForkReady,
  Table!SchedulerStep, Sched!SchedulerStep, Table!KernelStep, Sched!KernelStep,
  Table!ProcessCalls, Sched!ProcessCalls, Table!Next, Sched!Next,
  Table!FirstSlotIsNobodysChild, Sched!FirstSlotIsNobodysChild

LEMMA TableSpec == MCSpec => Table!Spec
<1>1. MCInit => Table!Init
  BY SameInit DEF MCInit
<1>2. [MCNext]_<<vars, input, table, subject>> => [Table!Next]_(Table!vars)
  BY SameNext DEF MCNext, table, Table!vars
<1> QED
  BY <1>1, <1>2, PTL DEF MCSpec, Table!Spec

\* On one hart a killed process does not sleep, in the behaviours of the run.
THEOREM KilledHere == MCSpec => []KilledIsAwake
<1>1. Table!Spec => []Table!KilledIsAwake
  BY TableConstants, Table!KilledCorrect
<1>2. Table!KilledIsAwake => KilledIsAwake
  BY DEF KilledIsAwake, Table!KilledIsAwake, Table!Slots, Sched!KilledIsAwake, Sched!Slots
<1> QED
  BY <1>1, <1>2, TableSpec, PTL

\* On one hart the best process is the one that runs next, in the behaviours of the run.
THEOREM BestHere == MCSpec => BestIsRun
<1>1. Table!Spec => Table!BestIsRun
  BY TableConstants, Table!BestCorrect
<1>2. Table!BestIsRun => BestIsRun
  BY DEF BestIsRun, Table!BestIsRun, Table!Slots, Table!Better, Table!vars,
     Sched!BestIsRun, Sched!Slots, Sched!Better, Sched!vars
<1> QED
  BY <1>1, <1>2, TableSpec, PTL
=============================================================================
