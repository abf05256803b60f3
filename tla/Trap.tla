-------------------------------- MODULE Trap --------------------------------
(***************************************************************************)
(* Traps of one hart: the vectors (kernel/src/trap.s, trampoline.S), the   *)
(* handlers behind them (trap_handler.c, usertrap and user_trap_ret in     *)
(* proc.c) and the switch of contexts (swtch.S).  Code that runs with      *)
(* interrupts off and touches nothing that others see is one step.         *)
(*                                                                         *)
(* Registers hold tokens that say whose value they are.  Five of them      *)
(* stand for all: sp and tp, a0, t0, and s0 for those that every path      *)
(* saves and restores in the same way.                                     *)
(***************************************************************************)
EXTENDS Integers, FiniteSets

CONSTANTS
  Users, Tasks,   \* processes with a program, and kernel tasks
  PCS,            \* bound on program counters: they count modulo PCS
  Events          \* what may happen: "timer", "external", "fault", "kernel_fault"

ASSUME PcsAssumption == PCS \in Nat /\ PCS > 1
ASSUME EventsAssumption == Events \subseteq {"timer", "external", "fault", "kernel_fault"}

VARIABLES
  loc, cur,       \* where the hart is, and current_proc()
  regs, pc,       \* its registers, and its program counter in user mode
  csr,            \* its control and status registers
  timer, external,\* interrupts that are pending
  trapframe,      \* of each user process
  context,        \* what swtch() has saved of each process
  trap_stack,     \* the frame on trap_stack
  ver, at,        \* what the registers and the counter of each program should be
  why, held       \* the cause of the trap from user mode; registers of interrupted code

vars == <<loc, cur, regs, pc, csr, timer, external, trapframe, context,
          trap_stack, ver, at, why, held>>

Procs == Users \cup Tasks
Regs  == {"sp", "tp", "t0", "a0", "s0"}
NoProc == "no proc"

ECALL == "ecall"  TIMER == "timer"  EXTERNAL == "external"  FAULT == "fault"
Interrupts == {TIMER, EXTERNAL}

Token(owner, r, n) == [owner |-> owner, reg |-> r, n |-> n]
UserRegs(p) == [r \in Regs |-> Token(p, r, ver[p])]

\* Every process has a kernel stack, the scheduler that of the boot.
KernelRegs(owner) ==
  [r \in Regs |-> IF r = "sp" THEN Token(owner, "stack", 0)
                  ELSE IF r = "tp" THEN Token("hart", "tp", 0)
                  ELSE Token(owner, r, 2)]

At(l, n)     == [loc |-> l, pc |-> n]
KernelTable  == [table |-> "kernel"]
UserTable(p) == [table |-> p]

\* Processes wait at the start of their program, tasks in kernel_task_wrapper().
Init ==
  /\ loc = "scheduler" /\ cur = NoProc
  /\ regs = KernelRegs(NoProc) /\ pc = 0
  /\ csr = [sepc |-> At("user", 0), scause |-> "none", SPP |-> 0, SPIE |-> 0, SIE |-> 1,
            sscratch |-> Token("trap", "stack", 0), stvec |-> "trap_vector",
            satp |-> KernelTable]
  /\ timer = FALSE /\ external = FALSE
  /\ ver = [p \in Users |-> 0] /\ at = [p \in Users |-> 0]
  /\ trapframe = [p \in Users |->
                    [epc |-> 0, regs |-> [r \in Regs |-> Token(p, r, 0)],
                     kernel |-> KernelRegs(p), satp |-> KernelTable]]
  /\ context = [p \in Procs |->
                  [ra |-> IF p \in Users THEN "ret" ELSE "task", SIE |-> 0,
                   sp |-> Token(p, "stack", 0), s0 |-> Token(p, "s0", 2)]]
  /\ trap_stack = KernelRegs(NoProc)
  /\ why = "none" /\ held = KernelRegs(NoProc)

-----------------------------------------------------------------------------
(***************************************************************************)
(* The hardware                                                            *)
(***************************************************************************)
InUser == loc = "user"

\* External interrupts come before the timer's, and both before the next instruction.
Pending == IF external THEN {EXTERNAL} ELSE IF timer THEN {TIMER} ELSE {}
Taken   == Pending # {} /\ (InUser \/ csr.SIE = 1)

Trap(cause) ==
  /\ csr' = [csr EXCEPT !.sepc = At(loc, IF InUser THEN pc ELSE 0), !.scause = cause,
                        !.SPP = IF InUser THEN 0 ELSE 1,
                        !.SPIE = csr.SIE, !.SIE = 0]
  /\ loc' = csr.stvec
  /\ why' = IF InUser THEN cause ELSE why
  /\ held' = regs

Interrupt ==
  /\ Taken
  /\ \E cause \in Pending : Trap(cause)
  /\ UNCHANGED <<cur, regs, pc, timer, external, trapframe, context, trap_stack, ver, at>>

TimerFires ==
  /\ TIMER \in Events
  /\ ~timer /\ timer' = TRUE
  /\ UNCHANGED <<loc, cur, regs, pc, csr, external, trapframe, context, trap_stack,
                 ver, at, why, held>>

DeviceRaises ==
  /\ EXTERNAL \in Events
  /\ ~external /\ external' = TRUE
  /\ UNCHANGED <<loc, cur, regs, pc, csr, timer, trapframe, context, trap_stack,
                 ver, at, why, held>>

-----------------------------------------------------------------------------
(***************************************************************************)
(* Programs                                                                *)
(***************************************************************************)
Compute ==
  /\ InUser /\ ~Taken
  /\ ver' = [ver EXCEPT ![cur] = 1 - @]
  /\ at' = [at EXCEPT ![cur] = (@ + 1) % PCS]
  /\ pc' = (pc + 1) % PCS
  /\ regs' = [r \in Regs |-> [regs[r] EXCEPT !.n = 1 - @]]
  /\ UNCHANGED <<loc, cur, csr, timer, external, trapframe, context, trap_stack, why, held>>

\* The program goes on behind the ecall.
Ecall ==
  /\ InUser /\ ~Taken
  /\ Trap(ECALL)
  /\ at' = [at EXCEPT ![cur] = (@ + 1) % PCS]
  /\ UNCHANGED <<cur, regs, pc, timer, external, trapframe, context, trap_stack, ver>>

\* An instruction that faults is tried again.
Fault ==
  /\ FAULT \in Events
  /\ InUser /\ ~Taken
  /\ Trap(FAULT)
  /\ UNCHANGED <<cur, regs, pc, timer, external, trapframe, context, trap_stack, ver, at>>

-----------------------------------------------------------------------------
(***************************************************************************)
(* trampoline.S                                                            *)
(***************************************************************************)
\* Mutant: a0 is not brought back from sscratch.
M_a0_not_saved ==
  /\ loc = "uservec" /\ csr.satp # KernelTable
  /\ LET p == csr.satp.table
     IN /\ csr' = [csr EXCEPT !.sscratch = regs["a0"], !.satp = trapframe[p].satp]
        /\ trapframe' = [trapframe EXCEPT
                           ![p].regs = [r \in Regs |-> IF r = "a0" THEN @["a0"] ELSE regs[r]]]
        /\ regs' = [regs EXCEPT !["sp"] = trapframe[p].kernel["sp"],
                                !["tp"] = trapframe[p].kernel["tp"]]
  /\ loc' = "usertrap"
  /\ UNCHANGED <<cur, pc, timer, external, context, trap_stack, ver, at, why, held>>

\* TRAPFRAME is what the table in satp maps there.
uservec ==
  /\ loc = "uservec" /\ csr.satp # KernelTable
  /\ LET p == csr.satp.table
     IN /\ csr' = [csr EXCEPT !.sscratch = regs["a0"], !.satp = trapframe[p].satp]
        /\ trapframe' = [trapframe EXCEPT ![p].regs = regs]
        /\ regs' = [regs EXCEPT !["sp"] = trapframe[p].kernel["sp"],
                                !["tp"] = trapframe[p].kernel["tp"]]
  /\ loc' = "usertrap"
  /\ UNCHANGED <<cur, pc, timer, external, context, trap_stack, ver, at, why, held>>

userret ==
  /\ loc = "userret"
  /\ regs' = trapframe[cur].regs
  /\ csr' = [csr EXCEPT !.satp = UserTable(cur), !.SIE = csr.SPIE, !.SPIE = 1]
  /\ pc' = csr.sepc.pc
  /\ loc' = "user"
  /\ UNCHANGED <<cur, timer, external, trapframe, context, trap_stack, ver, at, why, held>>

-----------------------------------------------------------------------------
(***************************************************************************)
(* proc.c                                                                  *)
(***************************************************************************)

usertrap ==
  /\ loc = "usertrap"
  /\ IF csr.SPP # 0
     THEN loc' = "panic" /\ UNCHANGED <<regs, csr, trapframe>>
     ELSE /\ trapframe' = [trapframe EXCEPT
                             ![cur].epc = IF csr.scause = ECALL THEN (csr.sepc.pc + 1) % PCS
                                          ELSE csr.sepc.pc]
          /\ csr' = [csr EXCEPT !.stvec = "trap_vector",
                                !.SIE = IF csr.scause = ECALL THEN 1 ELSE @]
          /\ regs' = [KernelRegs(cur) EXCEPT !["sp"] = regs["sp"], !["tp"] = regs["tp"]]
          /\ loc' = IF csr.scause = ECALL THEN "syscall" ELSE "check"
  /\ UNCHANGED <<cur, pc, timer, external, context, trap_stack, ver, at, why, held>>

\* The calls draw on the screen.
Syscall ==
  /\ loc = "syscall" /\ ~Taken
  /\ loc' = "check"
  /\ UNCHANGED <<cur, regs, pc, csr, timer, external, trapframe, context, trap_stack,
                 ver, at, why, held>>

\* yield(), sched() and swtch(); the scheduler goes on with interrupts enabled.
SwitchFrom(back) ==
  /\ context' = [context EXCEPT
                   ![cur] = [ra |-> back, SIE |-> csr.SIE, sp |-> regs["sp"], s0 |-> regs["s0"]]]
  /\ regs' = [KernelRegs(NoProc) EXCEPT !["tp"] = regs["tp"]]
  /\ csr' = [csr EXCEPT !.SIE = 1]
  /\ cur' = NoProc
  /\ loc' = "scheduler"
  /\ UNCHANGED <<pc, timer, external, trapframe, trap_stack, ver, at, why, held>>

\* Mutant: the timer's interrupt is ignored.
M_never_yields ==
  /\ loc = "check" /\ ~Taken /\ csr.scause = TIMER
  /\ loc' = "ret"
  /\ UNCHANGED <<cur, regs, pc, csr, timer, external, trapframe, context, trap_stack,
                 ver, at, why, held>>

\* The cause is read again, after the call.
Yields == loc = "check" /\ ~Taken /\ csr.scause = TIMER /\ SwitchFrom("ret")

Check ==
  /\ loc = "check" /\ ~Taken
  /\ csr.scause # TIMER
  /\ loc' = "ret"
  /\ UNCHANGED <<cur, regs, pc, csr, timer, external, trapframe, context, trap_stack,
                 ver, at, why, held>>

\* Mutant: the stack of whoever was interrupted stays in use.
M_swtch_keeps_sp ==
  /\ loc = "scheduler" /\ ~Taken
  /\ \E p \in Procs :
       /\ cur' = p
       /\ regs' = [KernelRegs(p) EXCEPT !["tp"] = regs["tp"], !["sp"] = regs["sp"],
                                        !["s0"] = context[p].s0]
       /\ csr' = [csr EXCEPT !.SIE = context[p].SIE]
       /\ loc' = context[p].ra
  /\ UNCHANGED <<pc, timer, external, trapframe, context, trap_stack, ver, at, why, held>>

\* scheduler() may take any process: Proc says which.
Dispatch ==
  /\ loc = "scheduler" /\ ~Taken
  /\ \E p \in Procs :
       /\ cur' = p
       /\ regs' = [KernelRegs(p) EXCEPT !["tp"] = regs["tp"], !["sp"] = context[p].sp,
                                        !["s0"] = context[p].s0]
       /\ csr' = [csr EXCEPT !.SIE = context[p].SIE]
       /\ loc' = context[p].ra
  /\ UNCHANGED <<pc, timer, external, trapframe, context, trap_stack, ver, at, why, held>>

\* Mutant: interrupts stay enabled while stvec is uservec already.
M_ret_keeps_interrupts ==
  /\ loc = "ret" /\ ~Taken
  /\ csr' = [csr EXCEPT !.stvec = "uservec", !.SPP = 0, !.SPIE = 1,
                        !.sepc = At("user", trapframe[cur].epc)]
  /\ trapframe' = [trapframe EXCEPT ![cur].kernel = [KernelRegs(cur) EXCEPT !["tp"] = regs["tp"]],
                                    ![cur].satp = csr.satp]
  /\ loc' = "userret"
  /\ UNCHANGED <<cur, regs, pc, timer, external, context, trap_stack, ver, at, why, held>>

\* Mutant: the bit of the interrupts is subtracted, not cleared.
M_ret_subtracts ==
  /\ loc = "ret" /\ ~Taken
  /\ csr' = [csr EXCEPT !.SIE = @ - 1, !.stvec = "uservec", !.SPP = 0, !.SPIE = 1,
                        !.sepc = At("user", trapframe[cur].epc)]
  /\ trapframe' = [trapframe EXCEPT ![cur].kernel = [KernelRegs(cur) EXCEPT !["tp"] = regs["tp"]],
                                    ![cur].satp = csr.satp]
  /\ loc' = "userret"
  /\ UNCHANGED <<cur, regs, pc, timer, external, context, trap_stack, ver, at, why, held>>

user_trap_ret ==
  /\ loc = "ret" /\ ~Taken
  /\ csr' = [csr EXCEPT !.SIE = 0, !.stvec = "uservec", !.SPP = 0, !.SPIE = 1,
                        !.sepc = At("user", trapframe[cur].epc)]
  /\ trapframe' = [trapframe EXCEPT ![cur].kernel = [KernelRegs(cur) EXCEPT !["tp"] = regs["tp"]],
                                    ![cur].satp = csr.satp]
  /\ loc' = "userret"
  /\ UNCHANGED <<cur, regs, pc, timer, external, context, trap_stack, ver, at, why, held>>

\* A kernel task works with interrupts enabled, and yields.
TaskRuns ==
  /\ loc = "task" /\ ~Taken
  /\ IF csr.SIE = 0
     THEN csr' = [csr EXCEPT !.SIE = 1] /\ UNCHANGED <<loc, cur, regs, context>>
          /\ UNCHANGED <<pc, timer, external, trapframe, trap_stack, ver, at, why, held>>
     ELSE SwitchFrom("task")

TaskFaults ==
  /\ "kernel_fault" \in Events
  /\ loc = "task" /\ ~Taken /\ csr.SIE = 1
  /\ Trap(FAULT)
  /\ UNCHANGED <<cur, regs, pc, timer, external, trapframe, context, trap_stack, ver, at>>

-----------------------------------------------------------------------------
(***************************************************************************)
(* trap.s and trap_handler.c                                               *)
(***************************************************************************)
\* Mutant: save_regs leaves out s0.
M_save_no_s0 ==
  /\ loc = "trap_vector"
  /\ csr' = [csr EXCEPT !.sscratch = regs["sp"]]
  /\ trap_stack' = [r \in Regs |-> IF r = "t0" THEN regs["sp"]
                                   ELSE IF r = "s0" THEN trap_stack["s0"] ELSE regs[r]]
  /\ regs' = [KernelRegs("trap") EXCEPT !["tp"] = regs["tp"]]
  /\ loc' = "kernel_trap_handler"
  /\ UNCHANGED <<cur, pc, timer, external, trapframe, context, ver, at, why, held>>

\* switch_to_trap_stack puts sp into t0 before save_regs saves t0.
trap_vector ==
  /\ loc = "trap_vector"
  /\ csr' = [csr EXCEPT !.sscratch = regs["sp"]]
  /\ trap_stack' = [regs EXCEPT !["t0"] = regs["sp"]]
  /\ regs' = [KernelRegs("trap") EXCEPT !["tp"] = regs["tp"]]
  /\ loc' = "kernel_trap_handler"
  /\ UNCHANGED <<cur, pc, timer, external, trapframe, context, ver, at, why, held>>

\* Mutant: the timer is not set again.
M_timer_not_set ==
  /\ loc = "kernel_trap_handler"
  /\ IF csr.scause \in Interrupts
     THEN /\ external' = IF csr.scause = EXTERNAL THEN FALSE ELSE external
          /\ loc' = "restore" /\ timer' = timer
     ELSE loc' = "halted" /\ UNCHANGED <<timer, external>>
  /\ UNCHANGED <<cur, regs, pc, csr, trapframe, context, trap_stack, ver, at, why, held>>

\* The timer is set again, and the device is served; an exception halts.
kernel_trap_handler ==
  /\ loc = "kernel_trap_handler"
  /\ IF csr.scause \in Interrupts
     THEN /\ timer' = IF csr.scause = TIMER THEN FALSE ELSE timer
          /\ external' = IF csr.scause = EXTERNAL THEN FALSE ELSE external
          /\ loc' = "restore"
     ELSE loc' = "halted" /\ UNCHANGED <<timer, external>>
  /\ UNCHANGED <<cur, regs, pc, csr, trapframe, context, trap_stack, ver, at, why, held>>

restore_regs ==
  /\ loc = "restore"
  /\ regs' = [trap_stack EXCEPT !["sp"] = csr.sscratch]
  /\ csr' = [csr EXCEPT !.SIE = csr.SPIE, !.SPIE = 1, !.SPP = 0]
  /\ loc' = csr.sepc.loc
  /\ UNCHANGED <<cur, pc, timer, external, trapframe, context, trap_stack, ver, at, why, held>>

-----------------------------------------------------------------------------
Program == Compute \/ Ecall \/ Fault
Kernel  == \/ uservec \/ userret \/ usertrap \/ Syscall \/ Yields \/ Check \/ Dispatch
           \/ user_trap_ret \/ TaskRuns \/ TaskFaults
           \/ trap_vector \/ kernel_trap_handler \/ restore_regs
Next == Interrupt \/ TimerFires \/ DeviceRaises \/ Program \/ Kernel

\* The hart does not stop.
Fairness == WF_vars(Interrupt \/ Program \/ Kernel)

Spec     == Init /\ [][Next]_vars
LiveSpec == Spec /\ Fairness

-----------------------------------------------------------------------------
(***************************************************************************)
(* Properties                                                              *)
(***************************************************************************)
Locations == {"user", "uservec", "usertrap", "syscall", "check", "ret", "userret", "task",
              "scheduler", "trap_vector", "kernel_trap_handler", "restore", "panic", "halted"}
Tokens == [owner : Procs \cup {NoProc, "hart", "trap"}, reg : Regs \cup {"stack"}, n : 0..2]

TypeOK ==
  /\ loc \in Locations
  /\ cur \in Procs \cup {NoProc}
  /\ regs \in [Regs -> Tokens] /\ trap_stack \in [Regs -> Tokens] /\ held \in [Regs -> Tokens]
  /\ pc \in 0..(PCS - 1)
  /\ csr.scause \in {"none", ECALL, TIMER, EXTERNAL, FAULT}
  /\ csr.SIE \in 0..1 /\ csr.SPIE \in 0..1 /\ csr.SPP \in 0..1
  /\ csr.stvec \in {"trap_vector", "uservec"}
  /\ timer \in BOOLEAN /\ external \in BOOLEAN
  /\ ver \in [Users -> 0..1] /\ at \in [Users -> 0..(PCS - 1)]
  /\ \A p \in Users : trapframe[p].epc \in 0..(PCS - 1)
  /\ \A p \in Procs : context[p].ra \in {"ret", "task"}

\* Whatever traps, calls and switches come in between, a program finds its registers
\* as it has left them and goes on where it should.
ProgramsSeeNothing == InUser => regs = UserRegs(cur) /\ pc = at[cur]

\* usertrap() is entered from user mode only, and uservec never with the kernel's table,
\* which has no TRAPFRAME: stvec leads to trap_vector whenever the kernel can be
\* interrupted.
KernelIsNotLost ==
  /\ loc # "panic"
  /\ loc = "uservec" => csr.SPP = 0 /\ csr.satp = UserTable(cur)

\* Each process is on its own kernel stack, the handler of the kernel's traps on
\* trap_stack, and tp is the hart's in the kernel.
StacksAreOwn ==
  loc \notin {"user", "uservec"} =>
    /\ regs["tp"] = Token("hart", "tp", 0)
    /\ regs["sp"] = Token(IF loc \in {"kernel_trap_handler", "restore", "halted"} THEN "trap"
                          ELSE cur, "stack", 0)

\* Kernel code that is interrupted gets its registers back, all but t0.
RegistersComeBack ==
  [][restore_regs => \A r \in Regs \ {"t0"} : regs'[r] = held[r]]_vars

\* save_regs and restore_regs save and restore t0 (trap.s:26, 59).
T0ComesBack == [][restore_regs => regs'["t0"] = held["t0"]]_vars

\* Interrupts are enabled in a call "only now that we're done with" scause
\* (proc.c:682): a process yields because of the trap it came with.
\* It does not hold, and no run checks it: see What disagrees in the README.
YieldsForItsTrap == [][Yields => why = TIMER]_vars

\* A timer interrupt does not stay pending: somebody sets the timer again.
TimerIsSetAgain == timer ~> ~timer

\* The process that runs when the timer interrupts gives up the hart (proc.c:716).
TimerEndsTheTurn == \A p \in Users : (InUser /\ cur = p /\ timer) ~> cur # p

\* Wherever an interrupt comes, the hart is in the kernel with the kernel's table, vector,
\* stack and tp, or in a program with the program's.
KernelIsSound == TypeOK /\ KernelIsNotLost /\ StacksAreOwn
=============================================================================
