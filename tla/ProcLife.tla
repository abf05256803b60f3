------------------------------ MODULE ProcLife ------------------------------
(***************************************************************************)
(* What the scheduler promises: the life of a process, and that no CPU     *)
(* starts a process that another CPU has not left.  A process gives up the *)
(* CPU itself, is made ready again by others, and is freed only when it is *)
(* dead and off every CPU.  Module Proc is the implementation.             *)
(***************************************************************************)
CONSTANTS Cpus, Slots, NoProc

VARIABLES state,   \* state[p]: enum procstate
          running  \* running[c]: the process whose thread CPU c executes

vars == <<state, running>>

Init ==
  /\ state   = [p \in Slots |-> "UNUSED"]
  /\ running = [c \in Cpus |-> NoProc]

OffCpu(p) == \A c \in Cpus : running[c] # p

Moves(p, from, to) ==
  /\ state[p] = from
  /\ state' = [state EXCEPT ![p] = to]

Create(p) ==
  /\ \/ Moves(p, "UNUSED", "USED")
     \/ Moves(p, "USED", "RUNNABLE")
     \/ Moves(p, "UNUSED", "RUNNABLE")
     \/ Moves(p, "USED", "UNUSED")
  /\ OffCpu(p)
  /\ UNCHANGED running

Run(c, p) ==
  /\ running[c] = NoProc
  /\ OffCpu(p)
  /\ Moves(p, "RUNNABLE", "RUNNING")
  /\ running' = [running EXCEPT ![c] = p]

GiveUp(c, p) ==
  /\ running[c] = p
  /\ \E to \in {"RUNNABLE", "SLEEPING", "ZOMBIE"} : Moves(p, "RUNNING", to)
  /\ UNCHANGED running

Leave(c) ==
  /\ running[c] # NoProc
  /\ state[running[c]] # "RUNNING"
  /\ running' = [running EXCEPT ![c] = NoProc]
  /\ UNCHANGED state

Wake(p) ==
  /\ Moves(p, "SLEEPING", "RUNNABLE")
  /\ OffCpu(p)
  /\ UNCHANGED running

Reap(p) ==
  /\ Moves(p, "ZOMBIE", "UNUSED")
  /\ OffCpu(p)
  /\ UNCHANGED running

Next ==
  \/ \E p \in Slots : Create(p) \/ Wake(p) \/ Reap(p)
  \/ \E c \in Cpus : Leave(c) \/ \E p \in Slots : Run(c, p) \/ GiveUp(c, p)

Spec == Init /\ [][Next]_vars
=============================================================================
