------------------------------- MODULE MCProc -------------------------------
(* Instances of Proc for TLC. *)
EXTENDS Proc, TLC

CONSTANTS c0, c1

OneCpu  == {c0}
TwoCpus == {c0, c1}

\* Mixtures of the kinds that main() and make_kernel_task() provide for.
TwoUsers      == <<"code", "code">>
OneUser       == <<"code">>
InitAndTask   == <<"init", "task">>

FamilyCalls == {"exit", "await", "fork"}
UserCalls   == FamilyCalls \cup {"wait", "setkilled"}
OddCalls    == {"exit", "fork", "kill", "return", "init_exit"}

NoFailures == {}
AnyFailure == {"make_proc", "pages", "uvmcopy"}
CopyFails  == {"uvmcopy"}
=============================================================================
