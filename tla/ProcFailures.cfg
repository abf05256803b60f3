\* Two CPUs, memory runs out anywhere and init exits.  A CPU that panics stops for good, so the
\* system may come to rest.
CONSTANTS
  c0 = c0  c1 = c1
  BootCpu = c0
  Free = Free
  Cpus <- TwoCpus
  NPROC = 4
  BootProcs <- InitAndTask
  Calls <- OddCalls
  Failures <- AnyFailure
  MaxPid = 4
SPECIFICATION Spec
INVARIANTS
  FamilyIsSound
CHECK_DEADLOCK FALSE
