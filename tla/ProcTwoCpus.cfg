\* Two CPUs, processes that fork, exit, wait for each other and mark themselves killed: two
\* in three slots.
CONSTANTS
  c0 = c0  c1 = c1
  BootCpu = c0
  Free = Free
  Cpus <- TwoCpus
  NPROC = 3
  BootProcs <- TwoUsers
  Calls <- UserCalls
  Failures <- NoFailures
  MaxPid = 4
SPECIFICATION Spec
INVARIANTS
  ProcessesAreSound
  
  NobodyWaitsForEver
PROPERTIES
  ImplementsProcLife
