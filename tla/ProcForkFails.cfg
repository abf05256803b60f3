\* fork() of a process whose memory cannot be copied.
CONSTANTS
  c0 = c0  c1 = c1
  BootCpu = c0
  Free = Free
  Cpus <- OneCpu
  NPROC = 3
  BootProcs <- OneUser
  Calls <- FamilyCalls
  Failures <- CopyFails
  MaxPid = 3
SPECIFICATION Spec
INVARIANTS
  SchedHoldsOneLock
CHECK_DEADLOCK FALSE
