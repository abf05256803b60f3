\* Three CPUs, two locks, callers that may acquire and release anything.  A CPU
\* that panics stops for good, so the system may come to rest.
CONSTANTS
  c1 = c1  c2 = c2  c3 = c3
  NoCpu = NoCpu
  Cpus <- MCCpus3
  Locks <- MCLocks2
  Disciplined = FALSE
SYMMETRY Symmetry3
SPECIFICATION Spec
INVARIANTS
  LocksAreSound
  PanicsAreExact
PROPERTIES
  InterruptsRestored
  ImplementsAbstractLock
CHECK_DEADLOCK FALSE
