\* Two programs and a kernel task; indices of the queue that wrap around twice, and a
\* handler that gives up thrice; processes in four slots.  The kernel halts when the task
\* faults, the queue rests after its last event.
CONSTANTS
  u1 = u1  u2 = u2  k1 = k1
  Users <- TwoUsers
  Tasks <- OneTask
  PCS = 3
  Events <- EveryEvent
  SIZE = 3
  WRAP = 6
  MaxEvents = 13
  MaxFailures = 3
  c0 = c0
  Free = Free
  NPROC = 4
  MaxPid = 5
SPECIFICATION MCSpec
INVARIANTS
  ProgramsSeeNothing
  KernelIsSound
  QueueIsSound
  KilledIsAwake
PROPERTIES
  RegistersComeBack
  ImplementsAbstractEvents
  BestIsRun
CHECK_DEADLOCK FALSE
