\* Bounds of the parts are in the module.  Devices come to rest with
\* their last request.
CONSTANTS
  c0 = c0  c1 = c1  free = free  u = u  k = k
  KbdIrq = 1
  MouseIrq = 2
  Uart = 10
  Others <- GpuSource
  Fifo = 2
  MaxRaises = 2
SPECIFICATION MCSpec
INVARIANTS
  ControllerIsSound
PROPERTIES
  DevicesAreServed
  HartsGoOn
  TimersEndTurns
  SleepsAreRight
CHECK_DEADLOCK FALSE
