\* Interrupts on in every call, as main() has them (main.c:302).  Detected double frees halt
\* the system.
CONSTANTS
  BUDDY_MAX_ORDER = 2
  NumPages = 12
  NULL = NULL
  Interruptible <- Places
SPECIFICATION Spec
INVARIANTS
  PatternsKept
CHECK_DEADLOCK FALSE
