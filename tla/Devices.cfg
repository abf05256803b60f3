\* A modifier that fits a byte and one that does not, a code past a byte; a small screen;
\* indices that wrap around, small displays and none; every day that 32 bits of seconds
\* reach; pages for two arrays that grow.
\* The machine may be reset, a panic and the last day end.
CONSTANTS
  Modifiers = {0, 8}
  Codes = {286}
  QueueSize = 3
  Width = 4
  Height = 3
  CURSOR_SZ = 2
  Buttons = {"BTN_LEFT", "BTN_RIGHT", "BTN_MIDDLE"}
  Steps <- StepsHere
  MaxRedraws = 2
  GPUQ_SZ = 3
  WRAP = 6
  PAGE_SIZE = 4096
  Displays = {1, 255}
  LastDay = 49710
  LastSecond = 23295
  Moments = {23295, 86399}
  Arrays = {a1, box}
  Pages = {g1, g2, g3, g4}
  Values = {v1, v2}
  Few = {v1}
  MaxElems = 3
  Caps = {0, 1, 2, 4}
  Junk = junk
  mb = box
  none = none
SPECIFICATION MCSpec
INVARIANTS
  ModifiersAreSound
  PointerIsSound
  CommandsAreSound
  CalendarIsRight
  ArraysAreSound
PROPERTIES
  KeypressesAreTrue
  ImplementsAbstractVectors
CHECK_DEADLOCK FALSE
