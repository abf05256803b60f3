\* The orders of the code, a region of 64 pages, and callers of single pages.
CONSTANTS
  BUDDY_MAX_ORDER = 10
  Regions <- RealRegion
  CallOrders <- PageOrder
SPECIFICATION Spec
INVARIANTS
  PatternsKept
CHECK_DEADLOCK FALSE
