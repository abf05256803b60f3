\* Blocks of one, two and four pages.  init() may loop for ever, the double-free detection
\* halts the system, and a slot that fails stays used.
CONSTANTS
  BUDDY_MAX_ORDER = 2
  Regions <- AnyRegion
  CallOrders <- AllOrders
  Sizes <- PieceSizes
  NULL = NULL
  ListPages = 12
  p1 = p1
  p2 = p2
  Procs = {p1, p2}
  PAGE_BYTES = 2
  ENTRIES = 2
  Data = {0, 1}
  ClearPage = 0
  Program = {1}
  CodeSizes = {1, 5}
  MaxPages = 4
  Deltas = {1, 3}
  FamilyPools = {6, 8, 10, 12, 15, 19, 22}
  ResizePools = {10, 13, 19}
SPECIFICATION MCSpec
INVARIANTS
  BooksAreExact
  PagesHaveOneUse
  HeapIsSound
  ListsAreSound
  PagesAddUp
PROPERTIES
  ImplementsBuddy
  ImplementsAbstractMemory
CHECK_DEADLOCK FALSE
