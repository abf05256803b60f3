\* Five pages, tables of two entries; and two ranges, of sizes that fill a page of four
\* bytes or not, and that overlap.
CONSTANTS
  f1 = f1
  f2 = f2
  f3 = f3
  f4 = f4
  f5 = f5
  ENTRIES = 2
  Frames <- FivePages
  PhysPages <- DevicePages
  VirtPages <- VirtPages3
  MaxRange = 2
  Junk <- JunkPages
  MAX_MMIO_ENTRIES = 2
  PAGE_SIZE = 4
  Bases = {0, 4, 12}
  Sizes = {3, 4, 8}
  Ids = {1, 2}
SPECIFICATION MCSpec
SYMMETRY SymFive
INVARIANTS
  TablesAreATree
  CallsAreRight
  RangesAreSound
PROPERTIES
  ImplementsAbstractMap
  ImplementsAbstractRanges
