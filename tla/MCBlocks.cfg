SPECIFICATION Spec
CONSTANTS
  MaxSpaces = 3
  SpaceBlocks = 1
  BlockLines = 2
  LineGranules = 2
  Sizes <- TwoSizes
  LargeSize = 2
  SparseLines = 1
  MaxObjects = 2
  MaxLeaked = 1
INVARIANTS
  
  HolesAreClean
  StatsExact
CHECK_DEADLOCK FALSE
