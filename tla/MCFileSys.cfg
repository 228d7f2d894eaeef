SPECIFICATION Spec
CONSTANTS
  BlockShift = 1
  CacheEntries = 3
  MaxFiles = 2
  MaxDirs = 1
  Images <- MCImages
  Lengths = {3}
  MaxCalls = 6
  MaxFailures = 1
  Listing = TRUE
INVARIANTS FileReadsAreRight PositionIsConsistent OpenFindsTheFile
