SPECIFICATION Spec
CONSTANTS
  BlockShift = 1
  CacheEntries = 3
  MaxFiles = 2
  MaxDirs = 1
  Images <- MCEvict
  Lengths = {1, 3}
  MaxCalls = 6
  MaxFailures = 0
  Listing = FALSE
INVARIANT ReadsComeFromTheirBlock
