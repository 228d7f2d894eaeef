SPECIFICATION Spec
CONSTANTS
  BlockLen = 2
  NumBlocks = 3
  Data <- MCData
  Fill <- MCFill
  MaxCalls = 2
  MaxFaults = 1
  FaultyMulti = FALSE
INVARIANTS ReadReturnsTheMedium WriteReachesTheMedium CommandsArriveWhole
PROPERTY CallsReturn
