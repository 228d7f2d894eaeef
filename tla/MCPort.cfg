SPECIFICATION MCPortSpec
CONSTANTS
  NumLines = 3
  BufWords = 2
  NumBufs = 2
  NumSeqs = 2
  Lanes = {l0}
  NewBytes = {}
  PortID = 1
  SupportWrites = FALSE
  TimerMax = 1
  ReqDepth = 2
  MaxCycles = 5
INVARIANTS
  AtMostOneMatch
CHECK_DEADLOCK FALSE
