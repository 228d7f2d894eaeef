SPECIFICATION MCFair
CONSTANTS
  NumLines = 2
  BufWords = 2
  NumBufs = 2
  NumSeqs = 8
  Lanes = {l0}
  NewBytes = {v1}
  TimerMax = 1
  ReqDepth = 3
  CmdDepth = 2
  ReadLatency = 1
  TagDepth = 3
  Caps = {FALSE}
  MaxReq = 3
PROPERTIES
  RequestsAreAccepted
  RequestsAreAnswered
  WritesReachMemory
