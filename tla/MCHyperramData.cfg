SPECIFICATION MCScenes
CONSTANTS
  NumLines = 2
  BufWords = 2
  NumBufs = 2
  NumSeqs = 8
  Lanes = {l0, l1}
  NewBytes = {v1}
  TimerMax = 1
  ReqDepth = 3
  CmdDepth = 4
  ReadLatency = 1
  TagDepth = 3
  Caps = {TRUE, FALSE}
  MaxReq = 6
  MaxCodeReq = 3
INVARIANTS
  DReadsReturnLastWrite
  FetchesMatchBursts
  DfifoHoldsItsBursts
  MemoryHoldsLastWrites
  IReadsReturnLastWrite
  FillsSpareValidWords
  TagsFollowReads
