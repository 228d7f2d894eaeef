SPECIFICATION Spec
CONSTANTS
  NumBuffers = 6
  AvSetupDepth = 1
  AvOutDepth = 1
  RxDepth = 1
  MaxSetups = 4
  MaxOuts = 1
  MaxSends = 2
INVARIANTS BuffersHeldOnce StateFollowsStatusStage ReplyBufferAvailable
PROPERTY EnumerationCompletes
CHECK_DEADLOCK FALSE
