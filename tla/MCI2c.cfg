SPECIFICATION I2cSpec
CONSTANTS
  kMemSize = 4
  kPageSize = 2
  HatImage <- Signature
  ConfigValues = {41120, 255}
  FmtDepth = 2
  RxDepth = 2
  ChunkMax = 3
  EepromAddresses <- SomeAddresses
  Lengths = {1, 2}
  NewBytes = {129}
  Noise = {0, 255}
  Speeds = {100, 1000}
  SYSCLK_FREQ = 40000000
  Prompt = TRUE
  MaxScripts = 2
  MaxResets = 1
  MaxTimeouts = 1
INVARIANTS BytesArriveWhole ReadsReturnTheRegister  IntervalsAreNotShortened
PROPERTY SdaStableWhileSclHigh
