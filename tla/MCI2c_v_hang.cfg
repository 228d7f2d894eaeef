SPECIFICATION I2cSpec
CONSTANTS
  kMemSize = 4
  kPageSize = 2
  HatImage <- Signature
  ConfigValues = {41120}
  FmtDepth = 4
  RxDepth = 2
  ChunkMax = 3
  EepromAddresses <- SomeAddresses
  Lengths = {1}
  NewBytes = {129}
  Noise = {0}
  Speeds = {100}
  SYSCLK_FREQ = 40000000
  Prompt = TRUE
  MaxScripts = 1
  MaxResets = 0
  MaxTimeouts = 0
PROPERTY I2cCallsReturn
