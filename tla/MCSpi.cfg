SPECIFICATION Spec
CONSTANTS
    ByteBits = 3
    ByteCounts = 8
    MaxHalf = 1
    RxFifoDepth = 1
    TxFifoDepth = 2
    LegacyDepth = 5
    LegacyAvail = 3
    HalDepth = 2
    SendBytes <- MCSendBytes
    AnswerBytes <- MCAnswerBytes
    Apis = {"legacy", "hal"}
    TxLens = {1, 2}
    RxLens = {1, 2}
    HalLens = {1, 3}
    MaxFrames = 3
    MaxSelects = 2
INVARIANTS
    DeviceReceivesWhatIsSent
    ReadsReturnWhatWasAnswered
    ReceivedBytesAreKept
PROPERTIES
    ClockRestsBetweenTransfers
    CallsReturn
    TransfersEnd
