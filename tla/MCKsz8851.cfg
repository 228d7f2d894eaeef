SPECIFICATION Spec
CONSTANTS
    TxMemory = 1
    MaxArrivals = 2
    MaxOutputs = 2
    MaxPolls = 1
    Undisturbed = TRUE
INVARIANTS
    FramesInOrder
    FramesGoOutWhole
PROPERTIES
    FramesAreTaken
