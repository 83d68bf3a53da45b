SPECIFICATION FairSpec
CONSTANTS
    Inputs = {2}
    Counts = {1}
    QueueCapacity = 1
    StoreCapacity = 1
    LedActiveHigh = FALSE
    Commands <- MCCommands
    MaxSequence = 1
PROPERTIES
    ViewCatchesUp
    KeepsReceiving
