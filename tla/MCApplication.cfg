SPECIFICATION Spec
CONSTANTS
    Inputs = {2, 4}
    Counts = {0, 1}
    QueueCapacity = 1
    StoreCapacity = 2
    LedActiveHigh = TRUE
    Commands <- MCCommands
    MaxSequence = 2
INVARIANTS
    TypeOK
    Accounting
    BacklogOrdered
    NeverRejected
    NewestKept
    ReplayEndsAtCurrentValue
PROPERTIES
    AcceptedInOrder
    KeepsBacklog
