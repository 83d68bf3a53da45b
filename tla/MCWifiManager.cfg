SPECIFICATION FairSpec
CONSTANTS
    Inputs = {1}
    Counts = {1}
    QueueCapacity = 1
    MaxEvents = 3
INVARIANTS
    ConnectedIsCurrent
    NeverStranded
PROPERTIES
    ComesBack
