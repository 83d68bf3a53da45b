SPECIFICATION SystemFairSpec
CONSTANTS
    Inputs = {2, 3, 4}
    Counts = {0, 1, 2}
    SystemEvents = {}
    MaxOutbox = 2
    MaxTransit = 1
    StoreCapacity = 3
    Deadband = 2
    Detents = {0, 1}
    WiredSets = {{2}, {3}, {4}}
INVARIANTS
    ViewIsCurrent
    OutputFollows
    ViewIsPosition
    LampIsToggle
PROPERTIES
    ViewCatchesUp
