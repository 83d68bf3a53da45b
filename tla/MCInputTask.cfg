SPECIFICATION FairSpec
CONSTANTS
    Inputs = {1, 2, 3, 4}
    Counts <- MCCounts
    QueueCapacity = 1
    LedActiveHigh = TRUE
    Debounce = 0
    CountMin = 0
    CountMax = 1
    MaxTurn = 1
    Readings = {0, 4095}
    Deadband = 2
    MovingSets = {{1, 4}, {2, 4}, {3}}
INVARIANTS
    StationFollowsDrivers
PROPERTIES
    ImplementsDrivers
    RestingInputsReachState
