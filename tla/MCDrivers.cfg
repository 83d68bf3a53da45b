SPECIFICATION DriversSpec
CONSTANTS
    Inputs = {1, 3, 4}
    Counts <- MCCounts
    QueueCapacity = 2
    Source = 3
    CountMin <- MCCountMin
    CountMax = 2
    MaxTurn = 3
    SliderSource = 4
    ContactSource = 1
    ActiveEvent = "ButtonPressed"
    InactiveEvent = "ButtonReleased"
    Debounce = 3
    Readings <- MCReadings
    Deadband = 2
INVARIANTS
    CountFollowsDial
    StaleOnlyWhenRefused
    BaselineIsReported
PROPERTIES
    NeverAgainstTheShaft
    NoGlitchReported
    ReportsAlternate
    LastingLevelReported
    NoiseIgnored
