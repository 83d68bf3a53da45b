SPECIFICATION FairBenchSpec
CONSTANTS
    Kinds = {"toggle_changed", "analog_changed"}
    Capacity = 2
    MaxEvents = 4
CHECK_DEADLOCK FALSE
INVARIANTS
    ReportAddsUp
    OldestFirst
    PairsRightUndisturbed
PROPERTIES
    RecoveryCompletes
