SPECIFICATION PartsSpec
CONSTANTS
    Inputs = {1, 4}
    Counts = {0, 1}
    StoreCapacity = 3
    MaxPushed = 5
    Int32Min <- MCInt32Min
    Int32Max = 127
    UInt32Max = 7
    MaxFields = 3
INVARIANTS
    EventsUnderstood
    SameCommands
PROPERTIES
    ImplementsBacklog
