SPECIFICATION FairSpec
CHECK_DEADLOCK FALSE
CONSTANTS
    Inputs = {1, 2}
    Counts = {1}
    QueueCapacity = 2
INVARIANTS
    TasksFindWhatTheyUse
    NoEventWithoutConsumer
PROPERTIES
    InputsServed
    StorageRepaired
