SPECIFICATION Spec
CONSTANTS
    Inputs = {1}
    Counts = {1}
    QueueCapacity = 1
    MaxEvents = 3
PROPERTIES
    RespectsDisconnect
