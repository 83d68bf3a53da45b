SPECIFICATION SliderSpec
CONSTANTS
    Inputs = {4}
    Counts <- MCCounts
    QueueCapacity = 2
    SliderSource = 4
    Readings <- MCReadings
    Deadband = 2
PROPERTIES
    ReportsOnlyPastDeadband
