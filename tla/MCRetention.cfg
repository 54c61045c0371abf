SPECIFICATION RetentionSpec
CONSTANTS
    SweptRows = {"session", "event"}
    TableOf <- SessionAndEvent
    RetentionDays <- LedgersADay
    RedeliveryDays = 1
    SweepBatch = 1
    MaxPasses = 2
    LastDay = 2
    MaxSweepCrashes = 1
PROPERTIES
    LapsedFeatureRetires
CHECK_DEADLOCK FALSE
