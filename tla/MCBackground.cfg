SPECIFICATION BackgroundSpec
CONSTANTS
    w1 = w1
    w2 = w2
    j1 = j1
    j2 = j2
    k1 = k1
    k2 = k2
    None = None
    Keys = {k1, k2}
    Jobs = {j1, j2}
    Pages <- TwoShort
    Workers = {w1, w2}
    BatchSize = 2
    MaxPages = 1
    MaxAttempts = 2
    RowsPerKey = 1
    Troubles = {"transient", "blocked"}
    Faults = {"crash"}
    PollBatch = 2
    MaxRows = 3
    MaxPollErrors = 1
    MaxDrops = 2
    Firms = {f1, f2}
    Kinds = {dm, comment}
    Streams = {s1, s2}
    MaxStreams = 1
    MaxChanges = 1
    SweptRows = {"session", "event"}
    TableOf <- SessionAndEvent
    RetentionDays <- LedgersADay
    RedeliveryDays = 1
    SweepBatch = 1
    MaxPasses = 2
    LastDay = 2
    MaxSweepCrashes = 1

    
PROPERTIES
    
    EveryRowIsTaken
    StreamsAreSound
    RetentionIsSafe
CHECK_DEADLOCK FALSE
