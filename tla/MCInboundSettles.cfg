SPECIFICATION FairSpec
CONSTANTS
    w1 = w1
    w2 = w2
    i1 = i1
    i2 = i2
    Items = {i1, i2}
    Kinds = {"comment", "app_reply"}
    Workers = {w1, w2}
    NoWorker = NoWorker
    NoKey = NoKey
    BatchSize = 2
    MaxAttempts = 2
    GraceAttempts = 1
    MaxChanges = 1
    AgentReads = TRUE
    Walks = {"comments"}
    Faults = {"crash", "projection"}
INVARIANTS
    BadgeShowsUnread
PROPERTIES
    EveryEventSettles
