SPECIFICATION Spec
CONSTANTS
    w1 = w1
    w2 = w2
    i1 = i1
    i2 = i2
    Items = {i1}
    Kinds = {"comment", "mention", "direct_message", "own_comment", "echo", "app_reply"}
    Workers = {w1, w2}
    NoWorker = NoWorker
    NoKey = NoKey
    BatchSize = 2
    MaxAttempts = 2
    GraceAttempts = 1
    MaxChanges = 2
    AgentReads = FALSE
    Walks = {"mentions", "messages"}
    Faults = {"crash", "db", "projection", "store", "rewards", "slow", "mentions"}
SYMMETRY WorkerSymmetry
INVARIANTS
    CountersExact
    
PROPERTIES
    InboundIsLeasedQueue
CHECK_DEADLOCK FALSE
