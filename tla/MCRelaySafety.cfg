SPECIFICATION Spec
CONSTANTS
    w1 = w1
    w2 = w2
    Events <- OneReply
    Workers = {w1, w2}
    NoWorker = NoWorker
    NoEvent = NoEvent
    BatchSize = 1
    LeaseTicks = 1
    TimeoutTicks = 2
    StallTicks = 0
    GraceTicks = 2
    MaxSendAttempts = 2
    AttemptBound = 3
    Faults = {"crash", "db", "pressure", "late", "aging"}
    Errors <- GraphError
SYMMETRY WorkerSymmetry
INVARIANTS
    NoConcurrentRequests
    LeaseCoversRequest
    DuplicateOnlyAfterLostRecord
    
PROPERTIES
    RelayIsLeasedQueue
