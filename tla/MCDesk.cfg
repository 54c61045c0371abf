SPECIFICATION DeskRunSpec
CONSTANTS
    w1 = w1
    w2 = w2
    j1 = j1
    j2 = j2
    k1 = k1
    k2 = k2
    None = None
    Keys = {k1}
    Jobs = {j1}
    Pages <- OneLong
    Workers = {w1, w2}
    BatchSize = 2
    MaxPages = 2
    MaxAttempts = 2
    RowsPerKey = 1
    Troubles = {"transient", "permanent", "rate_limit", "blocked"}
    Faults = {"crash", "stall", "db"}
    t1 = t1
    t2 = t2
    Threads = {t1, t2}
    KindOf <- DirectAndComment
    IdemKeys = {i1}
    Requests = {r1, r2}
    Assignees = {e1}
    StatusesAsked = {"archived"}
    WindowHours = 0
    LastHour = 1
    MaxWrites = 1
    Agents = {a1, a2}
    MayHide = {a1, a2}
    MayDelete = {a1}
    MaxSends = 2
    MaxReplays = 1
    MaxModerations = 2
    MaxOutside = 1
    LastStamp = 1
    Processes = {c1, c2}
    Pools = {s1}
    Tenants = {n1, n2}
    Percents = {10, 90}
    WarnPct = 80
    ThrottlePct = 95
    MaxPending = 1
    LastBucket = 2
    MaxCalls = 2
    Editors = {d1, d2}
    SocialTriggers = {"dm"}
    SystemTriggers = {"balance"}
    ScheduleDays = {1, 2}
    FormTerms <- Terms
    MaxRules = 3
    MaxProgramEdits = 2
    MaxAsides = 1
    h1 = h1
    Projections = {p1, p2}
    People = {q1, q2}
    Handles = {h1}
    HandleOf <- SharedHandle
    MaxCustomers = 3
    MaxProjected = 3
    LastTick = 4
    TicksPerMilli = 2
    RowLimit = 4
    PageSize = 1
    HiddenIds = {2}
    MaxMoves = 1
    Viewers = {v1, v2}
    Servers = {x1, x2}
    MediaFields = {f1, f2}
    m1 = m1
    m2 = m2
    MediaMessages = {m1, m2}
    ItemsOf <- PhotosAndStory
    KeptPerMessage = 3
    EdgeWindow = 1
SYMMETRY DeskSymmetry
INVARIANTS
    
    
    
    ModerationIsBounded
    
    
    EveryRowIsToldOnce
PROPERTIES
    WalkIsWhole
    OnePersonOneCustomer
    MediaIsKept
CHECK_DEADLOCK FALSE
