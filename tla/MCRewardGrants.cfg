SPECIFICATION FairSpec
CONSTANTS
    w1 = w1
    w2 = w2
    e1 = e1
    e2 = e2
    n1 = n1
    NoEvent = NoEvent
    NoAward = NoAward
    Events = {e1, e2}
    Rules = {1, 2}
    Trigger <- TwoMessageRules
    Benefits <- PointsAndRight
    Cap <- CapBoth
    Held <- SecondHeld
    Policy <- NoPolicy
    Supersedes <- Edited
    InitialRules = {1}
    Earn = 1
    Burn = 1
    MaxConversions = 2
    MinBalance = 1
    Adjustments = {}
    AdjustBy <- NoAdjustment
    Factors = {0, 1}
    Workers = {w1, w2}
    BatchSize = 2
    Removals = {}
    Portal = {"edit"}
    Faults = {"crash"}
INVARIANTS
    CapsAreExact
PROPERTIES
    SettledAwardIsFinal
    
