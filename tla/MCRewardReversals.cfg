SPECIFICATION Spec
CONSTANTS
    w1 = w1
    w2 = w2
    e1 = e1
    e2 = e2
    n1 = n1
    NoEvent = NoEvent
    NoAward = NoAward
    Events = {e1, e2}
    Rules = {1, 2}
    Trigger <- EarnThenConvert
    Benefits <- EarnConvertBenefits
    Cap <- CapFirst
    Held <- NoneHeld
    Policy <- Reversing
    Supersedes <- NoEdit
    InitialRules = {1, 2}
    Earn = 1
    Burn = 1
    MaxConversions = 2
    MinBalance = 1
    Adjustments = {n1}
    AdjustBy <- OneAdjustment
    Factors = {1}
    Workers = {w1, w2}
    BatchSize = 2
    Removals = {"hidden", "removed"}
    Portal = {"switch"}
    Faults = {"crash", "db"}
SYMMETRY WorkerSymmetry
INVARIANTS
    BalanceIsLedgerSum
    GrantIsWhole
PROPERTIES
    RuleNeverOverdraws
