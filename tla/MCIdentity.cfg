\* Two inviting businesses and two requests at once, for one address and one
\* person; the limits are small enough to be reached and passed.
CONSTANTS
    Inviters = {i1, i2}
    Callers = {k1, k2}
    NoInviter = none
    MaxAttempts = 2
    HourlyCap = 2
    MaxCodes = 4
    Businesses = {b1, b2}
    Clients = {c1, c2}
    MaxFailed = 2
    MaxSessions = 1
    SessionBound = 3
SPECIFICATION IdentitySpec
INVARIANTS
    CodesAreSound
PROPERTIES
    SessionsAreSound
SYMMETRY IdentitySymmetry
CHECK_DEADLOCK FALSE
