SPECIFICATION ConnectionsFairSpec
CONSTANTS
    b1 = b1
    b2 = b2
    l1 = l1
    l2 = l2
    Businesses = {b1, b2}
    Logins = {l1, l2}
    LoginsOf <- OneHasTwo
    Suspendable = {b1}
    PlatformPages = {p1}
    MaxStates = 2
    MaxCallbacks = 2
    MaxFailures = 1
INVARIANTS
    ConnectionsAreSound
PROPERTIES
    PageIsResubscribed
CHECK_DEADLOCK FALSE
