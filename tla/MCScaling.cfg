CONSTANTS
    c1 = c1
    c2 = c2
    Calls = {c1, c2}
    HostOf <- MCHostOf
    Static = {1, 2}
    InitLinks <- MCInitLinks
    MaxDeaths = 2
    Percent = 50
    NoCall = NoCall
SPECIFICATION Spec
INVARIANTS
    AnnouncedOnce
    NotFlooded
    AnnouncedIsReady
PROPERTIES
    LockFreed
    AlertsAnswered
CHECK_DEADLOCK FALSE
