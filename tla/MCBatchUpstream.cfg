CONSTANTS
    r1 = r1
    r2 = r2
    r3 = r3
    z1 = z1
    k1 = k1
    k2 = k2
    None = None
    Reqs = {r1, r2, r3}
    Bizs = {z1}
    BizOf <- OneBiz
    Keys = {k1, k2}
    KeyOf <- Repeated
    BatchSize = 2
    MaxTries = 2
SPECIFICATION BatchSpec
INVARIANTS
    OwnedOnce
    AckMeansHandled
    ShutOutByStopOrMismatch
PROPERTIES
    HandlersReturn
