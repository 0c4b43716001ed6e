CONSTANTS
    Links = {l1, l2}
    Keys = {k1, k2}
    MaxRetries = 1
SPECIFICATION Spec
INVARIANTS
    OneAtATime
    AckMeansHandled
PROPERTIES
    GetsThrough
