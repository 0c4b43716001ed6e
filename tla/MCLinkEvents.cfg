CONSTANTS
    c1 = c1
    c2 = c2
    n1 = n1
    Conns = {c1, c2}
    Nodes = {n1}
    NodeOf <- SameNode
    NoSession = NoSession
    Burst = 1
    MaxMsgs = 2
SPECIFICATION Spec
INVARIANTS
    GaugeCountsConnections
    EventsBalance
    EachMessageOnce
CHECK_DEADLOCK FALSE
