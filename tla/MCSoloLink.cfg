CONSTANTS
    SendBuf = 1
    RecvBuf = 1
    SendBatch = 2
    MaxRetries = 1
    Upstream = 3
    Pushes = 1
SPECIFICATION Spec
PROPERTIES
    InOrder
    ClosedLinkEnds
    PeerLossEnds
