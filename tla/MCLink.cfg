CONSTANTS
    SendBuf = 1
    RecvBuf = 1
    MaxRetries = 1
    AutoClose = FALSE
    Upstream = 5
    Pushes = 0
SPECIFICATION Spec
PROPERTIES
    StreamsArePrefixes
    ClosedLinkStops
    SendReturns
