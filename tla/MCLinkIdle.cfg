CONSTANTS
    SendBuf = 1
    RecvBuf = 1
    MaxRetries = 1
    AutoClose = TRUE
    Upstream = 1
    Pushes = 1
SPECIFICATION Spec
INVARIANTS
    SendAfterCloseFails
PROPERTIES
    LostPeerCleaned
