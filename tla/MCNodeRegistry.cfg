CONSTANTS
    RegMaxRetries = 1
    KaMaxRetries = 2
    Weight = 1
    Loads = {0, 1}
SPECIFICATION RegSpec
INVARIANTS
    NoResurrection
    RecordOnOwnLease
PROPERTIES
    NodeLeaves
