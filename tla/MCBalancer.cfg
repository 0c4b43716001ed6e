CONSTANTS
    Addrs = {a1, a2}
    Ids = {i1, i2}
    Maxima = {3}
    Calls = {c1, c2}
    InitCapacity = 1
    IncreaseStep = 1
    GrowthNum = 1
    GrowthDen = 1
    MaxChanges = 1
    MaxSubConns = 3
    MaxDrops = 1
SPECIFICATION BalSpec
SYMMETRY Symmetry
INVARIANTS
    PickerIsReadySet
    CapacityCountsCalls
PROPERTIES
    CapacityKept
CHECK_DEADLOCK FALSE
