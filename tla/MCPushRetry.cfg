CONSTANTS
    p1 = p1
    p2 = p2
    k1 = k1
    l1 = l1
    id = id
    None = None
    Pushes = {p1, p2}
    Keys = {k1}
    Links = {l1}
    KeyOf <- SameKey
    LinkOf <- OneLink
    IdOf <- OneID
    MaxRetries = 2
SPECIFICATION Spec
INVARIANTS
    TotalCountsTasks
PROPERTIES
    TaskEndsForAReason
    TasksEnd
