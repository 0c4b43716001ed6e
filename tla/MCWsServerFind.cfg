CONSTANTS
    u1 = u1
    Conns = {c1, c2}
    Waiting = w
    Clients <- ClientSet
    Users = {u1}
    UserOf <- OneUser
    NoLink = NoLink
    InitialCapacity = 1
    MaxCapacity = 2
    IncreaseStep = 1
SPECIFICATION Spec
INVARIANT
    OnlineUserFindable
