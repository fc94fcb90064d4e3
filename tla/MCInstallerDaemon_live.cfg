SPECIFICATION FairSpec
CONSTANTS
    c1 = c1
    c2 = c2
    c3 = c3
    c4 = c4
    t1 = t1
    Clients = {c1, c2}
    RootClients = {c1, c2}
    TransIds = {t1}
    None = None
    Requests <- MCRequests
    Retention = 1
    UIntMod = 16
    RunForever = FALSE
    Strict = FALSE
    SystemErrors = FALSE
INVARIANT NoClientKilled
PROPERTIES
    EventuallyStops
    EveryClientServed
CHECK_DEADLOCK FALSE
