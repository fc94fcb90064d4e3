SPECIFICATION Spec
CONSTANTS
    c1 = c1
    c2 = c2
    c3 = c3
    c4 = c4
    t1 = t1
    Clients = {c1, c2, c3, c4}
    RootClients = {c1, c2, c3}
    TransIds = {t1}
    None = None
    Requests <- MCTransRequests
    Retention = 1
    UIntMod = 16
    RunForever = FALSE
    Strict = TRUE
    SystemErrors = TRUE
INVARIANTS
    LivingExact
    StopsIdle
    AnswerTruthful
    SuccessToldOnce
SYMMETRY MCSymmetry
CHECK_DEADLOCK FALSE
