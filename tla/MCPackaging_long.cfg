CONSTANTS
    Sets = {"s1", "s2"}
    Elements <- MCElements
    Buffer0 = 10
    FlagChoices <- MCFlagChoices
    Transid = TRUE
    MaxFaults = 1
    None = None
    UnitFiles = {"u1", "u2"}
    InitialDisks <- MCDisks
    Changes <- MCChanges
    MaxChanges = 3
    MaxFails = 2
    Ids = {"a", "b"}
    Temps <- MCTemps
    WgtPerms = {"p", "q"}
    DefaultPerm = "valid"
    Packages <- MCPackages
    Void = Void
    MaxOps = 3
    MaxTroubles = 2
    Transactions <- MCTransactions
    UnpackMayFail = FALSE
    Plain = {"f", "g"}
    AuthorFile = "author"
    SigFiles <- MCSigFiles
    MaxWritings = 5
SPECIFICATION MCSpec
INVARIANT StartsWithBegin
CHECK_DEADLOCK FALSE
