SPECIFICATION FairSpec
CONSTANTS
    r1 = r1
    r2 = r2
    None = None
    Bad = Bad
    Requests <- MCRequests
    Calls <- MCLongCalls
    UnitFiles = {"fixed", "peruser"}
    InitialDisks <- MCDisks
    MaxFails = 0
    Changes <- MCChanges
    MaxChanges = 1
    Paths <- MCPaths
    Booted <- MCBooted
    Pids = {1, 2}
    BusFails = TRUE
    IdOf <- MCIdOf
    Fold <- MCFold
    Parametric = {"peruser"}
    Uids = {1, 2}
    MemoryFails = TRUE
    Trials = 2
PROPERTY EveryRequestReplied
CHECK_DEADLOCK FALSE
