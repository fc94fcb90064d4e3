CONSTANTS
    Ids = {"a"}
    Temps <- MCTemps
    WgtPerms = {"p"}
    DefaultPerm = "valid"
    Packages <- MCPackages
    Void = Void
    MaxOps = 1
    MaxTroubles = 0
SPECIFICATION ToolSpec
INVARIANT FailureUndone
CHECK_DEADLOCK FALSE
