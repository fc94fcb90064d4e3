SPECIFICATION Spec
CONSTANTS
    Threads = {1, 2}
    Packages <- MCPackages
    Entries <- MCEntries
    Under <- MCUnder
    Units <- MCUnits
    UnitsOf <- MCUnitsOf
    Wanted <- MCWanted
    RequestsOf <- MCApart
    Fallible = {"detect", "manifest", "meta", "begin", "prepare", "security",
                "units", "write", "link", "unlink", "commit", "default"}
    MaxJobs = 3
    None = None
INVARIANTS
    HandleReleased
    AnswerHolds
    FailedInstallRestores
    RemovalWasWhole
PROPERTY NoOverwrite
CHECK_DEADLOCK FALSE
