SPECIFICATION Spec
CONSTANTS
    Threads = {1, 2}
    Packages <- MCPackages
    Entries <- MCEntries
    Under <- MCUnder
    Units <- MCUnits
    UnitsOf <- MCUnitsOf
    Wanted <- MCWanted
    RequestsOf <- MCMeeting
    Fallible = {}
    MaxJobs = 2
    None = None
PROPERTY NoOverwrite
CHECK_DEADLOCK FALSE
