CONSTANTS
    Files <- MCFiles
    MaxFiles = 5
    MaxCells = 9
    MaxFailures = 1
    None = None
    Null = Null
    Entries <- MCEntries
    Packdir = "pack"
    Parent <- MCParent
    Mode <- MCMode
    DirType <- MCDirType
    Names <- MCNames
    At <- MCAt
    InHtdocs <- MCInHtdocs
    Orders <- MCOrders
    Manifests <- MCManifests
    Environs <- MCEnvirons
    MaxFaults = 1
    Threads = {t1, t2}
    Template <- MCTemplate
    Parts <- MCParts
    MaxUnitFaults = 1
    Nothing = Nothing
    Auths <- MCAuths
    Perms = {"p", "q"}
    Height <- MCHeight
    StackDepth = 3
    Domains = {"d", "e"}
    Worlds <- MCWorlds
    NoExt = NoExt
    Files0 = {"f", "g"}
    Author = "author"
    Distributors = {"one"}
    Certs = {"grants", "nothing", "unknown"}
    GrantsOf <- MCGrantsOf
    Trusted = {"grants", "nothing"}
    MaxEdits = 5
    MaxReadFaults = 1
    Absent = Absent
SPECIFICATION MCSpec
INVARIANTS
    TreeSound ManifestHonoured SplitExact FieldsReadBack AuthDecides RightsFaithful ChecksExact
PROPERTIES ImplementsPathSet
CHECK_DEADLOCK FALSE
