SPECIFICATION Spec
CONSTANTS
    Drives <- MCDrives
    Attr <- MCAttr
    Requests <- MCRequests
    Paths <- MCPaths
    MaxCommands = 3
    MaxEvents = 2
INVARIANTS
    TypeOK
    NothingMissingUnlogged
    WritesAreConsented
    RefusalsHold
    ReplayFits
    AlignedToDrive
CHECK_DEADLOCK FALSE
