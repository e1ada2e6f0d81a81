SPECIFICATION Spec
CONSTANTS
    Drives <- MCDrives
    Attr <- MCAttr
    Requests <- MCRequests
    Paths <- MCPaths
    MaxCommands = 3
    MaxEvents = 2
INVARIANT
    TypedBeforeWriting
CHECK_DEADLOCK FALSE
