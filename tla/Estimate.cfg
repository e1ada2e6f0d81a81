SPECIFICATION EstSpec
CONSTANTS
    Slots = 8
    N = 2
    First = 1
    MaxProbes = 3
    MaxFaults = 2
    Offset <- MCOffset
    Drives <- AllDrives
    Media <- MCMedia
    Modes <- MCModes
    Folds <- MCFolds
INVARIANTS
    EstTypeOK
    ProbesAreRecorded
    ProbesLeaveNoTrace
    EstimateBrackets
CHECK_DEADLOCK FALSE
