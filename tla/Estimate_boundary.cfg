SPECIFICATION EstSpec
CONSTANTS
    Slots = 8
    N = 2
    First = 1
    MaxProbes = 3
    MaxFaults = 1
    Offset <- MCOffset
    Drives <- AllDrives
    Media <- MCMedia
    Modes <- MCModes
    Folds <- MCFolds
INVARIANT SearchFindsBoundary
CHECK_DEADLOCK FALSE
