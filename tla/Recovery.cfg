SPECIFICATION RecSpec
CONSTANTS
    Slots = 7
    N = 2
    First = 1
    MaxProbes = 3
    MaxFaults = 2
    Offset <- MCOffset
    Drives <- AllDrives
    Media <- MCMedia
    Modes <- MCModes
    Folds <- MCFolds
INVARIANTS
    ReplayRestores
PROPERTY ReplayNeverHarms
CHECK_DEADLOCK FALSE
