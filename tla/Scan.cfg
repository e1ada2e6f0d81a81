SPECIFICATION FairSpec
CONSTANTS
    Slots = 6
    N = 3
    MaxFaults = 2
    Offset <- MCOffset
    Drives <- AllDrives
    Media <- MCMedia
    Modes <- AllModes
    Folds <- MCFolds
INVARIANTS
    TypeOK
    Recoverable
    DiscardOnlyWhenClean
    CleanUnlessReported
    NoFalsePass
    VerdictsAreJust
    FoldReportIsReal
    HonestPasses
PROPERTIES
    ImplementsUndoLog
    WrittenIsRestored
CHECK_DEADLOCK FALSE
