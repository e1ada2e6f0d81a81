SPECIFICATION Spec
CONSTANTS
    Claims <- MCClaims
    SampleSize = 4
    BlockSize = 2
    Mebi = 4
    Gibi = 32
    Giga = 30
    Multiples = 4
    MaxCandidates = 8
    MaxFaults = 1
INVARIANTS
    OnlyFoldsAreReported
    CandidateFoldsAreCaught
    GigabyteFoldsAreCaught
CHECK_DEADLOCK FALSE
