SPECIFICATION Spec
CONSTANTS
    DataLen = 2
    MaxRecords = 3
INVARIANTS
    TypeOK
    NothingSavedIsLost
    SavedAreIntact
    TornRecordIsDropped
CHECK_DEADLOCK FALSE
