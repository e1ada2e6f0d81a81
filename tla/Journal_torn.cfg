SPECIFICATION Spec
CONSTANTS
    DataLen = 2
    MaxRecords = 3
INVARIANT TornTailIsDropped
CHECK_DEADLOCK FALSE
