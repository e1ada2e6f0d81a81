SPECIFICATION Spec
CONSTANT Requests <- MCRequests
INVARIANTS
    TypeOK
    WellPlaced
    LastSlotCovered
    FoldsCollide
    ClosestToCount
CHECK_DEADLOCK FALSE
