SPECIFICATION Spec
CONSTANTS
    NeighborLimit = 1
    NearLimit = 1
    ScanLimit = 2
    MaxNow = 7
INVARIANTS SliceIsContiguous QuietSlicesHideNothing
PROPERTIES NearMissesAreOld
CHECK_DEADLOCK FALSE
