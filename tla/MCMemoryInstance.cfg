SPECIFICATION Spec
CONSTANTS
    OffsetBits = 4
    MemoryPageSizeInBits = 2
    MaxPages = 3
    MaxWrites = 1
    Offsets = {0, 1, 4, 5, 9, 12, 15}
INVARIANT TypeOK
INVARIANT AccessWithinBuffer
INVARIANT CapacityIsBacked
INVARIANT HeldSliceStaysShared
PROPERTY GrowExtends
PROPERTY FailedCallChangesNothing
CHECK_DEADLOCK FALSE
