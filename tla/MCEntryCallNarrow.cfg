SPECIFICATION Spec
CONSTANT Signatures <- NarrowSignatures
INVARIANT NarrowResultsZeroExtended
CONSTANT Frames <- MCLeafFrame
CHECK_DEADLOCK FALSE
