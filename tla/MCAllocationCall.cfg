SPECIFICATION Spec
CONSTANTS
    Ptrs = {8, 16, 24, 32}
    InRange = {8, 16, 24}
    MaxIterations = 3
INVARIANT NothingLeftAllocated
INVARIANT FailsOnlyWhenGuestFails
CHECK_DEADLOCK FALSE
