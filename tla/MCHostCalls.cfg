SPECIFICATION Spec
CONSTANTS
    MaxCalls = 2
INVARIANT LoggedExactlyInScope
CHECK_DEADLOCK FALSE
