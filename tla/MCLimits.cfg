SPECIFICATION Spec
CONSTANT Inputs <- MCInputs
INVARIANT AcceptsOnlyLimits
INVARIANT ErrorIsFirstFailure
CHECK_DEADLOCK FALSE
