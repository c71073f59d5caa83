SPECIFICATION Spec
CONSTANTS
    Goroutines = {g1, g2, g3}
    Main = main
INVARIANT TypeOK
INVARIANT PinnedCallsExit
INVARIANT NoCallInsideReleasedCode
INVARIANT NewCallRunsInCurrentInstances
INVARIANT NothingLeftMapped
PROPERTY TestPasses
PROPERTY CallOutcomeSpec
CHECK_DEADLOCK FALSE
