SPECIFICATION Spec
CONSTANTS
    Goroutines = {g1, g2, g3}
    Main = main
INVARIANT PinnedCallsReturnModuleClosedError
CHECK_DEADLOCK FALSE
