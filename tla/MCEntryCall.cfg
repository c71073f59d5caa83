SPECIFICATION Spec
CONSTANT Signatures <- MCSignatures
INVARIANT TypeOK
INVARIANT ArgsAtABILocations
INVARIANT ResultsInSlice
INVARIANT GoStateRestored
INVARIANT NoStrayAccess
INVARIANT CalleeSavedRestored
CONSTANT Frames <- MCFrames
CHECK_DEADLOCK FALSE
