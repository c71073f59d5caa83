SPECIFICATION Spec
CONSTANTS
    MaxNodes = 4
    MemoryNodes <- LoadsAt
    JumpNodes <- ProgramJumps
    AdrNodes <- ProgramAdrs
    ConstNodes <- ProgramConsts
    AdrOffsetBits = 5
CONSTRAINT TableLoadsStandAlone
INVARIANT OffsetCoverage
INVARIANT ShortestEncoding
INVARIANT AdrReadsAddressAfterTarget
INVARIANT AssembleFailsExactlyOnBug
