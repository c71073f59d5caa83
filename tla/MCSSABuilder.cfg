SPECIFICATION Spec
CONSTANTS
    NumBlocks = 4
    NumVariables = 2
    MaxValues = 10
CONSTRAINT OneVariableInTheLargest
INVARIANT TypeOK
INVARIANT BranchArgsMatchParams
INVARIANT ValuesStandForReachingDefinitions
INVARIANT DefinitionsDominateUses
CHECK_DEADLOCK FALSE
