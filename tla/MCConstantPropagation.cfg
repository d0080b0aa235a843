SPECIFICATION Spec
CONSTANTS
    Problems <- MCPrograms
    Blocks <- MCBlocks
    Entry = 0
    Initial <- MCInitial
    Starts <- MCStarts
    Flow <- ConstantFlow
    Ages = 1
    Constants = {"zero", "one", "false", "true", "nan", "large"}
    Truthy = {"one", "true", "nan", "large"}
    NotANumbers = {"nan"}
    Unshared = {"large"}
INVARIANTS
    SettledBlocksAgree
    ConstantsSound
PROPERTY
    SolverEnds
CHECK_DEADLOCK FALSE
