SPECIFICATION Spec
CONSTANTS
    Models = Models
    Flow = Flow
    Report = Report
    Left = Left
    Right = Right
    f1 = f1
    f2 = f2
    Rewrite = Rewrite
    NoFunction = NoFunction
    Analyses <- MCAnalyses
    FunctionLevel <- MCFunctionLevel
    Functions <- MCFunctions
    Requires <- MCRequires
    Inputs <- MCInputs
    NoDefault <- MCNoDefault
    Passes <- MCPasses
    Preserves <- MCPreserves
    MaxVersion = 2
INVARIANTS
    ComputingIsTheStack
    NoReentry
PROPERTY
    ResultsAreShared
CHECK_DEADLOCK FALSE
