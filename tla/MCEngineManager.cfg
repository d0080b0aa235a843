SPECIFICATION EngineSpec
CONSTANTS
    f = f
    NoFunction = NoFunction
    Analyses <- MCAnalyses
    FunctionLevel <- MCFunctionLevel
    Functions <- MCFunctions
    Requires <- MCRequires
    Inputs <- MCInputs
    NoDefault <- MCNoDefault
    Passes <- MCPasses
    Preserves <- MCPreserves
    MaxVersion = 3
    ConfigurationInputs <- MCConfigurationInputs
    ProjectInputs <- MCProjectInputs
    TableAnalyses <- MCTableAnalyses
    ProjectSummaries = "ProjectSummaries"
    CallGraph = "CallGraph"
    Summary = "Summary"
    Updated = "updated"
    Evicted = "evicted"
INVARIANTS
    Fresh
    SettledSummariesServe
CHECK_DEADLOCK FALSE
