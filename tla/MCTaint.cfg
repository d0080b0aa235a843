SPECIFICATION Spec
CONSTANTS
    Kinds <- MCKinds
    SourceOf <- MCSourceOf
    Clears <- MCClears
    SinkOf <- MCSinkOf
    Programs <- MCPrograms
    Reported <- Flows
    MaxCalls = 2
    MaxDepth = 4
    MaxObjects = 4
INVARIANTS FlowsAreReported ReportsAreReal
CHECK_DEADLOCK FALSE
