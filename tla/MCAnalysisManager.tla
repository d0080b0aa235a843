--------------------------- MODULE MCAnalysisManager ---------------------------
(* A small DAG: one input, read by a function-level analysis and directly by   *)
(* the module-level one above it, and two analyses that require each other.    *)
EXTENDS AnalysisManager

CONSTANTS Models, Flow, Report, Left, Right, f1, f2, Rewrite

MCAnalyses == {Models, Flow, Report, Left, Right}
MCFunctionLevel == {Flow}
MCFunctions == {f1, f2}
MCRequires ==
    [a \in MCAnalyses |-> CASE a = Flow -> {Models}
                            [] a = Report -> {Flow, Models}
                            [] a = Left -> {Right}
                            [] a = Right -> {Left}
                            [] OTHER -> {}]
MCInputs == {Models}
MCNoDefault == {}
MCPasses == {Rewrite}
MCPreserves == [p \in MCPasses |-> {Models, Left}]
=============================================================================
