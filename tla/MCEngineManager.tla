---------------------------- MODULE MCEngineManager ----------------------------
(* The engine's own tables, restricted to one function and to a part of the    *)
(* DAG that holds every kind of input and of dependant.                        *)
EXTENDS EngineManager, TLC

-----------------------------------------------------------------------------
(* The analyses of the engine and what each declares it requires, by package,*)
(* and what the passes it runs preserve.                                   *)

SemanticRequires ==
    [a \in {"Scope", "Members"} |-> {}]
    @@ ("Import" :> {"Scope"})
    @@ ("Symbol" :> {"Scope", "Import", "Members"})

SEMANTIC_ANALYSES == DOMAIN SemanticRequires

CfgRequires ==
    ("CFG" :> {}) @@ [a \in {"Dominance", "PostDominance"} |-> {"CFG"}]

IrRequires ==
    ("PyIR" :> {"Scope", "Symbol", "CFG"})
    @@ ("ModuleIR" :> {"PyIR"})
    @@ ("SSA" :> {"PyIR", "Dominance"})
    @@ ("DefUse" :> {"SSA"})

AbstractRequires ==
    [a \in {"Constants", "Ranges"} |-> {"SSA", "CFG"}]
    @@ [a \in {"ModuleStrings", "ModuleCollections"} |-> {"PyIR"}]
    @@ ("Heap" :> {"SSA"})

CallGraphRequires ==
    ("CallGraph" :> {"SSA", "Scope", "Symbol", "Signatures", "Dominance"}) @@ ("Signatures" :> {})

SummaryRequires ==
    ("Summary" :> {"CallGraph", "SSA", "CFG", "Constants", "ProjectSummaries", "Heap", "Clearing", "TemplateCalls"})
    @@ [a \in {"ProjectSummaries", "Clearing", "TemplateCalls"} |-> {}]

TaintRequires ==
    ("Taint" :> {"SSA", "CFG", "SecurityModel", "CallGraph", "Summary", "Scope", "Symbol", "ProjectSummaries",
                 "Heap", "RegisteredRoutes", "EscapedTemplates", "TemplateCalls"})
    @@ ("EntryPoint" :> {"CallGraph", "SecurityModel", "Scope", "Symbol", "Summary", "ProjectSummaries",
                         "RegisteredRoutes"})

ModelRequires ==
    [a \in {"SecurityModel", "RegisteredRoutes", "EscapedTemplates", "Dependency"} |-> {}]

RefutationRequires ==
    "Refutation" :> {"Taint", "Dominance", "Constants", "Ranges", "SSA", "CFG", "SecurityModel", "CallGraph",
                     "Scope", "Symbol", "ModuleCollections"}

RequiresTable ==
    SemanticRequires @@ CfgRequires @@ IrRequires @@ AbstractRequires @@ CallGraphRequires
    @@ SummaryRequires @@ TaintRequires @@ ModelRequires @@ RefutationRequires

ALL_ANALYSES == DOMAIN RequiresTable

\* FunctionAnalysis subclasses: one result per function.
FUNCTION_ANALYSES ==
    {"CFG", "Dominance", "PostDominance", "PyIR", "SSA", "DefUse", "Constants", "Ranges", "Heap", "Taint", "Refutation"}

PROJECT_DEPENDANTS == {"ProjectSummaries", "Summary", "Taint", "EntryPoint", "Refutation"}

ProjectSummariesUpdated == ALL_ANALYSES \ PROJECT_DEPENDANTS

ResultsEvicted ==
    SEMANTIC_ANALYSES
    \cup {"SecurityModel", "ProjectSummaries", "Dependency", "RegisteredRoutes", "EscapedTemplates",
          "Clearing", "TemplateCalls", "Signatures"}

-----------------------------------------------------------------------------
(* The restricted engine.                                                  *)

CONSTANT f

MCAnalyses ==
    {"Symbol", "SecurityModel", "RegisteredRoutes", "EscapedTemplates", "ProjectSummaries", "SSA", "CallGraph",
     "Summary", "Taint", "EntryPoint"}
MCFunctionLevel == MCAnalyses \cap FUNCTION_ANALYSES
MCFunctions == {f}
MCRequires == [a \in MCAnalyses |-> RequiresTable[a] \cap MCAnalyses]
MCConfigurationInputs == {"SecurityModel"}
MCProjectInputs == {"RegisteredRoutes", "EscapedTemplates"}
MCInputs == MCConfigurationInputs \cup MCProjectInputs \cup {"ProjectSummaries"}
MCNoDefault == {"SecurityModel"}
MCPasses == {"updated", "evicted"}
MCPreserves == ("updated" :> ProjectSummariesUpdated \cap MCAnalyses) @@ ("evicted" :> ResultsEvicted \cap MCAnalyses)
MCTableAnalyses == {"Symbol", "SecurityModel"}

\* The tables of the whole engine are closed as those of the restricted one are
\* assumed to be.
ClosedIn(S) == \A a \in S : RequiresTable[a] \subseteq S
ASSUME EngineTables ==
    /\ \A a \in ALL_ANALYSES : RequiresTable[a] \subseteq ALL_ANALYSES
    /\ ClosedIn(ProjectSummariesUpdated)
    /\ ClosedIn(ResultsEvicted)
    /\ ClosedIn(SEMANTIC_ANALYSES \cup {"SecurityModel", "Signatures", "Dependency"})
    /\ SEMANTIC_ANALYSES \cup {"SecurityModel", "Signatures", "Dependency", "RegisteredRoutes",
                              "EscapedTemplates", "Clearing", "TemplateCalls", "CallGraph"}
         \subseteq ProjectSummariesUpdated
    /\ {"SecurityModel", "Members", "Signatures", "Dependency", "RegisteredRoutes", "EscapedTemplates", "Clearing",
        "TemplateCalls", "ProjectSummaries"} \subseteq ResultsEvicted
=============================================================================
