----------------------------- MODULE EngineManager -----------------------------
(***************************************************************************)
(* The life of one module's analysis manager in engine.py: the order in    *)
(* which analyze_project and _analyse_managers provide the engine's        *)
(* inputs, ask for results and run passes, over the manager of             *)
(* AnalysisManager.                                                        *)
(*                                                                         *)
(*   pc   where the engine is with this manager:                           *)
(*        "inputs"   providing what the configuration gives                *)
(*        "tables"   asking for imports, scopes and symbols                *)
(*        "project"  providing what all the modules together give          *)
(*        "start"    asking for the call graph, then seeding the index     *)
(*        "iterate"  the summary fixpoint of the module's component        *)
(*        "check"    plugins and extraction                                *)
(*        "evicted"  results dropped; project plugins may still ask        *)
(*        "excluded" the module's imports could not be resolved            *)
(*        "failed"   an exception nothing in the engine catches            *)
(***************************************************************************)
EXTENDS AnalysisManager

CONSTANTS
    ConfigurationInputs,  \* provided before any module is looked at
    ProjectInputs,        \* provided once every module's tables are known
    TableAnalyses,        \* what may be asked for between the two
    ProjectSummaries,     \* the index input, provided anew by each iteration
    CallGraph, Summary,   \* the analyses the fixpoint reads
    Updated, Evicted      \* the passes ProjectSummariesUpdated, ResultsEvicted

\* A set of analyses that can be computed without reading anything outside it.
Closed(S) == \A a \in S : Requires[a] \subseteq S

ASSUME EngineAssumption ==
    /\ ConfigurationInputs \subseteq Inputs
    /\ ProjectInputs \subseteq Inputs
    /\ TableAnalyses \subseteq Analyses
    /\ ConfigurationInputs \cap ProjectInputs = {}
    /\ ProjectSummaries \in Inputs \ (ConfigurationInputs \cup ProjectInputs)
    /\ Inputs = ConfigurationInputs \cup ProjectInputs \cup {ProjectSummaries}
    /\ {CallGraph, Summary} \subseteq Analyses \ FunctionLevel
    /\ {Updated, Evicted} \subseteq Passes
    /\ MaxVersion >= 1

\* What the engine's tables owe its passes.  The summaries read the index; the tables
\* asked for early cannot read a project-wide input; what survives an update of the
\* index cannot read the index; the call graph, asked for before the index is seeded, survives; and
\* no pass drops an input that is not provided again at once.
ASSUME TablesAssumption ==
    /\ ProjectSummaries \in Requires[Summary]
    /\ Closed(TableAnalyses)
    /\ TableAnalyses \cap (ProjectInputs \cup {ProjectSummaries}) = {}
    /\ Closed(Preserves[Updated])
    /\ ProjectSummaries \notin Preserves[Updated]
    /\ CallGraph \in Preserves[Updated]
    /\ ConfigurationInputs \subseteq TableAnalyses
    /\ TableAnalyses \cup ProjectInputs \subseteq Preserves[Updated]
    /\ Inputs \subseteq Preserves[Evicted]

VARIABLE pc
engineVars == <<registry, cache, computing, frames, raising, version, aborted, pc>>

-----------------------------------------------------------------------------

\* Every analysis is registered by _register_all before anything else happens.
EngineInit ==
    /\ registry = Analyses
    /\ cache = <<>>
    /\ computing = <<>>
    /\ frames = <<>>
    /\ raising = FALSE
    /\ version = [i \in Inputs |-> 0]
    /\ aborted = FALSE
    /\ pc = "inputs"

ProvideConfiguration(i) ==
    /\ pc = "inputs"
    /\ i \in ConfigurationInputs
    /\ version[i] = 0
    /\ Provide(i)
    /\ UNCHANGED pc

AskForTables(k) ==
    /\ pc = "inputs"
    /\ \A i \in ConfigurationInputs : version[i] = 1
    /\ k[1] \in TableAnalyses
    /\ Call(k)
    /\ pc' = "tables"

AskForMoreTables(k) ==
    /\ pc = "tables"
    /\ k[1] \in TableAnalyses
    /\ Call(k)
    /\ UNCHANGED pc

ProvideProject(i) ==
    /\ pc \in {"tables", "project"}
    /\ i \in ProjectInputs
    /\ version[i] = 0
    /\ Provide(i)
    /\ pc' = "project"

AskForCallGraph ==
    /\ pc = "project"
    /\ \A i \in ProjectInputs : version[i] = 1
    /\ Call(<<CallGraph, NoFunction>>)
    /\ pc' = "start"

\* The index starts from the summaries every function starts from.
SeedIndex ==
    /\ pc = "start"
    /\ <<CallGraph, NoFunction>> \in DOMAIN cache
    /\ Provide(ProjectSummaries)
    /\ pc' = "iterate"

AskForSummaries ==
    /\ pc = "iterate"
    /\ Call(<<Summary, NoFunction>>)
    /\ UNCHANGED pc

UpdateIndexFirst ==
    /\ pc = "iterate"
    /\ Idle
    /\ <<Summary, NoFunction>> \in DOMAIN cache
    /\ version[ProjectSummaries] < MaxVersion
    /\ version' = [version EXCEPT ![ProjectSummaries] = @ + 1]
    /\ cache' = Kept(Supplied(cache, ProjectSummaries, version[ProjectSummaries] + 1), Updated)
    /\ UNCHANGED <<registry, computing, frames, raising, aborted, pc>>

\* The index changed: everything that read it is dropped, then the new one is
\* provided, in one uninterrupted pair of calls.
UpdateIndex ==
    /\ pc = "iterate"
    /\ Idle
    /\ <<Summary, NoFunction>> \in DOMAIN cache
    /\ version[ProjectSummaries] < MaxVersion
    /\ version' = [version EXCEPT ![ProjectSummaries] = @ + 1]
    /\ cache' = Supplied(Kept(cache, Updated), ProjectSummaries, version[ProjectSummaries] + 1)
    /\ UNCHANGED <<registry, computing, frames, raising, aborted, pc>>

SettleAfterUpdate ==
    /\ pc = "iterate"
    /\ Idle
    /\ <<Summary, NoFunction>> \in DOMAIN cache
    /\ pc' = "check"
    /\ cache' = Kept(cache, Updated)
    /\ UNCHANGED <<registry, computing, frames, raising, version, aborted>>

\* The index is what it was: the component's summaries are final.
Settle ==
    /\ pc = "iterate"
    /\ Idle
    /\ <<Summary, NoFunction>> \in DOMAIN cache
    /\ pc' = "check"
    /\ UNCHANGED vars

AskWhileChecking(k) ==
    /\ pc = "check"
    /\ Call(k)
    /\ UNCHANGED pc

Evict ==
    /\ pc = "check"
    /\ Run(Evicted)
    /\ pc' = "evicted"

\* A project plugin reads a module's imports, or a call graph the run did not keep.
AskAfterwards(k) ==
    /\ pc = "evicted"
    /\ k[1] \in TableAnalyses \cup {CallGraph}
    /\ Call(k)
    /\ UNCHANGED pc

\* The evaluation goes on; when an exception reaches the engine, what it catches
\* depends on what it had asked for.
Continue ==
    /\ Evaluate
    /\ pc' = IF raising /\ Len(frames) = 1
             THEN CASE pc = "tables" -> "excluded"
                    [] pc = "check" -> pc          \* an unsupported function is noted
                    [] OTHER -> "failed"
             ELSE pc

\* A plugin's exception, or one of the extraction, is not caught.
Fail ==
    /\ pc = "check"
    /\ Idle
    /\ pc' = "failed"
    /\ UNCHANGED vars

EngineNext ==
    \/ pc \notin {"excluded", "failed"} /\
        \/ \E i \in Inputs : ProvideConfiguration(i) \/ ProvideProject(i)
        \/ \E k \in Keys : AskForTables(k) \/ AskForMoreTables(k) \/ AskWhileChecking(k) \/ AskAfterwards(k)
        \/ AskForCallGraph \/ SeedIndex \/ AskForSummaries \/ UpdateIndex \/ Settle
        \/ Evict \/ Fail
    \/ Continue

EngineSpec == EngineInit /\ [][EngineNext]_engineVars

-----------------------------------------------------------------------------
(* Properties.                                                             *)

EngineTypeOK ==
    /\ TypeOK
    /\ pc \in {"inputs", "tables", "project", "start", "iterate", "check", "evicted", "excluded", "failed"}

\* What an analysis read is what the engine last provided, for every cached
\* result and for every computation in progress: no result outlives the input it
\* was computed from, and none was computed from the default of an input that is
\* provided later.
Current(found) == \A r \in found : r[2] = version[r[1]]
Fresh ==
    /\ \A k \in DOMAIN cache : Current(cache[k])
    /\ \A n \in 1..Len(frames) : Current(frames[n].read)

\* The plugins and the extraction are given the summaries the fixpoint ended with: the last
\* iteration leaves them cached, with what they read of the index it ended on, whatever the
\* engine asked for or caught since; and nothing computes them again, then or when project
\* plugins ask after they are dropped.
SettledSummariesServe ==
    LET summaries == <<Summary, NoFunction>>
    IN  /\ pc = "check" => summaries \in DOMAIN cache /\ Current(cache[summaries])
        /\ pc \in {"check", "evicted"} => \A n \in 1..Len(frames) : frames[n].key # summaries
=============================================================================
