---------------------------- MODULE AnalysisManager ----------------------------
(***************************************************************************)
(* The analysis manager of analysis/manager.py: a registry of analyses     *)
(* with declared dependencies, evaluated lazily, once, and shared.         *)
(*                                                                         *)
(* A result is modelled by what it was computed from: the set of pairs     *)
(* <<input, version>> read on the way, where an input is an analysis the   *)
(* engine supplies with provide().  Version 0 of an input is the default   *)
(* its own compute() gives when nothing was provided.                      *)
(*                                                                         *)
(*   registry   the analyses registered so far                             *)
(*   cache      the cached results, a function whose domain is the set of  *)
(*              cached keys                                                *)
(*   computing  the manager's list of analyses under computation           *)
(*   frames     the Python stack of compute() calls in progress; it is     *)
(*              apart from computing, which the code maintains by hand     *)
(*   raising    an exception is propagating through the frames             *)
(*   version    the version of each input last provided                    *)
(*   aborted    register() raised CyclicDependencyError, which ends the    *)
(*              process                                                    *)
(***************************************************************************)
EXTENDS Naturals, Sequences, FiniteSets

CONSTANTS
    Analyses,       \* every analysis class
    FunctionLevel,  \* those computed once per function
    Functions,      \* the functions of the module
    NoFunction,     \* the function of a module-level key
    Requires,       \* Requires[a]: the analyses a declares it reads
    Inputs,         \* the module-level analyses the engine provides
    NoDefault,      \* the inputs whose compute() raises MissingInputError
    Passes,         \* the transformation passes
    Preserves,      \* Preserves[p]: the analyses whose results p keeps
    MaxVersion      \* bound: how often an input is provided

ASSUME ManagerAssumption ==
    /\ FunctionLevel \subseteq Analyses
    /\ Inputs \subseteq Analyses \ FunctionLevel
    /\ NoDefault \subseteq Inputs
    /\ NoFunction \notin Functions
    /\ Requires \in [Analyses -> SUBSET Analyses]
    /\ Preserves \in [Passes -> SUBSET Analyses]
    /\ MaxVersion \in Nat

VARIABLES registry, cache, computing, frames, raising, version, aborted
vars == <<registry, cache, computing, frames, raising, version, aborted>>

-----------------------------------------------------------------------------
(* Keys, results and the dependency DAG.                                   *)

\* A module-level analysis has one result, a function-level one a result per
\* function; _check_target refuses any other combination before it can be a key.
Keys == ((Analyses \ FunctionLevel) \X {NoFunction}) \cup (FunctionLevel \X Functions)
InputKey(i) == <<i, NoFunction>>
Reads == Inputs \X (0..MaxVersion)
Frame == [key : Keys, asked : SUBSET Keys, read : SUBSET Reads]

\* The transitive closure of requires, built one step of the pending list at a
\* time; no chain of distinct analyses is longer than their number.
Dependencies(a) ==
    LET reached[n \in 0..Cardinality(Analyses)] ==
            IF n = 0 THEN Requires[a]
            ELSE LET before == reached[n - 1] IN before \cup UNION {Requires[b] : b \in before}
    IN  reached[Cardinality(Analyses)]

AcyclicUnchecked(a) == TRUE

\* The depth-first visit from a meets no analysis already on its path.
Acyclic(a) == \A b \in Dependencies(a) \cup {a} : b \notin Dependencies(b)

-----------------------------------------------------------------------------
(* Operations.                                                             *)

Idle == frames = <<>> /\ ~raising /\ ~aborted
Running == frames # <<>> /\ ~raising
Top == frames[Len(frames)]
Pop(s) == SubSeq(s, 1, Len(s) - 1)

\* What get() checks before it looks at the cache: a registered analysis, and
\* one the analysis under computation declares.
Accepted(k) ==
    /\ k[1] \in registry
    /\ computing # <<>> => k[1] \in Requires[computing[Len(computing)]]

\* The frame that asked for k, if any, has asked for it; k's own frame starts.
Began(k, stack) == Append(stack, [key |-> k, asked |-> {}, read |-> {}])
Asked(stack, k, found) ==
    [stack EXCEPT ![Len(stack)].asked = @ \cup {k}, ![Len(stack)].read = @ \cup found]

Register(a) ==
    /\ Idle
    /\ a \notin registry
    /\ registry' = registry \cup {a}
    /\ aborted' = ~Acyclic(a)
    /\ UNCHANGED <<cache, computing, frames, raising, version>>

CallUncached(k) ==
    /\ Idle
    /\ Accepted(k)
    /\ computing' = Append(computing, k[1])
    /\ frames' = Began(k, frames)
    /\ UNCHANGED <<registry, cache, raising, version, aborted>>

\* get() called from outside any computation.  A cached result or a refused
\* request changes nothing.
Call(k) ==
    /\ Idle
    /\ Accepted(k)
    /\ k \notin DOMAIN cache
    /\ computing' = Append(computing, k[1])
    /\ frames' = Began(k, frames)
    /\ UNCHANGED <<registry, cache, raising, version, aborted>>

\* get() called by the compute() on top of the stack: refused, served from the
\* cache, or computed in a frame of its own.
Refused(k) ==
    /\ Running
    /\ k \notin Top.asked
    /\ ~Accepted(k)
    /\ raising' = TRUE
    /\ UNCHANGED <<registry, cache, computing, frames, version, aborted>>

Served(k) ==
    /\ Running
    /\ k \notin Top.asked
    /\ Accepted(k)
    /\ k \in DOMAIN cache
    /\ frames' = Asked(frames, k, cache[k])
    /\ UNCHANGED <<registry, cache, computing, raising, version, aborted>>

Computed(k) ==
    /\ Running
    /\ k \notin Top.asked
    /\ Accepted(k)
    /\ k \notin DOMAIN cache
    /\ computing' = Append(computing, k[1])
    /\ frames' = Began(k, Asked(frames, k, {}))
    /\ UNCHANGED <<registry, cache, raising, version, aborted>>

\* compute() returns: the analysis leaves the list, its result is cached and
\* becomes part of what the frame below has read.  An input computed here has
\* its default.
Result(frame) ==
    frame.read \cup (IF frame.key[1] \in Inputs THEN {<<frame.key[1], 0>>} ELSE {})

Handed(stack, found) ==
    IF stack = <<>> THEN stack ELSE [stack EXCEPT ![Len(stack)].read = @ \cup found]

Return ==
    /\ Running
    /\ Top.key[1] \notin NoDefault
    /\ computing' = Pop(computing)
    /\ frames' = Handed(Pop(frames), Result(Top))
    /\ cache' = [k \in DOMAIN cache \cup {Top.key} |->
                    IF k = Top.key THEN Result(Top) ELSE cache[k]]
    /\ UNCHANGED <<registry, raising, version, aborted>>

\* compute() raises, and the exception leaves one frame at a time: the finally
\* clause takes the analysis off the list and caches nothing.  The analysis
\* below may catch it, and the client that asked first always ends the
\* propagation.
Raise ==
    /\ Running
    /\ raising' = TRUE
    /\ UNCHANGED <<registry, cache, computing, frames, version, aborted>>

UnwindWithoutFinally ==
    /\ raising
    /\ frames # <<>>
    /\ frames' = Pop(frames)
    /\ raising' \in (IF Len(frames) = 1 THEN {FALSE} ELSE BOOLEAN)
    /\ UNCHANGED <<registry, cache, computing, version, aborted>>

Unwind ==
    /\ raising
    /\ frames # <<>>
    /\ computing' = Pop(computing)
    /\ frames' = Pop(frames)
    /\ raising' \in (IF Len(frames) = 1 THEN {FALSE} ELSE BOOLEAN)
    /\ UNCHANGED <<registry, cache, version, aborted>>

\* The cache with i's entry replaced by version v of it; nothing else is dropped.
Supplied(results, i, v) ==
    [k \in DOMAIN results \cup {InputKey(i)} |-> IF k = InputKey(i) THEN {<<i, v>>} ELSE results[k]]

Provide(i) ==
    /\ Idle
    /\ i \in registry
    /\ version[i] < MaxVersion
    /\ version' = [version EXCEPT ![i] = @ + 1]
    /\ cache' = Supplied(cache, i, version[i] + 1)
    /\ UNCHANGED <<registry, computing, frames, raising, aborted>>

\* The results a pass keeps.
Kept(results, p) ==
    [k \in {c \in DOMAIN results : c[1] \in Preserves[p]} |-> results[k]]

Run(p) ==
    /\ Idle
    /\ cache' = Kept(cache, p)
    /\ UNCHANGED <<registry, computing, frames, raising, version, aborted>>

-----------------------------------------------------------------------------

Init ==
    /\ registry = {}
    /\ cache = <<>>
    /\ computing = <<>>
    /\ frames = <<>>
    /\ raising = FALSE
    /\ version = [i \in Inputs |-> 0]
    /\ aborted = FALSE

\* One step of an evaluation in progress.
Evaluate ==
    \/ \E k \in Keys : Refused(k) \/ Served(k) \/ Computed(k)
    \/ Return
    \/ Raise
    \/ Unwind

Next ==
    \/ \E a \in Analyses : Register(a)
    \/ \E k \in Keys : Call(k)
    \/ \E i \in Inputs : Provide(i)
    \/ \E p \in Passes : Run(p)
    \/ Evaluate

Spec == Init /\ [][Next]_vars

-----------------------------------------------------------------------------
(* Properties.                                                             *)

TypeOK ==
    /\ registry \subseteq Analyses
    /\ cache \in [DOMAIN cache -> SUBSET Reads]
    /\ DOMAIN cache \subseteq Keys
    /\ computing \in Seq(Analyses)
    /\ frames \in Seq(Frame)
    /\ raising \in BOOLEAN
    /\ version \in [Inputs -> 0..MaxVersion]
    /\ aborted \in BOOLEAN

\* The list the dependency check reads is the stack of computations really in
\* progress, whatever was raised and caught on the way: get() neither refuses a
\* declared dependency nor lets an undeclared one through.
ComputingIsTheStack ==
    /\ Len(computing) = Len(frames)
    /\ \A n \in 1..Len(frames) : computing[n] = frames[n].key[1]

\* No result is computed while it is already being computed: a request can only
\* go down the DAG of declared dependencies, so evaluation cannot recurse for ever.
NoReentry ==
    \A m, n \in 1..Len(frames) : frames[m].key = frames[n].key => m = n

\* A computed result is shared as long as it is cached: only a provided input is
\* ever overwritten, every other entry stays as it is until a pass drops it.
ResultsAreShared ==
    [][\A k \in DOMAIN cache \cap DOMAIN cache' :
          cache'[k] = cache[k] \/ \E i \in Inputs : k = InputKey(i) /\ version'[i] # version[i]]_vars
=============================================================================
