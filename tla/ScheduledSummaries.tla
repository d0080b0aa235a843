-------------------------- MODULE ScheduledSummaries --------------------------
(***************************************************************************)
(* The modules of a project are scheduled by their imports, and analysed   *)
(* component by component, one wave after the other (analyze_project):     *)
(* what a component reads of the others must be final when it begins.      *)
(*                                                                         *)
(* The summaries of one component of modules that import one another:      *)
(* SummaryAnalysis iterates over the functions of a module until its table *)
(* settles, reading the other modules' summaries in an index, and          *)
(* _analyse_managers iterates over the modules until the index settles.    *)
(*                                                                         *)
(* A summary is what a function's result depends on: its parameter or not, *)
(* the taint kinds cleared on every path from it, and the external symbols *)
(* whose results it may hold.  A function has one parameter; its body is   *)
(* a set of paths, each of which starts from the parameter or from nothing *)
(* and goes through calls.                                                 *)
(*                                                                         *)
(*   bodies   the code                                                     *)
(*   members  the modules of the component, none before one is begun       *)
(*   index    the summaries they read: those of the modules they import,   *)
(*            final, and their own                                         *)
(*   table    the tables of the members, as far as the pass has got        *)
(*   module   the module whose table is being computed                     *)
(*   left     its functions that the round has not summarized yet          *)
(*   changed  whether the round has changed its table                      *)
(*   settled  the last pass has left the index as it was                   *)
(***************************************************************************)
EXTENDS Naturals, Sequences, FiniteSets, FiniteSetsExt, Functions

CONSTANTS
    Functions,    \* the functions, numbered in the order of the code
    Modules,      \* numbered in the order of their names
    ModuleOf,     \* ModuleOf[f]: the module f is in
    Unsupported,  \* the functions that cannot be lowered
    Externals,    \* symbols outside the project
    Kinds,        \* taint kinds
    Clears        \* Clears[e]: the kinds a call of e clears

ASSUME FixpointAssumption ==
    /\ Functions \subseteq Nat /\ IsFiniteSet(Functions)
    /\ Modules \subseteq Nat /\ IsFiniteSet(Modules)
    /\ ModuleOf \in [Functions -> Modules]
    /\ Unsupported \subseteq Functions
    /\ Externals \cap Functions = {} /\ IsFiniteSet(Externals) /\ IsFiniteSet(Kinds)
    /\ Clears \in [Externals -> SUBSET Kinds]

VARIABLES bodies, members, index, table, module, left, changed, settled
fixpointVars == <<members, index, table, module, left, changed, settled>>

-----------------------------------------------------------------------------
(* Dependencies.                                                           *)

\* The names of functions count as external symbols where no summary of them is known.
Dep == [parameter : BOOLEAN, cleared : SUBSET Kinds, externals : SUBSET (Externals \cup Functions)]
Nothing == [parameter |-> FALSE, cleared |-> {}, externals |-> {}]
Parameter == [Nothing EXCEPT !.parameter = TRUE]

\* What depends on the parameter on both sides keeps what both paths cleared.
Or(d, e) ==
    [parameter |-> d.parameter \/ e.parameter,
     cleared |-> IF d.parameter /\ e.parameter THEN d.cleared \cap e.cleared
                 ELSE d.cleared \cup e.cleared,
     externals |-> d.externals \cup e.externals]

Clearing(d, kinds) == IF d.parameter THEN [d EXCEPT !.cleared = @ \cup kinds] ELSE d

\* The result of a call whose argument depends on d, for a known summary and for an
\* external symbol.
Known(summary, d) ==
    Or(IF summary.parameter THEN Clearing(d, summary.cleared) ELSE Nothing,
       [Nothing EXCEPT !.externals = summary.externals])
External(symbol, d, kinds) == Or(Clearing(d, kinds), [Nothing EXCEPT !.externals = {symbol}])

\* What a function is called with: its own module's table, or the index, which may
\* not know it.
Called(callee, caller, tables, indexed, d) ==
    IF callee \in Externals THEN External(callee, d, Clears[callee])
    ELSE IF callee \in Unsupported THEN d
    ELSE IF ModuleOf[callee] = ModuleOf[caller] THEN Known(tables[callee], d)
    ELSE IF callee \in DOMAIN indexed THEN Known(indexed[callee], d)
    ELSE External(callee, d, {})

Along(path, caller, tables, indexed) ==
    LET upTo[n \in 0..Len(path.calls)] ==
            IF n = 0 THEN IF path.parameter THEN Parameter ELSE Nothing
            ELSE Called(path.calls[n], caller, tables, indexed, upTo[n - 1])
    IN  upTo[Len(path.calls)]

Summary(f, tables, indexed) ==
    FoldSet(Or, Nothing, {Along(path, f, tables, indexed) : path \in bodies[f]})

\* What a function's summary starts from: a supported function reaches nothing yet.
Starting(f) == IF f \in Unsupported THEN Parameter ELSE Nothing
FunctionsOf(ms) == {f \in Functions : ModuleOf[f] \in ms}
Supported(m) == FunctionsOf({m}) \ Unsupported
Seeds(ms) == [f \in FunctionsOf(ms) |-> Starting(f)]

\* One mapping with the entries of another, which replace its own.
Updated(old, new) ==
    [x \in DOMAIN old \cup DOMAIN new |-> IF x \in DOMAIN new THEN new[x] ELSE old[x]]

-----------------------------------------------------------------------------
(* The iteration.                                                          *)

None ==
    /\ members = {} /\ index = <<>> /\ table = <<>>
    /\ module = 0 /\ left = {} /\ changed = FALSE /\ settled = FALSE

\* The analysis of module m starts, with the tables of the modules before it done.
Start(m, tables) ==
    /\ module' = m
    /\ table' = Updated(tables, Seeds({m}))
    /\ left' = Supported(m)
    /\ changed' = FALSE

BeginEmpty(ms, imported) ==
    /\ members' = ms
    /\ index' = imported
    /\ Start(Min(ms), Seeds(ms))
    /\ settled' = FALSE
Begin(ms, imported) ==
    /\ members' = ms
    /\ index' = Updated(imported, Seeds(ms))
    /\ Start(Min(ms), Seeds(ms))
    /\ settled' = FALSE

Summarize ==
    /\ left # {}
    /\ LET f == Min(left)
           updated == Summary(f, table, index)
       IN  /\ table' = [table EXCEPT ![f] = updated]
           /\ changed' = (changed \/ updated # table[f])
           /\ left' = left \ {f}
    /\ UNCHANGED <<members, index, module, settled>>

\* The round is over: another one when it changed the table.
Over == members # {} /\ ~settled /\ left = {}
NextRound ==
    /\ Over /\ changed
    /\ left' = Supported(module)
    /\ changed' = FALSE
    /\ UNCHANGED <<members, index, table, module, settled>>

NextModule ==
    /\ Over /\ ~changed /\ module # Max(members)
    /\ Start(Min({m \in members : m > module}), table)
    /\ UNCHANGED <<members, index, settled>>

\* Every member has its table: the index is what they say, or the pass was the last.
NextPassOnce ==
    /\ Over /\ ~changed /\ module = Max(members)
    /\ index' = Updated(index, table)
    /\ settled' = (index' = index \/ Restrict(index, FunctionsOf(members)) # Seeds(members))
    /\ Start(Min(members), table)
    /\ UNCHANGED members
NextPass ==
    /\ Over /\ ~changed /\ module = Max(members)
    /\ index' = Updated(index, table)
    /\ IF index' = index
       THEN settled' = TRUE /\ UNCHANGED <<table, module, left, changed>>
       ELSE settled' = FALSE /\ Start(Min(members), table)
    /\ UNCHANGED members

Iterate == Summarize \/ NextRound \/ NextModule \/ NextPass

-----------------------------------------------------------------------------
(* Properties.                                                             *)

\* The least summaries that agree with the code, found without modules or an index:
\* every round reads those of the round before, from nothing.  A summary can grow at
\* most once by the parameter, and once for each kind and each symbol.
Rounds == Cardinality(Functions) * (1 + Cardinality(Kinds) + Cardinality(Externals))
Least ==
    LET after[n \in 0..Rounds] ==
            IF n = 0 THEN Seeds(Modules)
            ELSE LET before == after[n - 1]
                     next == Updated(before, [f \in Functions \ Unsupported |-> Summary(f, before, before)])
                 IN  IF next = before THEN before ELSE next
    IN  after[Rounds]

\* What a component settles on is exact: it misses no dependency that a longer
\* iteration would find, and holds none that the code does not have.
SettledIsLeast == settled => \A f \in FunctionsOf(members) : index[f] = Least[f]

-----------------------------------------------------------------------------
(* The project.                                                            *)

CONSTANT Codes     \* what the projects hold: the bodies of their functions

Paths == [parameter : BOOLEAN, calls : Seq(Externals \cup Functions)]
ASSUME CodesAssumption ==
    \A code \in Codes :
        /\ code \in [Functions -> SUBSET Paths]
        /\ \A f \in Functions : IsFiniteSet(code[f])

VARIABLES imports, visited, low, stack, calls, components,
    final           \* the summaries of the components analysed
Schedule == INSTANCE ModuleSchedule WITH index <- visited
search == <<visited, low, stack, calls, components>>
vars == <<bodies, fixpointVars, imports, search, final>>

\* A module imports what its functions call.
Callees(f) == (UNION {Range(path.calls) : path \in bodies[f]}) \cap Functions
Imported(m) == {ModuleOf[g] : g \in UNION {Callees(f) : f \in FunctionsOf({m})}} \ {m}

Init ==
    /\ bodies \in Codes
    /\ imports = [m \in Modules |-> Imported(m)]
    /\ Schedule!Unvisited
    /\ None /\ final = <<>>

Search == Schedule!Search /\ UNCHANGED <<bodies, imports, fixpointVars, final>>

Analysed(c) == FunctionsOf(c) \subseteq DOMAIN final
Pending == {n \in DOMAIN components : ~Analysed(components[n])}
\* Wave after wave, and in a wave by their first names.
Precedes(n, k) ==
    \/ n = k \/ Schedule!Level(n) < Schedule!Level(k)
    \/ Schedule!Level(n) = Schedule!Level(k) /\ Min(components[n]) < Min(components[k])

\* What a component reads: the modules it leads to that are final.
ReadBy(c) == Restrict(final, FunctionsOf(UNION {Schedule!Reached(m) : m \in c}) \cap DOMAIN final)

\* The components of a wave are independent: a pool analyses them in any order.
Analyse ==
    /\ Schedule!Done /\ members = {}
    /\ \E n \in Pending :
          /\ \A k \in Pending : Precedes(n, k)
          /\ Begin(components[n], ReadBy(components[n]))
    /\ UNCHANGED <<bodies, imports, search, final>>
Continue == members # {} /\ Iterate /\ UNCHANGED <<bodies, imports, search, final>>
Keep ==
    /\ settled
    /\ final' = Updated(final, Restrict(index, FunctionsOf(members)))
    /\ members' = {} /\ index' = <<>> /\ table' = <<>>
    /\ module' = 0 /\ left' = {} /\ changed' = FALSE /\ settled' = FALSE
    /\ UNCHANGED <<bodies, imports, search>>

Next == Search \/ Analyse \/ Continue \/ Keep
Spec == Init /\ [][Next]_vars /\ WF_vars(Next)

-----------------------------------------------------------------------------
(* Properties.                                                             *)

\* Two modules are analysed together exactly when each imports the other, through
\* others or not, and every module is analysed once.
ComponentsAreCycles == DOMAIN final = {} /\ members = {} => Schedule!ComponentsAreCycles

\* A component is in the first wave after those of everything it imports: its imports
\* are final when it begins, and it waits for nothing else.
WavesFollowImports == DOMAIN final = {} /\ members = {} => Schedule!WavesFollowImports

\* The search gives every project its waves, and the iteration settles in each of them,
\* with no bound on it, around any cycle of modules (engine.py, _analyse_managers).
EveryModuleSettles == <>(DOMAIN final = Functions)
=============================================================================
