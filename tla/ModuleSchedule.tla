----------------------------- MODULE ModuleSchedule ----------------------------
(***************************************************************************)
(* ModuleGraph.schedule: the strongly connected components of the import   *)
(* graph, found by a depth-first visit that calls itself, and the waves    *)
(* they are analysed in.                                                   *)
(*                                                                         *)
(*   imports     the modules each module imports                           *)
(*   index       the order modules were first visited in, from 0           *)
(*   low         the lowest index a module is known to lead back to        *)
(*   stack       the modules visited that no component holds yet           *)
(*   calls       the visits in progress: the module of each, and those of  *)
(*               its imports it has not looked at                          *)
(*   components  the components found, in order                            *)
(***************************************************************************)
EXTENDS Naturals, Sequences, FiniteSets, FiniteSetsExt, Functions

CONSTANT
    Modules      \* the modules of the project, numbered in the order of their names

VARIABLES imports, index, low, stack, calls, components

Top == calls[Len(calls)]
Caller == calls[Len(calls) - 1]
Front(s) == SubSeq(s, 1, Len(s) - 1)
Visited == DOMAIN index
Assigned(f, m, n) == [x \in DOMAIN f \cup {m} |-> IF x = m THEN n ELSE f[x]]
Lowered(m, n) == [low EXCEPT ![m] = IF n < @ THEN n ELSE @]

-----------------------------------------------------------------------------
(* The visit.                                                              *)

Unvisited ==
    /\ index = <<>> /\ low = <<>> /\ stack = <<>>
    /\ calls = <<>>
    /\ components = <<>>

\* visit(m) starts, from below if an import led to it.
Visit(m, below) ==
    /\ index' = Assigned(index, m, Cardinality(Visited))
    /\ low' = Assigned(low, m, Cardinality(Visited))
    /\ stack' = Append(stack, m)
    /\ calls' = Append(below, [module |-> m, left |-> imports[m]])

\* The loop over the names starts the next one not visited.
VisitNext ==
    /\ calls = <<>>
    /\ Modules \ Visited # {}
    /\ Visit(Min(Modules \ Visited), <<>>)
    /\ UNCHANGED components

Looked(m) == [calls EXCEPT ![Len(calls)].left = @ \ {m}]

\* The visit on top looks at its next import.
FollowImport ==
    /\ calls # <<>> /\ Top.left # {}
    /\ Min(Top.left) \notin Visited
    /\ Visit(Min(Top.left), Looked(Min(Top.left)))
    /\ UNCHANGED components

SeeImportAnywhere ==
    /\ calls # <<>> /\ Top.left # {}
    /\ LET m == Min(Top.left)
       IN  /\ m \in Visited
           /\ low' = Lowered(Top.module, index[m])
           /\ calls' = Looked(m)
    /\ UNCHANGED <<index, stack, components>>
SeeImport ==
    /\ calls # <<>> /\ Top.left # {}
    /\ LET m == Min(Top.left)
       IN  /\ m \in Visited
           /\ low' = IF m \in Range(stack) THEN Lowered(Top.module, index[m]) ELSE low
           /\ calls' = Looked(m)
    /\ UNCHANGED <<index, stack, components>>

\* What the stack holds from m on is a component, when m leads back to nothing before
\* itself; then the visit returns to its caller.
Place(m) == CHOOSE n \in 1..Len(stack) : stack[n] = m
Members(m) == {stack[n] : n \in Place(m)..Len(stack)}
Returned ==
    IF Len(calls) = 1 THEN low
    ELSE Lowered(Caller.module, low[Top.module])

Leave ==
    /\ calls # <<>> /\ Top.left = {}
    /\ LET m == Top.module
       IN  IF low[m] = index[m]
           THEN /\ components' = Append(components, Members(m))
                /\ stack' = SubSeq(stack, 1, Place(m) - 1)
           ELSE UNCHANGED <<components, stack>>
    /\ low' = Returned
    /\ calls' = Front(calls)
    /\ UNCHANGED index

Search == VisitNext \/ FollowImport \/ SeeImport \/ Leave

-----------------------------------------------------------------------------
(* The waves, once every module is in a component.                         *)

Done == calls = <<>> /\ Visited = Modules

ImportsOf(c) == (UNION {imports[m] : m \in c}) \ c
Number(m) == CHOOSE n \in 1..Len(components) : m \in components[n]

\* One more than the highest of the components below; those were all found before.
DirectLevel(n) == IF ImportsOf(components[n]) = {} THEN 0 ELSE 1
Level(n) ==
    LET level[k \in 1..Len(components)] ==
            LET below == {Number(m) : m \in ImportsOf(components[k])}
            IN  IF below = {} THEN 0 ELSE 1 + Max({level[b] : b \in below})
    IN  level[n]
Waves == [w \in {Level(n) : n \in 1..Len(components)} |->
             {components[n] : n \in {k \in 1..Len(components) : Level(k) = w}}]

-----------------------------------------------------------------------------
(* Properties.                                                             *)

\* The modules m leads to along imports, itself included.
Reached(m) ==
    LET after[n \in 0..Cardinality(Modules)] ==
            IF n = 0 THEN {m}
            ELSE LET before == after[n - 1] IN before \cup UNION {imports[x] : x \in before}
    IN  after[Cardinality(Modules)]

\* Two modules are analysed together exactly when each imports the other, through
\* others or not, and every module is analysed once.
ComponentsAreCycles ==
    Done =>
        /\ UNION Range(components) = Modules
        /\ \A n \in 1..Len(components) : \A m \in components[n] :
              components[n] = {x \in Modules : x \in Reached(m) /\ m \in Reached(x)}
        /\ \A k, n \in 1..Len(components) : components[k] \cap components[n] # {} => k = n

\* A component is in the first wave after those of everything it imports: its imports
\* are final when it starts, and it waits for nothing else.
WavesFollowImports ==
    Done =>
        \A w \in DOMAIN Waves : \A c \in Waves[w] :
            LET earlier == UNION {UNION Waves[v] : v \in {u \in DOMAIN Waves : u < w}}
                sooner == UNION {UNION Waves[v] : v \in {u \in DOMAIN Waves : u + 1 < w}}
            IN  /\ ImportsOf(c) \subseteq earlier
                /\ w > 0 => ~ (ImportsOf(c) \subseteq sooner)
=============================================================================
