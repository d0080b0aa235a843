----------------------------- MODULE DataflowSolver ----------------------------
(***************************************************************************)
(* The worklist solver of dataflow/solver.py, for any data-flow problem    *)
(* over any control-flow graph.                                            *)
(*                                                                         *)
(*   problem    the problem and the graph it is solved on                  *)
(*   incoming   the states that arrived so far, by block and by the block  *)
(*              they come from, Entry for the initial state; a block is in *)
(*              its domain once a state has arrived                        *)
(*   queued     the blocks to evaluate: the worklist is this set, sorted   *)
(*              into the order of the blocks before each is taken          *)
(*   age        tells the objects made by the last evaluation of a block   *)
(*              from those made by the one before, for values that are     *)
(*              equal to nothing but the same object                       *)
(***************************************************************************)
EXTENDS Naturals

CONSTANTS
    Problems,         \* problems with their graphs
    Blocks,           \* the blocks, numbered in the order of the graph
    Entry,            \* where initial states come from
    Initial,          \* the state entering a start
    Starts,           \* the entry block, or the exits for a backward problem
    Flow(_, _, _, _), \* Flow(p, b, arrived, made): what b sends, by target; an edge it leaves out is pruned
    Ages              \* bound: how many evaluations of a block are told apart

ASSUME SolverAssumption ==
    /\ Blocks \subseteq Nat
    /\ Entry \notin Blocks
    /\ Starts \subseteq Blocks
    /\ Ages \in Nat \ {0}

VARIABLES problem, incoming, queued, age
vars == <<problem, incoming, queued, age>>

-----------------------------------------------------------------------------

Init ==
    /\ problem \in Problems
    /\ incoming = [b \in Starts |-> [s \in {Entry} |-> Initial]]
    /\ queued = Starts
    /\ age = [b \in Blocks |-> 0]

\* What the last evaluation of b sent, if b has been evaluated on what arrived.
Sent(b) == Flow(problem, b, incoming[b], age[b])

\* Whether target holds from b the state that b sends it.
Holds(target, b, state) ==
    /\ target \in DOMAIN incoming
    /\ b \in DOMAIN incoming[target]
    /\ incoming[target][b] = state

\* What target holds once b has sent it a state.
Received(target, b, state) ==
    LET before == IF target \in DOMAIN incoming THEN incoming[target] ELSE <<>>
    IN  [s \in DOMAIN before \cup {b} |-> IF s = b THEN state ELSE before[s]]

\* The targets that must be evaluated again: those that hold another state from b.
TouchedOnce(b, sent) ==
    {t \in DOMAIN sent : ~(t \in DOMAIN incoming /\ b \in DOMAIN incoming[t])}
TouchedAlways(b, sent) == DOMAIN sent
Touched(b, sent) == {t \in DOMAIN sent : ~Holds(t, b, sent[t])}

\* The first of the queued blocks is evaluated.
Evaluate(b) ==
    /\ b \in queued
    /\ \A c \in queued : b <= c
    /\ age' = [age EXCEPT ![b] = (@ + 1) % Ages]
    /\ LET sent == Flow(problem, b, incoming[b], age'[b])
       IN  /\ incoming' = [t \in DOMAIN incoming \cup Touched(b, sent) |->
                              IF t \in Touched(b, sent) THEN Received(t, b, sent[t]) ELSE incoming[t]]
           /\ queued' = (queued \ {b}) \cup Touched(b, sent)
    /\ UNCHANGED problem

Next == \E b \in Blocks : Evaluate(b)
Spec == Init /\ [][Next]_vars /\ WF_vars(Next)

-----------------------------------------------------------------------------
(* Properties.                                                             *)

TypeOK ==
    /\ problem \in Problems
    /\ age \in [Blocks -> 0..(Ages - 1)]
    /\ Starts \subseteq DOMAIN incoming
    /\ queued \subseteq DOMAIN incoming

\* Every block that is not queued agrees with what arrived at it: what its last
\* evaluation gave for that is what its successors hold.  So whatever is left when the
\* worklist is empty is a solution, however the problem flows and in whatever order
\* blocks were taken.
SettledBlocksAgree ==
    \A b \in (DOMAIN incoming \cap Blocks) \ queued :
        \A t \in DOMAIN Sent(b) : Holds(t, b, Sent(b)[t])

\* The worklist empties: no loop of the graph is evaluated for ever.
SolverEnds == <>(queued = {})
=============================================================================
