----------------------------- MODULE DominanceTree -----------------------------
(***************************************************************************)
(* The graphs that cfg/dominance.py is given (of the control flow from its *)
(* entry, or reversed, from a virtual exit: any graph, and any block of    *)
(* it), the tree that is made of one, and what the finished tree must be.  *)
(***************************************************************************)
EXTENDS Naturals, Sequences, FiniteSets

CONSTANTS
    Blocks,
    Root,
    NoBlock,        \* no block
    MaxSuccessors   \* bound: of each block

ASSUME DominanceAssumption ==
    /\ IsFiniteSet(Blocks) /\ Root \in Blocks /\ NoBlock \notin Blocks
    /\ MaxSuccessors \in Nat

Graphs == [Blocks -> {successors \in SUBSET Blocks : Cardinality(successors) <= MaxSuccessors}]

\* What is reached along edges.
Reached(edges, from) ==
    LET upto[n \in 0..Cardinality(Blocks)] ==
            IF n = 0 THEN from
            ELSE LET before == upto[n - 1] IN before \cup UNION {edges[b] : b \in before}
    IN  upto[Cardinality(Blocks)]

VARIABLES
    graph,
    progress,   \* "visit", "choose" and "intersect", "done"
    postorder,  \* the blocks whose visit is over
    idom        \* the immediate dominators known so far, NoBlock of the root

InOrder == {postorder[k] : k \in DOMAIN postorder}
PredecessorsOf(b) == {p \in InOrder : b \in graph[p]}

-----------------------------------------------------------------------------
(* The finished tree.                                                      *)

\* The blocks on the way up from a block, and from there until another.
Up(b) == IF b \in DOMAIN idom THEN {idom[b]} \ {NoBlock} ELSE {}
Dominators(b) == Reached([c \in Blocks |-> Up(c)], {b})
Runners(p, end) == Reached([c \in Blocks |-> Up(c) \ {end}], {p} \ {end})

\* The blocks that control reaches both from a dominated one and from elsewhere.
FrontierOf(b) ==
    {n \in InOrder \ {Root} :
        Cardinality(PredecessorsOf(n)) > 1 /\ \E p \in PredecessorsOf(n) : b \in Runners(p, idom[n])}

-----------------------------------------------------------------------------
(* Properties.                                                             *)

\* What is reached from the root on a path that avoids a block, and what dominance is.
Avoiding(a) == Reached([b \in Blocks |-> graph[b] \ {a}], {Root} \ {a})
ReachedFromRoot == Avoiding(NoBlock)
OnEveryPath(a, b) == b \notin Avoiding(a)

\* The tree has the blocks that are reached, and says of every two whether all paths to
\* the one lead through the other.
DominatorsAreExact ==
    progress = "done" =>
        /\ InOrder = ReachedFromRoot /\ DOMAIN idom = ReachedFromRoot
        /\ \A a, b \in ReachedFromRoot : a \in Dominators(b) <=> OnEveryPath(a, b)

\* The frontier of a block has the blocks a predecessor of which it dominates, and that it
\* does not itself strictly dominate.
FrontiersAreExact ==
    progress = "done" =>
        \A b \in ReachedFromRoot, n \in ReachedFromRoot \ {Root} :
            n \in FrontierOf(b) <=>
                /\ \E p \in ReachedFromRoot : n \in graph[p] /\ OnEveryPath(b, p)
                /\ ~(b # n /\ OnEveryPath(b, n))

\* The tree and what is read off it are what dominance is.
TreeIsExact == DominatorsAreExact /\ FrontiersAreExact
=============================================================================
