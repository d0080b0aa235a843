------------------------------- MODULE Dominance -------------------------------
(***************************************************************************)
(* Dominator trees (cfg/dominance.py, _build): a depth-first search numbers*)
(* the blocks of a graph, and passes over them in reverse postorder bring  *)
(* the immediate dominator of each nearer to the root, until one changes   *)
(* none.  The graph is the control flow from its entry, or the reversed    *)
(* one from a virtual exit: any graph, and any block of it.                *)
(***************************************************************************)
EXTENDS DominanceTree

VARIABLES
    path,       \* the blocks being visited, each called by the one before it
    turn,       \* the place in the postorder of the block that is looked at
    changed,    \* whether this pass changed one
    left,       \* the candidates still to be looked at
    other, new  \* where the walks up from a candidate and from the others are
search == <<path, postorder>>
walk == <<left, other, new>>
vars == <<graph, progress, search, idom, turn, changed, walk>>

Seen == InOrder \cup {path[k] : k \in DOMAIN path}
\* The later in the postorder, the earlier in its reverse.
Place(b) == CHOOSE k \in DOMAIN postorder : postorder[k] = b
Node == postorder[turn]
Earliest(blocks) == CHOOSE b \in blocks : \A c \in blocks : Place(c) <= Place(b)

Init ==
    /\ graph \in Graphs
    /\ progress = "visit" /\ path = <<Root>> /\ postorder = <<>>
    /\ idom = [b \in {Root} |-> NoBlock]
    /\ turn = 0 /\ changed = FALSE
    /\ left = {} /\ other = NoBlock /\ new = NoBlock

-----------------------------------------------------------------------------
(* The search.                                                             *)

Current == path[Len(path)]
Visit(b) ==
    /\ progress = "visit" /\ b \in graph[Current] \ Seen
    /\ path' = Append(path, b)
    /\ UNCHANGED <<graph, progress, postorder, idom, turn, changed, walk>>

\* Over all blocks in order but the root, which is last to be left.
StartPass(order) ==
    /\ turn' = Len(order) - 1 /\ changed' = FALSE
    /\ progress' = IF turn' = 0 THEN "done" ELSE "choose"
Leave ==
    /\ progress = "visit" /\ graph[Current] \subseteq Seen
    /\ postorder' = Append(postorder, Current)
    /\ path' = SubSeq(path, 1, Len(path) - 1)
    /\ IF path' = <<>> THEN StartPass(postorder') ELSE UNCHANGED <<progress, turn, changed>>
    /\ UNCHANGED <<graph, idom, walk>>

-----------------------------------------------------------------------------
(* A pass: for each block, what the ways up from its predecessors have in  *)
(* common.                                                                 *)

Choose ==
    /\ progress = "choose" /\ progress' = "intersect"
    /\ LET candidates == PredecessorsOf(Node) \cap DOMAIN idom
       IN  /\ new' = Earliest(candidates) /\ other' = new'
           /\ left' = candidates \ {new'}
    /\ UNCHANGED <<graph, search, idom, turn, changed>>

\* The walk that is later in reverse postorder goes up.
ClimbOther ==
    /\ progress = "intersect" /\ Place(other) < Place(new)
    /\ other' = idom[other]
    /\ UNCHANGED <<graph, progress, search, idom, turn, changed, left, new>>
ClimbNew ==
    /\ progress = "intersect" /\ Place(new) < Place(other)
    /\ new' = idom[new]
    /\ UNCHANGED <<graph, progress, search, idom, turn, changed, left, other>>
Intersect ==
    /\ progress = "intersect" /\ other = new /\ left # {}
    /\ other' = Earliest(left) /\ left' = left \ {other'}
    /\ UNCHANGED <<graph, progress, search, idom, turn, changed, new>>

Differs(b, dominator) == b \notin DOMAIN idom \/ idom[b] # dominator
\* Without a second pass.
SettleOnce ==
    /\ progress = "intersect" /\ other = new /\ left = {}
    /\ idom' = [b \in DOMAIN idom \cup {Node} |-> IF b = Node THEN new ELSE idom[b]]
    /\ IF turn > 1 THEN turn' = turn - 1 /\ changed' = FALSE /\ progress' = "choose"
       ELSE turn' = 0 /\ changed' = FALSE /\ progress' = "done"
    /\ UNCHANGED <<graph, search, walk>>
\* Whenever a pass is over, as if it had changed one.
SettleForEver ==
    /\ progress = "intersect" /\ other = new /\ left = {}
    /\ idom' = [b \in DOMAIN idom \cup {Node} |-> IF b = Node THEN new ELSE idom[b]]
    /\ IF turn > 1 THEN turn' = turn - 1 /\ changed' = TRUE /\ progress' = "choose" ELSE StartPass(postorder)
    /\ UNCHANGED <<graph, search, walk>>
Settle ==
    /\ progress = "intersect" /\ other = new /\ left = {}
    /\ idom' = [b \in DOMAIN idom \cup {Node} |-> IF b = Node THEN new ELSE idom[b]]
    /\ LET changes == changed \/ Differs(Node, new)
       IN  IF turn > 1 THEN turn' = turn - 1 /\ changed' = changes /\ progress' = "choose"
           ELSE IF changes THEN StartPass(postorder)
           ELSE turn' = 0 /\ changed' = FALSE /\ progress' = "done"
    /\ UNCHANGED <<graph, search, walk>>

Next ==
    \/ \E b \in Blocks : Visit(b)
    \/ Leave \/ Choose \/ ClimbOther \/ ClimbNew \/ Intersect \/ Settle
Spec == Init /\ [][Next]_vars /\ WF_vars(Next)

-----------------------------------------------------------------------------
(* Properties.                                                             *)

\* A block that a pass looks at has a predecessor in the tree, and the walks up stay in it.
\* (The code takes the first of the candidates, and what it finds under a block, unasked.)
PassesFindTheirWay ==
    /\ progress = "choose" => PredecessorsOf(Node) \cap DOMAIN idom # {}
    /\ progress = "intersect" => {other, new} \subseteq DOMAIN idom

\* The passes end.
TreeIsDone == <>(progress = "done")
=============================================================================
