--------------------------- MODULE ControlFlowGraph ---------------------------
(***************************************************************************)
(* The statements of a function (hir/nodes.py) and the control-flow graph  *)
(* that cfg/builder.py lays out from them, with its dominator trees.       *)
(*                                                                         *)
(* A function has one variable.  A statement assigns it (and is numbered,  *)
(* to tell assignments apart), uses it, or controls what runs next; every  *)
(* condition and every iterable reads it.  A condition may assign it first *)
(* (an assignment expression), which the builder lays out as a statement.  *)
(***************************************************************************)
EXTENDS Naturals, SequencesExt, FiniteSets

-----------------------------------------------------------------------------
(* Statements.                                                             *)

Assign(id) == [op |-> "assign", id |-> id]
Use == [op |-> "use"]
Return == [op |-> "return"]
Raise == [op |-> "raise"]
Break == [op |-> "break"]
Continue == [op |-> "continue"]
If(condition, body, orelse) ==
    [op |-> "if", condition |-> condition, body |-> body, orelse |-> orelse]
While(condition, body, orelse) ==
    [op |-> "while", condition |-> condition, body |-> body, orelse |-> orelse]
For(id, body, orelse) == [op |-> "for", id |-> id, body |-> body, orelse |-> orelse]
\* The target of a with statement, and of a handler, is assigned when it is entered.
With(id, body) == [op |-> "with", id |-> id, body |-> body]
Try(body, handlers, orelse, final) ==
    [op |-> "try", body |-> body, handlers |-> handlers, orelse |-> orelse, final |-> final]
Handler(id, body) == [id |-> id, body |-> body]
\* A case may capture the subject or a part of it in the variable (id > 0), and is
\* refutable unless it is a bare name or a wildcard.
Match(cases) == [op |-> "match", cases |-> cases]
Case(refutable, id, body) == [refutable |-> refutable, id |-> id, body |-> body]
ExitWith == [op |-> "leave"]

\* Conditions: the constant True, a test or its negation, or a test of what is assigned
\* right before.  A branch of the graph goes to "then" when the test itself holds.
True == [test |-> FALSE, not |-> FALSE, id |-> 0]
Test == [test |-> TRUE, not |-> FALSE, id |-> 0]
NotTest == [test |-> TRUE, not |-> TRUE, id |-> 0]
AssignAndTest(id) == [test |-> TRUE, not |-> FALSE, id |-> id]

-----------------------------------------------------------------------------
(* Graphs.                                                                 *)

Jump(target) == [kind |-> "jump", target |-> target]
Branch(condition, then, else) ==
    [kind |-> "branch", test |-> condition.test, then |-> IF condition.not THEN else ELSE then,
     else |-> IF condition.not THEN then ELSE else]
ForEach(id, body, exit) == [kind |-> "foreach", id |-> id, then |-> body, else |-> exit]
Leaving(kind) == [kind |-> kind]

Targets(terminator) ==
    CASE terminator.kind = "jump" -> <<terminator.target>>
      [] terminator.kind \in {"branch", "foreach"} -> <<terminator.then, terminator.else>>
      [] OTHER -> <<>>

Entry == 0
None == 0 - 1
Successors(blocks, b) ==
    LET found == Targets(blocks[b].terminator)
    IN  found \o SelectSeq(blocks[b].handlers, LAMBDA h : ~Contains(found, h))
Predecessors(blocks, among, b) == {p \in among : Contains(Successors(blocks, p), b)}

RECURSIVE ReachedFrom(_, _)
ReachedFrom(blocks, found) ==
    LET more == found \cup UNION {ToSet(Successors(blocks, b)) : b \in found}
    IN  IF more = found THEN found ELSE ReachedFrom(blocks, more)
Reachable(blocks) == ReachedFrom(blocks, {Entry})

\* Depth-first from a block: edges into the path that leads to it are back edges.
RECURSIVE BackFrom(_, _, _)
BackFrom(blocks, path, visit) ==
    LET b == Last(path)
        follow(v, s) ==
            CASE Contains(path, s) -> [v EXCEPT !.back = @ \cup {<<b, s>>}]
              [] s \in v.finished -> v
              [] OTHER -> BackFrom(blocks, Append(path, s), v)
        after == FoldLeft(follow, visit, Successors(blocks, b))
    IN  [after EXCEPT !.finished = @ \cup {b}]
BackEdges(blocks) == BackFrom(blocks, <<Entry>>, [back |-> {}, finished |-> {}]).back

-----------------------------------------------------------------------------
(* The builder: finished blocks, how many there are or will be, the loops  *)
(* and the handlers around what is being laid out.  Laying something out   *)
(* gives a builder and the block left open, or Closed.                     *)

Empty == [blocks |-> <<>>, next |-> 1, loops |-> <<>>, handlers |-> <<>>]
Opened(id) == [id |-> id, statements |-> <<>>]
Closed == [id |-> None, statements |-> <<>>]
LaidOut(g, open) == [g |-> g, open |-> open]
New(g, n) == [g EXCEPT !.next = @ + n]

\* The handlers a block's exceptions reach are those of the innermost try statement.
Around(g) == IF g.handlers = <<>> THEN <<>> ELSE Last(g.handlers)
Put(g, id, block) ==
    [g EXCEPT !.blocks = [b \in DOMAIN @ \cup {id} |-> IF b = id THEN block ELSE @[b]]]
Finish(g, open, terminator) ==
    Put(g, open.id, [statements |-> open.statements, terminator |-> terminator, handlers |-> Around(g)])
Header(g, id, terminator) ==
    Put(g, id, [statements |-> <<>>, terminator |-> terminator, handlers |-> Around(g)])
Added(open, statement) == [open EXCEPT !.statements = Append(@, statement)]

\* A loop whose condition assigns is a loop without end that assigns, tests and breaks
\* off at the top of its body, its else clause before the break.
DesugaredLoop(s) ==
    While(True,
          <<Assign(s.condition.id), If(NotTest, Append(s.orelse, Break), <<>>)>> \o s.body, <<>>)

\* What must be computed before a statement, and the statement that is left.
Hoisted(s) ==
    CASE s.op = "while" /\ s.condition.id > 0 -> [pending |-> <<>>, rest |-> DesugaredLoop(s)]
      [] s.op = "if" /\ s.condition.id > 0 ->
            [pending |-> <<Assign(s.condition.id)>>, rest |-> [s EXCEPT !.condition = Test]]
      [] OTHER -> [pending |-> <<>>, rest |-> s]

\* A match statement as a chain of conditionals on a hidden copy of its subject.  What
\* a case captures is assigned before its condition is tested.
Captures(c) == IF c.id > 0 THEN <<Assign(c.id)>> ELSE <<>>
AsChain(match) ==
    <<Use>> \o FoldRight(LAMBDA c, rest :
                  Append(Captures(c), If(IF c.refutable THEN Test ELSE True, c.body, rest)),
              match.cases, <<>>)

RECURSIVE Sequence(_, _, _, _), Statement(_, _, _, _)

Conditional(g, s, open, continuation) ==
    LET merge == IF continuation = None THEN g.next ELSE continuation
        g1 == IF continuation = None THEN New(g, 1) ELSE g
        then == g1.next
        g2 == New(g1, 1)
        else == IF s.orelse = <<>> THEN merge ELSE g2.next
        g3 == IF s.orelse = <<>> THEN g2 ELSE New(g2, 1)
        branched == Finish(g3, open, Branch(s.condition, then, else))
        body == Sequence(branched, s.body, Opened(then), merge).g
    IN  LaidOut(IF s.orelse = <<>> THEN body ELSE Sequence(body, s.orelse, Opened(else), merge).g,
                IF continuation = None THEN Opened(merge) ELSE Closed)

\* break leaves the loop past its else clause, continue goes to its header.
ElseInsideLoop(g, orelse, exit, after) ==
    IF orelse = <<>> THEN [g EXCEPT !.loops = Front(@)]
    ELSE LET laid == Sequence(g, orelse, Opened(exit), after).g IN [laid EXCEPT !.loops = Front(@)]
ElseOfLoop(g, orelse, exit, after) ==
    LET outside == [g EXCEPT !.loops = Front(@)]
    IN  IF orelse = <<>> THEN outside ELSE Sequence(outside, orelse, Opened(exit), after).g

LoopStatement(g, s, open, continuation) ==
    LET header == g.next
        body == g.next + 1
        g1 == New(g, 2)
        after == IF continuation = None THEN g1.next ELSE continuation
        g2 == IF continuation = None THEN New(g1, 1) ELSE g1
        exit == IF s.orelse = <<>> THEN after ELSE g2.next
        g3 == IF s.orelse = <<>> THEN g2 ELSE New(g2, 1)
        entered == Finish(g3, open, Jump(header))
        headed == Header(entered, header,
                         IF s.op = "while" THEN Branch(s.condition, body, exit) ELSE ForEach(s.id, body, exit))
        inside == [headed EXCEPT !.loops = Append(@, [header |-> header, after |-> after])]
        laid == Sequence(inside, s.body, Opened(body), header).g
    IN  LaidOut(ElseOfLoop(laid, s.orelse, exit, after),
                IF continuation = None THEN Opened(after) ELSE Closed)

\* Handlers, else and finally join on the normal path only.
TryStatement(g, s, open, continuation) ==
    LET body == g.next
        n == Len(s.handlers)
        handlers == [i \in 1..n |-> body + i]
        else == IF s.orelse = <<>> THEN None ELSE body + n + 1
        g1 == New(g, n + IF s.orelse = <<>> THEN 1 ELSE 2)
        final == IF s.final = <<>> THEN None ELSE g1.next
        g2 == IF s.final = <<>> THEN g1 ELSE New(g1, 1)
        after == IF continuation = None THEN g2.next ELSE continuation
        g3 == IF continuation = None THEN New(g2, 1) ELSE g2
        join == IF final = None THEN after ELSE final
        inside == [Finish(g3, open, Jump(body)) EXCEPT !.handlers = Append(@, handlers)]
        tried == Sequence(inside, s.body, Opened(body), None)
        falls == tried.open # Closed
        ended == IF falls THEN Finish(tried.g, tried.open, Jump(IF else = None THEN join ELSE else))
                 ELSE tried.g
        outside == [ended EXCEPT !.handlers = Front(@)]
        elsed == IF falls /\ else # None THEN Sequence(outside, s.orelse, Opened(else), join).g ELSE outside
        handled == FoldLeft(LAMBDA h, i :
                                Sequence(h, s.handlers[i].body,
                                         Added(Opened(handlers[i]), Assign(s.handlers[i].id)), join).g,
                            elsed, [i \in 1..n |-> i])
    IN  LaidOut(IF final = None THEN handled
                ELSE Sequence(handled, s.final, Opened(final), after).g,
                IF continuation = None THEN Opened(after) ELSE Closed)

\* An early exit from the body skips the end of the with statement.
WithStatement(g, s, open) ==
    LET laid == Sequence(g, s.body, Added(open, Assign(s.id)), None)
    IN  IF laid.open = Closed THEN laid ELSE LaidOut(laid.g, Added(laid.open, ExitWith))

Statement(g, s, open, continuation) ==
    LET hoisted == Hoisted(s)
        node == hoisted.rest
        at == IF hoisted.pending = <<>> THEN LaidOut(g, open)
              ELSE Sequence(g, hoisted.pending, open, None)
        leave(terminator) == LaidOut(Finish(at.g, at.open, terminator), Closed)
    IN  CASE node.op \in {"return", "raise"} -> leave(Leaving(node.op))
          [] node.op = "break" -> leave(Jump(Last(at.g.loops).after))
          [] node.op = "continue" -> leave(Jump(Last(at.g.loops).header))
          [] node.op = "if" -> Conditional(at.g, node, at.open, continuation)
          [] node.op \in {"while", "for"} -> LoopStatement(at.g, node, at.open, continuation)
          [] node.op = "match" -> Sequence(at.g, AsChain(node), at.open, continuation)
          [] node.op = "with" -> WithStatement(at.g, node, at.open)
          [] node.op = "try" -> TryStatement(at.g, node, at.open, continuation)
          [] OTHER -> LaidOut(at.g, Added(at.open, node))

\* Only the last statement may continue elsewhere; what follows one that left is laid
\* out in a block nothing leads to.
Sequence(g, statements, open, continuation) ==
    IF statements = <<>> THEN
        IF continuation = None \/ open = Closed THEN LaidOut(g, open)
        ELSE LaidOut(Finish(g, open, Jump(continuation)), Closed)
    ELSE LET last == Len(statements) = 1
             laid == Statement(g, Head(statements), open, IF last THEN continuation ELSE None)
         IN  IF last \/ laid.open # Closed
             THEN Sequence(laid.g, Tail(statements), laid.open, continuation)
             ELSE Sequence(New(laid.g, 1), Tail(statements), Opened(laid.g.next), continuation)

Build(body) ==
    LET laid == Sequence(Empty, body, Opened(Entry), None)
    IN  (IF laid.open = Closed THEN laid.g ELSE Finish(laid.g, laid.open, Leaving("return"))).blocks

-----------------------------------------------------------------------------
(* Dominator trees, as what cfg/dominance.py computes (see Dominance): who *)
(* dominates whom among the blocks that are reached from the entry, and    *)
(* the nearest dominator of every other block.                             *)

\* What is reached without a block.
RECURSIVE AvoidingFrom(_, _, _)
AvoidingFrom(blocks, a, found) ==
    LET more == found \cup (UNION {ToSet(Successors(blocks, b)) : b \in found} \ {a})
    IN  IF more = found THEN found ELSE AvoidingFrom(blocks, a, more)

DominatorTree(blocks) ==
    LET reached == Reachable(blocks)
        dominance == UNION {{a} \X (reached \ AvoidingFrom(blocks, a, {Entry} \ {a})) : a \in reached}
        strictly(b) == {a \in reached \ {b} : <<a, b>> \in dominance}
    IN  [reached |-> reached, dominance |-> dominance,
         predecessors |-> [b \in reached |-> Predecessors(blocks, reached, b)],
         idom |-> [b \in reached \ {Entry} |->
                      CHOOSE a \in strictly(b) : \A c \in strictly(b) : <<c, a>> \in dominance]]
Dominates(tree, a, b) == <<a, b>> \in tree.dominance

\* The blocks where what holds at b alone meets what holds elsewhere.
Frontier(tree, b) ==
    {n \in tree.reached \ {Entry} :
        /\ Cardinality(tree.predecessors[n]) > 1
        /\ \E p \in tree.predecessors[n] : Dominates(tree, b, p) /\ ~Dominates(tree, b, tree.idom[n])}

RECURSIVE IteratedFrontier(_, _)
IteratedFrontier(tree, found) ==
    LET more == found \cup UNION {Frontier(tree, b) : b \in found}
    IN  IF more = found THEN UNION {Frontier(tree, b) : b \in found} ELSE IteratedFrontier(tree, more)
=============================================================================
