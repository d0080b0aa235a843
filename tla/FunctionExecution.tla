-------------------------- MODULE FunctionExecution ---------------------------
(***************************************************************************)
(* A function executed twice at once: as the interpreter executes its      *)
(* statements, and as the analyses see it, a walk through the blocks of    *)
(* its graph in which every load has an SSA value.                         *)
(*                                                                         *)
(* The interpreter is Python's within the limits that the documentation    *)
(* sets: an exception leaves a block in the state at the block's end and   *)
(* is caught by a handler of the innermost try statement, and finally and  *)
(* the end of a with statement run on the normal path only.                *)
(***************************************************************************)
EXTENDS ControlFlowGraph

(* From statements to values: the lowering of a function's one variable    *)
(* (ir/lowering.py) and the renaming of its loads to SSA values            *)
(* (ir/ssa.py).  A value is named by what defines it.                      *)

\* Whether the variable, a parameter, is assigned to in the body.  The statements that
\* the syntax tree has for it are looked at; what a case captures and what a condition
\* assigns are none of them.
RECURSIVE Reassigned(_)
Reassigned(statements) ==
    \E i \in DOMAIN statements :
        LET s == statements[i]
        IN  CASE s.op \in {"assign", "for", "with"} -> TRUE
              [] s.op \in {"if", "while"} -> Reassigned(s.body) \/ Reassigned(s.orelse)
              [] s.op = "match" -> \E c \in DOMAIN s.cases : Reassigned(s.cases[c].body)
              [] s.op = "try" -> s.handlers # <<>> \/ Reassigned(s.body)
                                 \/ Reassigned(s.orelse) \/ Reassigned(s.final)
              [] OTHER -> FALSE

\* What the variable is to its reads: a slot that every block shares, or the parameter
\* itself when nothing assigns it.
Lowered(parameter, body) == [slot |-> ~parameter \/ Reassigned(body), parameter |-> parameter]

\* Values: the parameter, no value, a phi, what an assignment or a loop's header stores.
Parameter == <<"parameter", 0, 0>>
Undefined == <<"undefined", 0, 0>>
Phi(b) == <<"phi", b, 0>>
Stored(b, i) == <<"stored", b, i>>
NextItem(header) == <<"next", header, 0>>

\* Where the variable is assigned and read in a block; a branch reads it after all
\* statements, and so does a block that enters a loop over an iterable.
Stores(block) == {i \in DOMAIN block.statements : block.statements[i].op = "assign"}
EntersLoop(blocks, b) ==
    LET t == blocks[b].terminator
    IN  t.kind = "jump" /\ blocks[t.target].terminator.kind = "foreach"
        /\ <<b, t.target>> \notin BackEdges(blocks)
Reads(blocks, b) ==
    LET block == blocks[b]
        end == Len(block.statements) + 1
    IN  {i \in DOMAIN block.statements : block.statements[i].op = "use"}
        \cup (IF \/ block.terminator.kind = "branch" /\ block.terminator.test
                 \/ EntersLoop(blocks, b) THEN {end} ELSE {})

\* The loop whose items a block starts with.
LoopOf(blocks, b) ==
    LET headers == {h \in DOMAIN blocks : /\ blocks[h].terminator.kind = "foreach"
                                          /\ blocks[h].terminator.then = b}
    IN  IF headers = {} THEN None ELSE CHOOSE h \in headers : TRUE

\* Blocks before which the variable is read on some path before it is assigned.
ReadsFirst(blocks, b) ==
    /\ LoopOf(blocks, b) = None
    /\ \E r \in Reads(blocks, b) : \A s \in Stores(blocks[b]) : r < s
Assigns(blocks, b) == LoopOf(blocks, b) # None \/ Stores(blocks[b]) # {}
RECURSIVE LiveIn(_, _)
LiveIn(blocks, found) ==
    LET more == {b \in DOMAIN blocks :
                    \/ ReadsFirst(blocks, b)
                    \/ ~Assigns(blocks, b) /\ \E s \in ToSet(Successors(blocks, b)) : s \in found}
    IN  IF more = found THEN found ELSE LiveIn(blocks, more)

Definitions(blocks, tree) == {b \in tree.reached : Assigns(blocks, b)}
PhisOfFrontier(blocks, tree) ==
    LET live == LiveIn(blocks, {})
    IN  {b \in UNION {Frontier(tree, d) : d \in Definitions(blocks, tree)} : b \in live}
PlacePhis(blocks, tree) ==
    LET live == LiveIn(blocks, {})
    IN  {b \in IteratedFrontier(tree, Definitions(blocks, tree)) : b \in live}

\* The value on top of the stack before the i-th statement of a block: what the block
\* has stored, or what it started with, or what its dominator ended with.
RECURSIVE Current(_, _, _, _)
Current(f, b, i, stored) ==
    CASE stored # {} -> Stored(b, CHOOSE s \in stored : \A t \in stored : t <= s)
      [] b \in f.phis -> Phi(b)
      [] LoopOf(f.blocks, b) # None -> NextItem(LoopOf(f.blocks, b))
      [] b = Entry -> IF f.parameter THEN Parameter ELSE Undefined
      [] OTHER -> LET up == f.tree.idom[b]
                  IN  Current(f, up, 0, Stores(f.blocks[up]))
AtEnd(f, b) == Current(f, b, 0, Stores(f.blocks[b]))
Loaded(f, b, i) ==
    IF ~f.slot THEN Parameter ELSE Current(f, b, i, {s \in Stores(f.blocks[b]) : s < i})

\* The function in SSA form: phis, and the value of every load.  The value a phi takes
\* on an edge, of an exception too, is the one its source ends with.
ToSSA(blocks, lowered) ==
    LET tree == DominatorTree(blocks)
        f == [blocks |-> blocks, tree |-> tree, slot |-> lowered.slot, parameter |-> lowered.parameter,
              phis |-> PlacePhis(blocks, tree)]
        reached == tree.reached
    IN  [phis |-> f.phis,
         loads |-> [b \in reached |-> [i \in Reads(blocks, b) |-> Loaded(f, b, i)]],
         incoming |-> [b \in f.phis |-> [p \in Predecessors(blocks, reached, b) |-> AtEnd(f, p)]]]

-----------------------------------------------------------------------------
(* The execution.                                                          *)

CONSTANT Programs   \* [parameter, body]: whether the variable is a parameter, the statements

VARIABLES
    program,    \* the function
    stage,      \* how far it is: "parsed", "graph", "running", "ended"
    blocks,     \* its control-flow graph
    ssa,        \* its phis, the values of its loads and of its phis on each edge
    todo,       \* what the interpreter has still to do, the next first
    variable,   \* the number of the assignment the variable holds the value of
    walk        \* the block and statement the walk is at, and the SSA values so far

vars == <<program, stage, blocks, ssa, todo, variable, walk>>

Unbound == 0
Argument == 0 - 1

-----------------------------------------------------------------------------
(* The interpreter.                                                        *)

Again(loop) == [op |-> "again", loop |-> loop]
Decide(loop) == [op |-> "decide", loop |-> loop]
Tried(try) == [op |-> "tried", try |-> try]
Cases(cases) == [op |-> "cases", cases |-> cases]

\* What is left after the innermost marker of a kind.
RECURSIVE Past(_, _)
Past(rest, marker) == IF Head(rest).op = marker THEN Tail(rest) ELSE Past(Tail(rest), marker)
AtMarker(rest, marker) == SubSeq(rest, Len(rest) - Len(Past(rest, marker)), Len(rest))

\* What takes no step of its own is taken apart.
RECURSIVE Settle(_)
Settle(rest) ==
    IF rest = <<>> THEN rest
    ELSE LET s == Head(rest)
             after == Tail(rest)
         IN  CASE s.op = "break" -> Settle(Past(after, "again"))
               [] s.op = "continue" -> Settle(AtMarker(after, "again"))
               [] s.op = "if" /\ s.condition.id > 0 ->
                     <<Assign(s.condition.id), [s EXCEPT !.condition = Test]>> \o after
               [] s.op = "while" -> Settle(<<Again(s)>> \o after)
               [] s.op = "again" /\ s.loop.op = "while" ->
                     IF s.loop.condition.id = 0 THEN Settle(<<Decide(s.loop)>> \o after)
                     ELSE <<Assign(s.loop.condition.id), Decide(s.loop)>> \o after
               [] s.op = "decide" /\ ~s.loop.condition.test ->
                     Settle(s.loop.body \o <<Again(s.loop)>> \o after)
               [] s.op = "with" -> <<Assign(s.id)>> \o s.body \o <<ExitWith>> \o after
               [] s.op = "try" -> Settle(s.body \o <<Tried(s)>> \o after)
               [] s.op = "tried" -> Settle(s.try.orelse \o s.try.final \o after)
               [] s.op = "match" -> <<Use, Cases(s.cases)>> \o after
               [] s.op = "cases" /\ s.cases = <<>> -> Settle(after)
               [] s.op = "cases" /\ ~Head(s.cases).refutable ->
                     Settle(Captures(Head(s.cases)) \o Head(s.cases).body \o after)
               [] OTHER -> rest

\* The step the interpreter takes next.
Event(rest) ==
    IF rest = <<>> THEN [op |-> "return"]
    ELSE LET s == Head(rest)
         IN  CASE s.op \in {"if", "decide", "cases"} -> [op |-> "test"]
               [] s.op = "for" -> [op |-> "iterate"]
               [] s.op = "again" -> [op |-> "next", id |-> s.loop.id]
               [] OTHER -> s

\* What a test, or an iterator that has an item or not, leaves to do.
Chosen(rest, yes) ==
    LET s == Head(rest)
    IN  Settle((CASE s.op = "if" -> IF yes THEN s.body ELSE s.orelse
                  [] s.op \in {"decide", "again"} ->
                        IF yes THEN Append(s.loop.body, Again(s.loop)) ELSE s.loop.orelse
                  [] OTHER -> IF yes THEN Captures(Head(s.cases)) \o Head(s.cases).body
                              ELSE <<Cases(Tail(s.cases))>>) \o Tail(rest))

\* The innermost try statement whose body is being executed.
Trying(rest) == \E i \in DOMAIN rest : rest[i].op = "tried"
Catchers(rest) == IF Trying(rest) THEN Head(AtMarker(rest, "tried")).try.handlers ELSE <<>>
Caught(rest, h) ==
    LET try == Head(AtMarker(rest, "tried")).try
    IN  Settle(<<Assign(try.handlers[h].id)>> \o try.handlers[h].body \o try.final \o Past(rest, "tried"))

-----------------------------------------------------------------------------
(* The walk through the graph.                                             *)

Define(values, name, value) ==
    [n \in DOMAIN values \cup {name} |-> IF n = name THEN value ELSE values[n]]
ValueOf(w, name) == IF name \in DOMAIN w.values THEN w.values[name] ELSE Unbound

\* Along an edge, a phi takes the value its source ends with.
Enter(s, w, b) ==
    [block |-> b, at |-> 1,
     values |-> IF b \in s.phis THEN Define(w.values, Phi(b), ValueOf(w, s.incoming[b][w.block]))
                ELSE w.values]

Here(g, w) == g[w.block]
AtEndOf(g, w) == w.at > Len(Here(g, w).statements)
RECURSIVE Glide(_, _, _)
Glide(g, s, w) ==
    LET t == Here(g, w).terminator
    IN  CASE ~AtEndOf(g, w) -> w
          [] t.kind = "jump" /\ ~EntersLoop(g, w.block) -> Glide(g, s, Enter(s, w, t.target))
          [] t.kind = "branch" /\ ~t.test -> Glide(g, s, Enter(s, w, t.then))
          [] OTHER -> w

\* The step the walk takes next.
Shown(g, w) ==
    LET t == Here(g, w).terminator
    IN  CASE ~AtEndOf(g, w) -> Here(g, w).statements[w.at]
          [] t.kind = "branch" -> [op |-> "test"]
          [] t.kind = "jump" -> [op |-> "iterate"]
          [] t.kind = "foreach" -> [op |-> "next", id |-> t.id]
          [] OTHER -> [op |-> t.kind]

-----------------------------------------------------------------------------
Init ==
    /\ program \in Programs
    /\ stage = "parsed"
    /\ blocks = <<>> /\ ssa = <<>> /\ todo = <<>> /\ walk = <<>>
    /\ variable = IF program.parameter THEN Argument ELSE Unbound

BuildGraph ==
    /\ stage = "parsed"
    /\ stage' = "graph"
    /\ blocks' = Build(program.body)
    /\ UNCHANGED <<program, ssa, todo, variable, walk>>

Start ==
    /\ stage = "graph"
    /\ stage' = "running"
    /\ ssa' = ToSSA(blocks, Lowered(program.parameter, program.body))
    /\ todo' = Settle(program.body)
    /\ walk' = Glide(blocks, ssa', [block |-> Entry, at |-> 1,
                                    values |-> [p \in {Parameter} |-> variable]])
    /\ UNCHANGED <<program, blocks, variable>>

\* Both are at the same step: the walk can follow.
Together ==
    /\ stage = "running"
    /\ Event(todo) = Shown(blocks, walk)
Moved(w) == walk' = Glide(blocks, ssa, w)
Same == UNCHANGED <<program, stage, blocks, ssa>>

AssignVariable ==
    /\ Together /\ Event(todo).op = "assign"
    /\ variable' = Event(todo).id
    /\ todo' = Settle(Tail(todo))
    /\ Moved([walk EXCEPT !.at = @ + 1, !.values = Define(@, Stored(walk.block, walk.at), variable')])
    /\ Same

Pass ==
    /\ Together /\ Event(todo).op \in {"use", "leave"}
    /\ todo' = Settle(Tail(todo))
    /\ Moved([walk EXCEPT !.at = @ + 1])
    /\ Same /\ UNCHANGED variable

Choose(yes) ==
    /\ Together /\ Event(todo).op = "test"
    /\ todo' = Chosen(todo, yes)
    /\ LET t == Here(blocks, walk).terminator
       IN  Moved(Enter(ssa, walk, IF yes THEN t.then ELSE t.else))
    /\ Same /\ UNCHANGED variable

Iterate ==
    /\ Together /\ Event(todo).op = "iterate"
    /\ todo' = Settle(<<Again(Head(todo))>> \o Tail(todo))
    /\ Moved(Enter(ssa, walk, Here(blocks, walk).terminator.target))
    /\ Same /\ UNCHANGED variable

NextOfLoop(yes) ==
    /\ Together /\ Event(todo).op = "next"
    /\ todo' = Chosen(todo, yes)
    /\ variable' = IF yes THEN Event(todo).id ELSE variable
    /\ LET t == Here(blocks, walk).terminator
       IN  Moved(Enter(ssa, IF yes THEN [walk EXCEPT !.values = Define(@, NextItem(walk.block), variable')]
                       ELSE walk, IF yes THEN t.then ELSE t.else))
    /\ Same

\* What reads the variable may raise, where no assignment is left in the block.
Throw(h) ==
    /\ Together
    /\ Event(todo).op \in {"use", "test", "iterate", "raise"}
    /\ \A s \in Stores(Here(blocks, walk)) : s < walk.at
    /\ h \in DOMAIN Catchers(todo)
    /\ h \in DOMAIN Here(blocks, walk).handlers
    /\ todo' = Caught(todo, h)
    /\ Moved(Enter(ssa, walk, Here(blocks, walk).handlers[h]))
    /\ Same /\ UNCHANGED variable

Leave ==
    /\ Together
    /\ \/ Event(todo).op = "return"
       \/ Event(todo).op = "raise" /\ Catchers(todo) = <<>>
    /\ stage' = "ended"
    /\ UNCHANGED <<program, blocks, ssa, todo, variable, walk>>

Next ==
    \/ BuildGraph
    \/ Start
    \/ AssignVariable
    \/ Pass
    \/ \E yes \in BOOLEAN : Choose(yes)
    \/ Iterate
    \/ \E yes \in BOOLEAN : NextOfLoop(yes)
    \/ \E h \in 1..2 : Throw(h)
    \/ Leave

Spec == Init /\ [][Next]_vars

-----------------------------------------------------------------------------
(* The graph and the interpreter stay in step: whatever a function does    *)
(* next, the walk does, with the same handlers around it, and nothing      *)
(* else.  (cfg/model.py: "semantically faithful to Python".)               *)
GraphIsFaithful ==
    stage = "running" =>
        /\ Event(todo) = Shown(blocks, walk)
        /\ Len(Catchers(todo)) = Len(Here(blocks, walk).handlers)

(* Every load has the value of the assignment executed last: phis stand    *)
(* where values meet, of exceptions too, and parameters that are assigned  *)
(* to are read from their slot.                                            *)
LoadsSeeTheLastStore ==
    stage = "running" =>
        \A i \in Reads(blocks, walk.block) :
            i = walk.at => ValueOf(walk, ssa.loads[walk.block][i]) = variable
=============================================================================
