-------------------------------- MODULE MCGraphs --------------------------------
(* Functions, laid out as graphs and executed; and graphs by themselves,   *)
(* given to the dominator algorithm.  Those of functions are only some of  *)
(* the graphs it is given: the reversed ones have loops entered in several *)
(* places.  One of the two runs, the other has nothing to do.              *)
EXTENDS FunctionExecution, DominanceTree

VARIABLES path, turn, changed, left, other, new
algorithm == <<graph, progress, path, postorder, idom, turn, changed, left, other, new>>
D == INSTANCE Dominance

NoGraph ==
    /\ progress = "done" /\ graph = [b \in Blocks |-> {}]
    /\ path = <<>> /\ postorder = <<Root>> /\ idom = [b \in {Root} |-> NoBlock]
    /\ turn = 0 /\ changed = FALSE
    /\ left = {} /\ other = NoBlock /\ new = NoBlock
NoFunction ==
    /\ stage = "ended" /\ program = NoBlock
    /\ blocks = <<>> /\ ssa = <<>> /\ todo = <<>> /\ variable = Unbound /\ walk = <<>>

MCInit == (Init /\ NoGraph) \/ (D!Init /\ NoFunction)
MCNext == (Next /\ UNCHANGED algorithm) \/ (D!Next /\ UNCHANGED vars)
MCSpec == MCInit /\ [][MCNext]_<<vars, algorithm>> /\ WF_algorithm(D!Next)

(* The passes end (Dominance).                                             *)
TreeIsDone == D!TreeIsDone

-----------------------------------------------------------------------------
(* Functions of an assignment, a statement with others nested in it, and a *)
(* use.  Assignments are numbered by where they stand.                     *)

Plain(i) == {<<Assign(i)>>, <<Use>>, <<Return>>}
InLoop(i) == Plain(i) \cup {<<Break>>, <<Continue>>}
InTry(i) == {<<Assign(i)>>, <<Use, Assign(i)>>, <<Raise>>, <<Use>>}

Catching(n) == {<<Handler(n, <<Use>>)>>, <<Handler(n, <<Use>>), Handler(n + 1, <<Return>>)>>, <<>>}
Tries(bodies, n) ==
    {Try(b, h, e, f) : b \in bodies, h \in Catching(n), e \in {<<>>, <<Use>>}, f \in {<<>>, <<Assign(n + 2)>>}}
Conditionals(bodies, n) ==
    {If(Test, b, <<>>) : b \in bodies}
    \cup {If(c, b, <<Assign(n)>>) : c \in {Test, AssignAndTest(n + 1)}, b \in bodies}
    \cup {If(Test, <<Use>>, b) : b \in bodies}
    \cup {With(n + 2, b) : b \in bodies}
    \cup {Match(<<Case(TRUE, 0, b), Case(FALSE, n + 3, <<Use>>)>>) : b \in bodies}
Loops(bodies, n, elses) ==
    {While(c, b, e) : c \in {Test, AssignAndTest(n)}, b \in bodies, e \in {<<>>, <<Assign(n + 1)>>}}
    \cup {While(Test, b, e) : b \in bodies, e \in elses}
    \cup {For(n, b, e) : b \in bodies, e \in elses}
    \cup {While(True, b, <<>>) : b \in {c \in bodies : \E i \in DOMAIN c : c[i] = Break}}

\* One level of nesting, and two in a loop or in a try statement.
Flat == Conditionals(Plain(10), 20) \cup Tries(Plain(10) \cup InTry(13), 20)
Inner ==
    {<<s, t>> : s \in Conditionals(InLoop(30), 40) \cup Tries(InLoop(30) \cup InTry(33), 40), t \in {Use, Continue}}
    \cup {<<s, Assign(45)>> : s \in Loops({<<Use>>, <<Break>>}, 46, {<<Break>>, <<Continue>>})}
InLoops == Loops(InLoop(50) \cup Inner, 60, {<<>>, <<Use>>})
InTries == Tries({<<s, Use>> : s \in Loops({<<Use>>, <<Break>>, <<Return>>, <<Raise>>}, 70, {<<Return>>})
                                     \cup Tries(InTry(73), 76)}, 80)

\* Parameters, assigned to by statements or not at all.
OfParameter ==
    {<<If(Test, b, e), Use>> : b \in Plain(10), e \in Plain(11)}
    \cup {<<s, Use>> : s \in Tries(InTry(13), 20) \cup {For(24, <<Use>>, <<>>), With(25, <<Use>>)}}

MCPrograms ==
    {[parameter |-> FALSE, body |-> <<Assign(1), s, Use>>] : s \in Flat \cup InLoops \cup InTries}
    \cup {[parameter |-> FALSE, body |-> <<s, Use>>] : s \in Flat}
    \cup {[parameter |-> TRUE, body |-> body] : body \in OfParameter}
=============================================================================
