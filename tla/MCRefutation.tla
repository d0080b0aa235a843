------------------------------ MODULE MCRefutation ------------------------------
(* A text built from one or two sources, the tests of it and of others that *)
(* a branch decides on, and a sink on one side, both, past the join, in a   *)
(* loop, behind a decorator, or a callable selected at one place and run at *)
(* another.                                                                 *)
EXTENDS Refutation

MCKinds == {"cmd", "sql"}
MCValidated == {"cmd"}

\* 1 and 3 are sources, 2 a constant, 5 what the sink is given, 9 what the branch tests.
Start == <<Source(1), Constant(2), Source(3)>>
Given5 ==
    {<<Concat(5, <<1, 2>>)>>, <<Concat(5, <<1, 3>>)>>, <<Access(5, 1, "a")>>, <<Number(4, 1), Concat(5, <<4, 3>>)>>,
     <<Access(4, 1, "a"), Concat(5, <<4, 1>>)>>}
Simple == {<<Shape(9, v)>> : v \in {1, 3, 5}} \cup {<<Validate(9, v)>> : v \in {1, 5}}
Members ==
    {collection \o <<Member(9, v, 6, holds)>> :
        collection \in {<<Display(6, kind, items)>> : kind \in {"list", "tuple"}, items \in {<<2>>, <<2, 3>>}}
                           \cup {<<Display(6, "list", <<2>>), AppendTo(6, 3)>>},
        v \in {1, 5}, holds \in BOOLEAN}
    \cup {<<Display(6, "list", <<2>>)>> \o change \o <<Convert(7, kind, 6), Member(9, 1, 7, TRUE)>> :
             change \in {<<>>, <<AppendTo(6, 3)>>}, kind \in {"list", "tuple"}}
Tests ==
    Simple \cup Members \cup {<<Equals(9, 1, 2)>>, <<Equals(9, 1, 3)>>, <<Rights(9)>>, <<Ask(9, 5)>>, <<Ask(9, 1)>>}
    \cup {<<Access(8, 1, name), Ask(9, 8)>> : name \in {"a", "b"}}
    \cup {<<Access(8, 1, name), Shape(9, 8)>> : name \in {"a", "b"}}
    \cup {<<first, second, t>> : first \in {Shape(7, 1), Validate(7, 1), Rights(7)},
             second \in {Shape(8, 3), Validate(8, 1), Ask(8, 2), Not(8, 7)}, t \in {And(9, <<7, 8>>), Or(9, <<7, 8>>), Not(9, 7)}}

Sinks == {Sink(5, {"cmd"}), Sink(5, {"sql"}), Sink(5, MCKinds), Sink(1, {"cmd"})}
End == Code(<<>>, Leaving("return"))
If2(code, then, else, join) == Function(0 :> Code(code, BranchOn(9, 1, 2)) @@ 1 :> Code(then, Jump(3))
                                        @@ 2 :> Code(else, Jump(3)) @@ 3 :> Code(join, Leaving("return")), {})
Dead(f, blocks) == [f EXCEPT !.dead = blocks]
Branches ==
    {If2(Start \o g \o t, <<s>>, <<>>, <<>>) : g \in Given5, t \in Tests, s \in Sinks}
    \cup {If2(Start \o g \o t, <<>>, <<s>>, <<>>) : g \in {<<Concat(5, <<1, 2>>)>>, <<Access(5, 1, "a")>>}, t \in Tests, s \in {Sink(5, MCKinds)}}
    \cup {If2(Start \o t, <<Constant(5)>>, <<Concat(6, <<1, 2>>)>>, <<Phi(4, <<<<1, 5>>, <<2, 6>>>>), Sink(4, MCKinds)>>) :
             t \in {<<Shape(9, 1)>>, <<Shape(7, 1), Not(9, 7)>>}}
    \cup {Dead(If2(Start \o <<Concat(5, <<1, 2>>)>> \o t, <<Sink(5, {"cmd"})>>, <<Sink(5, {"sql"})>>, <<>>), {d}) :
             <<t, d>> \in {<<<<Constant(9)>>, 1>>, <<<<Constant(7), Not(9, 7)>>, 2>>, <<<<Constant(7), Shape(8, 1), And(9, <<7, 8>>)>>, 1>>}}

\* One test inside another: the sink where both hold, or past the inner one's join.
Nested ==
    {Function(0 :> Code(Start \o <<Concat(5, <<1, 3>>)>> \o t, BranchOn(9, 1, 4)) @@ 1 :> Code(<<u>>, BranchOn(10, 2, 3))
              @@ 2 :> Code(inner, Jump(3)) @@ 3 :> Code(outer, Jump(4)) @@ 4 :> End, {}) :
        t \in Simple \cup {<<Rights(9)>>}, u \in {Shape(10, 3), Validate(10, 3), Ask(10, 5), Rights(10)},
        inner \in {<<>>, <<Sink(5, {"cmd"})>>}, outer \in {<<>>, <<Sink(5, MCKinds)>>}}
\* A loop reads, tests and uses a text of each iteration, or one read before it.
Loops ==
    {Function(0 :> Code(Start, Jump(1)) @@ 1 :> Code(<<Rights(7)>>, BranchOn(7, 2, 5))
              @@ 2 :> Code(<<Source(4), Concat(5, <<from, 2>>)>> \o t, BranchOn(9, 3, 4))
              @@ 3 :> Code(<<Sink(5, {"sql"})>>, Jump(4)) @@ 4 :> Code(<<>>, Jump(1)) @@ 5 :> Code(last, Leaving("return")), {}) :
        from \in {1, 4}, t \in {<<Shape(9, v)>> : v \in {1, 4, 5}}, last \in {<<>>, <<Sink(1, {"cmd"})>>}}
\* A loop that asks again with the answer it got: every value depends on itself, so that the
\* flow has no origin.
Asking ==
    {Function(0 :> Code(Start, Jump(1)) @@ 1 :> Code(<<Phi(4, <<<<0, 2>>, <<4, 5>>>>), Ask(7, 3)>>, BranchOn(7, 2, 5))
              @@ 2 :> Code(<<SourceOf(5, 4), Shape(9, v)>>, BranchOn(9, 3, 4))
              @@ 3 :> Code(<<Sink(5, MCKinds)>>, Jump(4)) @@ 4 :> Code(<<>>, Jump(1)) @@ 5 :> End, {}) : v \in {3, 5}}
\* A callable selected by name, tested before the selection or before the invocation; in
\* a loop, it may be the selection of the iteration before.
Test9 == {<<Shape(9, 1)>>, <<Equals(9, 1, 2)>>, <<Display(6, "tuple", <<2>>), Member(9, 1, 6, TRUE)>>}
Selecting ==
    {If2(Start \o <<Select(5, 1)>> \o t, <<Invoke(5)>>, <<>>, <<>>) : t \in Test9}
    \cup {If2(Start \o t, <<Select(5, 1)>>, <<Select(8, 2)>>, <<Phi(4, <<<<1, 5>>, <<2, 8>>>>), Invoke(4)>>) : t \in Test9}
    \cup {Function(0 :> Code(Start \o <<Select(8, 2)>>, Jump(1))
              @@ 1 :> Code(<<Phi(5, <<<<0, 8>>, <<4, 7>>>>), Rights(10)>>, BranchOn(10, 2, 5))
              @@ 2 :> Code(<<Source(4), Equals(9, 4, 2)>> \o before, BranchOn(9, 3, 4))
              @@ 3 :> Code(<<Invoke(5)>>, Jump(4)) @@ 4 :> Code(after, Jump(1)) @@ 5 :> End, {}) :
             <<before, after>> \in {<<<<Select(7, 4)>>, <<>>>>, <<<<>>, <<Select(7, 4)>>>>}}

\* Behind a decorator: with no test, one that proves the text, and one of another.
Behind ==
    {Decorated(If2(Start \o <<Concat(5, <<1, 2>>)>> \o t, <<Sink(5, MCKinds)>>, <<>>, <<>>)) :
        t \in {<<Shape(9, 5)>>, <<Shape(9, 3)>>, <<Rights(9)>>}}

MCPrograms == Branches \cup Nested \cup Loops \cup Asking \cup Selecting \cup Behind
JudgedOnce == [p \in MCPrograms |-> Verdicts(p)]
MCJudged(p) == JudgedOnce[p]
=============================================================================
