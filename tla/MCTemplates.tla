------------------------------ MODULE MCTemplates ------------------------------
(* Templates of up to three pieces that open and close constructs around   *)
(* what they print; pages put together from two or three files by blocks   *)
(* and includes; names several files have; and filters under bindings,     *)
(* filter blocks, includes of itself and libraries that replace them.      *)
EXTENDS TemplateRendering

MCFunctions == {"strip", "safe"}
MCEscapingFilters == {"strip"}
MCOwn == {"static"}
MCNames == {"x", "y"}

Pieces ==
    {<<"<", "a", " ", "href", "=", "\"", "/", "a">>, <<" ", "on", "=", "\"">>, <<"a", "=", "\"">>, <<"\"">>,
     <<"\"", ">">>, <<">">>, <<"<", "script", ">">>, <<"<", "/", "script", ">">>, <<"<", "!", "--">>, <<"--", ">">>,
     <<"<">>, <<"<", "a", " ", "a", "=">>}
Few == {<<"<", "a", " ", "href", "=", "\"", "/", "a">>, <<"\"", ">">>, <<"<", "script", ">">>, <<"<", "/", "script", ">">>,
        <<"<", "!", "--">>, <<"--", ">">>, <<"<", "a">>, <<"a">>}
X(at) == Variable("x", NoFilter, at)
Printing == X("p")
Piece == {Markup(p) : p \in Pieces}
Some == {Markup(p) : p \in Few}
Opener == Markup(<<"<">>)
Maybe == {Conditional(<<Printing>>), Conditional(<<Markup(<<"a">>)>>)}

Alone(nodes) == Project([a |-> File({}, nodes)], [a |-> {"a"}], <<>>)
Flats ==
    {Alone(<<Printing>>), Alone(<<Variable("x", "safe", "p")>>)}
    \cup {Alone(<<m, Printing>>) : m \in Piece}
    \cup {Alone(<<m, n, Printing>>) : m, n \in Piece}
    \cup {Alone(<<m, n, Printing>>) : m \in Piece \ {Opener}, n \in Maybe}
    \cup {Alone(<<l, m, n, Printing>>) : l \in Some, m \in Piece \cup Maybe, n \in Piece}
    \cup {Alone(<<Markup(<<"<", "!", "--">>), c, l, Markup(<<"--", ">">>), m, n, Printing>>) :
            c \in {Conditional(<<Markup(<<"a">>)>>)}, l, m, n \in Some}
    \cup {Alone(<<Conditional(<<Markup(<<"<", "!", "--">>)>>), l, Markup(<<"--", ">">>), m, Printing>>) : l, m \in Some}

TwoFiles(a, b) == Project([a |-> a, b |-> b], [a |-> {"a"}, b |-> {"b"}], <<>>)
SameName(a, b, c) == Project([a |-> a, b |-> b, c |-> c], [a |-> {"a"}, b |-> {"b", "c"}], <<>>)
Including(l, n) == File({}, <<l, Include("b"), n, Printing>>)
Around(l, n) == File({}, <<l, Block("k", <<Markup(<<"a">>)>>), n>>)
Child(nodes) == File({"b"}, <<Block("k", nodes)>>)
Pages2 ==
    {TwoFiles(Including(l, n), File({}, <<m>>)) : l, m, n \in Some}
    \cup {TwoFiles(Child(<<m, Printing>>), Around(l, n)) : l, m, n \in Some}
    \cup {TwoFiles(Child(<<Printing, Super, Printing>>), Around(l, n)) : l, n \in Some}
    \cup {TwoFiles(File({}, <<l, Include("b"), n>>), File({}, <<m, Printing>>)) : l, m, n \in Some}
    \cup {TwoFiles(File({}, <<l, Include("b"), Printing>>), File({}, <<Conditional(<<Include("b")>>), m>>)) : l, m \in Some}
Pages3 ==
    {SameName(File({}, <<Include("b"), l, Printing>>), File({}, <<m>>), File({}, <<n>>)) : l, m, n \in Some}
    \cup {SameName(Child(<<Printing>>), Around(l, n), Around(m, n)) : l, m, n \in Some}
    \cup {SameName(File({}, <<Include("b")>>), File({"b"}, <<Block("k", <<l, Printing>>)>>), Around(m, n)) : l, m, n \in Some}

Strip(name, at) == Variable(name, "strip", at)
Bindings == {<<>>, [x |-> "y"], [y |-> "x"], [x |-> "y", y |-> "x"]}
Inner == {<<Strip("x", "1")>>, <<With("x", "y", <<Strip("x", "1")>>), Strip("y", "2")>>,
             <<Filtered("strip", "1", <<Strip("x", "2"), Variable("y", NoFilter, "3")>>)>>}
Again == {<<Strip("x", "1"), Conditional(<<IncludeWith("b", with, only)>>)>> : with \in Bindings, only \in BOOLEAN}
Filtering2 ==
    {TwoFiles(File({}, <<IncludeWith("b", with, only)>>), File({}, nodes)) :
        with \in Bindings, only \in BOOLEAN, nodes \in Inner \cup Again}
    \cup {TwoFiles(File({}, <<With("x", "y", <<IncludeWith("b", with, only)>>)>>), File({}, nodes)) :
        with \in Bindings, only \in BOOLEAN, nodes \in Inner}
    \cup {TwoFiles(File({"b"}, <<Block("k", <<Strip("x", "1")>> \o more), Strip("y", "2")>>),
                   File({}, <<Block("j", <<Block("k", <<Strip("y", "3")>>)>>), Strip("x", "4")>>)) :
        more \in {<<>>, <<Super>>, <<Include("a")>>}}
Calling(name, at, below, with, only) ==
    <<Strip(name, at), Conditional(<<IncludeWith(below, with, only)>>)>>
ThreeFiles(a, b, c) == Project([a |-> a, b |-> b, c |-> c], [a |-> {"a"}, b |-> {"b"}, c |-> {"c"}], <<>>)
Rounds ==
    {TwoFiles(File({}, Calling("x", "1", "b", with, FALSE)), File({}, Calling("y", "2", "a", back, only))) :
        with, back \in Bindings, only \in BOOLEAN}
    \cup {ThreeFiles(File({}, <<Include("b"), IncludeWith("b", with, FALSE)>>),
                     File({}, Calling("x", "1", "c", back, FALSE)), File({}, Calling("y", "2", "b", back, FALSE))) :
        with, back \in Bindings}
    \cup {ThreeFiles(File({}, Calling("x", "1", "b", with, FALSE) \o more),
                     File({}, Calling("y", "2", below, back, FALSE)), File({}, Calling("x", "3", "a", with, FALSE))) :
        more \in {<<>>, <<Include("c")>>}, below \in {"a", "c"}, with, back \in Bindings}
Libraries ==
    {"own" :> {Registers({"strip"})}, "own" :> {Registers({})}, "own" :> {Registers({"strip"}), Registers({"safe"})},
     "own" :> {UnreadLibrary}, <<>>}
Loading ==
    {Project([a |-> File({}, nodes)], [a |-> {"a"}], libraries) : libraries \in Libraries,
        nodes \in {<<Load("own"), Strip("x", "1")>>, <<Strip("x", "1"), Load("own"), Strip("y", "2")>>,
                   <<Load("own"), Load("static"), Block("k", <<Strip("x", "1")>>)>>}}

MCProjects == Flats \cup Pages2 \cup Pages3 \cup Filtering2 \cup Rounds \cup Loading
EscapedOnce == [p \in MCProjects |-> Escaped(p)]
Settled1 == [p \in MCProjects |-> ProjectTemplates(p)]
MCEscapedIn(p) == EscapedOnce[p]
MCReachedIn(p) == Settled1[p]
=============================================================================
