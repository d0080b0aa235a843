------------------------------ MODULE MCAdvisories ------------------------------
(* Calls of a library with every form of argument, on a receiver that was   *)
(* prepared on some paths or escapes, of methods and instances, and the     *)
(* requirements and advisories that decide whether they matter.             *)
EXTENDS AdvisoryExecution

MCTemplateCalls == {<<"lib", "filter">>}
MCInstallable == {<<1>>, <<1, 5>>, <<2>>, <<3>>}

Lib == <<"lib">>
Of(name) == <<"lib", name>>
Class(bases, methods) == [bases |-> bases, methods |-> methods]
MCModule ==
    [name |-> "app",
     imports |-> "lib" :> Lib,
     bindings |-> <<[name |-> "session", value |-> Expression("lib", <<Get("open"), Apply, Get("Session")>>)],
                    [name |-> "client", value |-> Expression("lib", <<Get("Mongo"), Apply>>)],
                    [name |-> "shop", value |-> Expression("client", <<Index>>)]>>,
     classes |-> "Page" :> Class(<<Expression("lib", <<Get("Base")>>)>>, {"go", "__init__"}) @@ "Plain" :> Class(<<>>, {"run"})
                 @@ "Item" :> Class(<<Expression("Plain", <<>>), Expression("lib", <<Get("Other")>>)>>, {}),
     functions |-> {"helper"},
     members |-> Of("Mongo") :> [dynamic |-> Of("Db"), defined |-> {"close"}, typed |-> "one" :> Of("Row")],
     signatures |-> <<[base |-> Of("Base"), parameters |-> <<Of("Request")>>]>>]

\* The same module, where model is a class of this package or of another.
MCModules == [root \in {"app", "other"} |-> [MCModule EXCEPT !.imports = @ @@ "model" :> <<root, "Item">>]]

Function(name, parameters, blocks) ==
    [name |-> name, parameters |-> parameters, blocks |-> blocks, static |-> FALSE, inputs |-> {}]
Straight(code) == 0 :> Code(code, Returning(0))
Plain == <<"f">>

Spanning(clauses) == {clauses}
Clause(operator, version) == [operator |-> operator, version |-> version]
Requirement == [name |-> "lib", range |-> Spanning({Clause(">=", <<1>>)}), pinned |-> <<>>, dependents |-> {}]
Pinned(v) == [Requirement EXCEPT !.pinned = v]
Advisory(entries) ==
    [package |-> "lib", vulnerable |-> Spanning({Clause("<", <<2>>)}), affected |-> {}, entries |-> entries]
Project(f, entries) ==
    [module |-> "app", function |-> f, requirements |-> {Pinned(<<1, 5>>)}, advisories |-> {Advisory(entries)},
     partial |-> FALSE, templates |-> {}, unread |-> FALSE]

-----------------------------------------------------------------------------
(* lib.load with one argument given in every way, the first parameter an input. *)
Lead == <<Name(2, "lib"), Attribute(3, 2, "load"), Literal(4, <<"False">>), Literal(5, <<"True">>),
          Attribute(6, 2, "Safe"), Literal(7, <<"verify">>)>>
Mappings ==
    {<<Dict(8, <<<<7, v>>>>, <<>>, "items")>> : v \in {1, 4, 5}}
    \cup {<<Name(11, "dict"), Call(8, 11, <<>>, <<<<"verify", 4>>>>, <<>>)>>}
Within(m) == m \o <<Dict(9, <<<<7, 5>>>>, <<8>>, "items")>>
Unpacked(v) == <<<<"**", v>>>>
Loads ==
    {<<Call(10, 3, a, k, <<>>)>> : a \in {<<>>, <<1>>, <<4>>, <<6>>}, k \in {<<>>} \cup {<<<<"verify", v>>>> : v \in {1, 4, 5}}}
    \cup {<<Call(10, 3, <<4>>, <<>>, <<1>>), Call(12, 3, <<>>, <<<<"verify", 4>>>>, <<1>>)>>,
          <<Call(10, 3, <<>>, Unpacked(1), <<>>)>>, <<Call(10, 3, <<4, 1>>, <<>>, <<>>)>>, <<Url(8, 1), Call(10, 3, <<8>>, <<>>, <<>>)>>,
          <<Url(8, 1), Call(10, 3, <<8>>, <<<<"allow_redirects", 4>>>>, <<>>)>>}
    \cup {m \o <<Call(10, 3, <<1>>, Unpacked(8), <<>>)>> : m \in Mappings}
    \cup {m \o <<SetItem(8, 7, 4), Call(10, 3, <<1>>, Unpacked(8), <<>>)>> : m \in Mappings}
    \cup {Within(m) \o <<Call(10, 3, <<1>>, Unpacked(9), <<>>)>> : m \in Mappings}
    \cup {<<Dict(9, <<>>, <<1>>, "items"), Call(10, 3, <<>>, Unpacked(9), <<>>)>>}
Asked ==
    {Argument("verify", 1, {<<"False">>}, FALSE), Argument("verify", 0, {<<"False">>, Of("Safe")}, TRUE),
     Present("verify", 1), Host("url", 1), KeywordName}
Load(conditions, attackers) == [EntryPoint(Of("load"), conditions) EXCEPT !.attackers = attackers]
Entries ==
    {Load({c}, {}) : c \in Asked} \cup {Load({Host("url", 1), Present("verify", 0)}, {})}
    \cup {Load({c}, {a}) : c \in {Present("verify", 1), KeywordName}, a \in {Attacked("verify", 1, FALSE), Attacked("url", 1, TRUE)}}
Loading(code, e) == Project([Function(Plain, <<<<>>>>, Straight(Lead \o code)) EXCEPT !.inputs = {1}], {e})

-----------------------------------------------------------------------------
(* A session is prepared, then used, or only on some paths, or repeatedly.  *)
Make == <<Name(2, "lib"), Attribute(3, 2, "Session"), Call(4, 3, <<>>, <<>>, <<>>), Literal(5, <<"False">>), Literal(6, <<"True">>)>>
Prepare(v) == <<Attribute(7, v, "prepare"), Call(8, 7, <<>>, <<<<"verify", 6>>>>, <<>>)>>
PrepareSo(v) == <<Attribute(7, v, "prepare"), Call(8, 7, <<>>, <<<<"verify", 5>>>>, <<>>)>>
Fetch(v) == <<Attribute(9, v, "get"), Call(10, 9, <<>>, <<>>, <<>>)>>
FetchSo(v) == <<Attribute(9, v, "get"), Call(10, 9, <<>>, <<<<"verify", 5>>>>, <<>>)>>
Once(first, then) == Straight(Make \o first \o then)
Maybe(first, then) == 0 :> Code(Make, Choose(1, 2)) @@ 1 :> Code(first, Jump(2)) @@ 2 :> Code(then, Returning(0))
Either(first, then) == 0 :> Code(Make, Choose(1, 2)) @@ 1 :> Code(first, Jump(3)) @@ 2 :> Code(then, Jump(3)) @@ 3 :> Code(<<>>, Returning(4))
Looping(first, then) == 0 :> Code(Make, Jump(1)) @@ 1 :> Code(then, Choose(2, 3)) @@ 2 :> Code(first, Jump(1)) @@ 3 :> Code(<<>>, Returning(0))
Remade(first, then) == 0 :> Code(<<>>, Jump(1)) @@ 1 :> Code(Make \o then \o first, Choose(1, 2)) @@ 2 :> Code(<<>>, Returning(0))
Escaping ==
    {<<>>, <<SetAttr(1, 4)>>, <<Name(11, "helper"), Call(12, 11, <<4>>, <<>>, <<>>)>>, <<Attribute(11, 2, "send"), Call(12, 11, <<4>>, <<>>, <<>>)>>,
     <<Attribute(11, 4, "close"), Call(12, 11, <<>>, <<>>, <<>>)>>}
Merged(first, then) ==
    0 :> Code(Make, Choose(1, 2)) @@ 1 :> Code(first, Jump(3)) @@ 2 :> Code(<<Call(13, 3, <<>>, <<>>, <<>>)>>, Jump(3))
    @@ 3 :> Code(<<Phi(14, <<<<1, 4>>, <<2, 13>>>>), Attribute(15, 14, "prepare"), Call(16, 15, <<>>, <<<<"verify", 6>>>>, <<>>)>> \o then,
                 Returning(0))
Entering == <<Name(2, "lib"), Attribute(3, 2, "Session"), Call(12, 3, <<>>, <<>>, <<>>), Enter(4, 12), Literal(5, <<"False">>), Literal(6, <<"True">>)>>
Sessions ==
    {Once(first \o e, Fetch(4)) : first \in {<<>>, Prepare(4), PrepareSo(4)}, e \in Escaping} \cup {Once(Prepare(4), FetchSo(4))}
    \cup (UNION {{Maybe(first, then), Either(first, then), Looping(first, then), Remade(first, then), Merged(first, then)} :
                   first \in {Prepare(4), PrepareSo(4)}, then \in {Fetch(4), FetchSo(4)}})
    \cup {Straight(Entering \o Fetch(4)), Straight(Entering \o Prepare(4) \o Fetch(4)),
          Straight(Make \o <<Await(11, 4), Attribute(7, 11, "prepare"), Call(8, 7, <<>>, <<<<"verify", 6>>>>, <<>>)>> \o Fetch(11)),
          Looping(<<>>, FetchSo(4)), Looping(<<>>, Fetch(4))}
SessionOf(name) == <<"lib", "Session", name>>
Orders ==
    {Earlier(<<"Session", "prepare">>, "", {}, FALSE), Earlier(SessionOf("prepare"), "verify", {<<"True">>}, FALSE),
     Earlier(<<"prepare">>, "verify", {<<"False">>}, TRUE), Earlier(<<"Session", "get">>, "verify", {<<"False">>}, FALSE)}
Using(g, o) == Project(Function(Plain, <<<<>>>>, g), {EntryPoint(SessionOf("get"), {o})})

-----------------------------------------------------------------------------
(* What is called: methods, instances, results, items, functions.           *)
Called1(code, v) == code \o <<Call(20, v, <<>>, <<>>, <<>>)>>
ByPlain ==
    {Called1(code, 9) : code \in
        {<<Name(9, "helper")>>, <<Name(9, "Page")>>, <<Name(9, "Plain")>>, <<Name(9, "session")>>, <<Name(9, "unknown")>>,
         <<Name(2, "client"), Attribute(9, 2, "close")>>, <<Name(2, "client"), Attribute(9, 2, "orders")>>,
         <<Name(2, "client"), Attribute(3, 2, "one"), Attribute(9, 3, "drop")>>, <<Name(2, "client"), Item(3, 2), Attribute(9, 3, "drop")>>,
         <<Name(2, "shop"), Attribute(9, 2, "drop")>>, <<MakeFunction(9, "inner")>>,
         <<Name(2, "Page"), Attribute(9, 2, "go")>>, <<Name(2, "Plain"), Call(3, 2, <<>>, <<>>, <<>>), Attribute(9, 3, "run")>>,
         <<Name(2, "Page"), Call(3, 2, <<>>, <<>>, <<>>), Attribute(9, 3, "stop")>>,
         <<Name(2, "Item"), Call(3, 2, <<>>, <<>>, <<>>), Attribute(9, 3, "stop")>>,
         <<Name(2, "session"), Call(9, 2, <<>>, <<>>, <<>>)>>, <<Name(2, "session"), Call(3, 2, <<>>, <<>>, <<>>), Attribute(9, 3, "drop")>>,
         <<Name(2, "session"), Call(3, 2, <<>>, <<>>, <<>>), Item(9, 3)>>, <<Name(2, "session"), Call(3, 2, <<>>, <<>>, <<>>), Enter(9, 3)>>}}
ByTyped ==
    {<<name, parameters, Called1(code, 9)>> :
        <<name, parameters>> \in {<<"Page", "go">>} \X {<<<<>>, <<>>>>, <<<<>>, <<"lib">>>>}
                                   \cup {<<"Plain", "run">>} \X {<<<<>>, <<>>>>, <<<<>>, <<"lib">>>>, <<<<>>, <<"Page">>>>},
        code \in {<<Attribute(9, v, attribute)>> : v \in {1, 2}, attribute \in {"go", "stop"}}
                     \cup {<<Attribute(3, 2, "form"), Attribute(9, 3, "get")>>}}
Read1 == [EntryPoint(<<"lib", "Request", "form">>, {}) EXCEPT !.read = TRUE]
Tailed == [EntryPoint(<<"orm", "annotate">>, {Present("alias", 1)}) EXCEPT !.suffixes = {<<"objects", "annotate">>}]
Calling ==
    {Project(Function(Plain, <<>>, Straight(code)), {EntryPoint(Of("Db") \o <<"drop">>, {})}) : code \in ByPlain}
    \cup {Project(Function(x[1], x[2], Straight(x[3])), {Read1}) : x \in ByTyped}
    \cup {[Project(Function(Plain, <<<<>>>>, Straight(<<Name(2, "model"), Attribute(3, 2, "objects"), Attribute(4, 3, "annotate"),
                                                       Call(5, 4, arguments, <<>>, <<>>)>>)), {Tailed})
              EXCEPT !.module = root] : root \in {"app", "other"}, arguments \in {<<>>, <<1>>}}

-----------------------------------------------------------------------------
(* What is required, and what else may reach the package.                   *)
Simple == Function(Plain, <<>>, Straight(<<Name(2, "lib"), Attribute(3, 2, "load"), Call(10, 3, <<>>, <<>>, <<>>)>>))
Filter == EntryPoint(Of("filter"), {})
Requiring ==
    {[Project(Simple, {EntryPoint(Of(name), {})}) EXCEPT !.requirements = {r}] :
        name \in {"load", "dump"}, r \in {Requirement, Pinned(<<1, 5>>), Pinned(<<3>>), [Requirement EXCEPT !.range = Spanning({Clause("~=", <<1, 5>>)})],
                                          [Requirement EXCEPT !.range = Spanning({Clause("^", <<2>>)})]}}
    \cup {[Project(Simple, {EntryPoint(Of("dump"), {})}) EXCEPT !.requirements = {[Requirement EXCEPT !.dependents = d]}, !.partial = partial] :
             d \in {{Unlocked}, {"other"}, {}}, partial \in BOOLEAN}
    \cup {[Project(Simple, {}) EXCEPT !.advisories = {[Advisory({}) EXCEPT !.affected = {Of(name)}]}] : name \in {"load", "dump"}}
    \cup {[Project(Simple, {Filter}) EXCEPT !.templates = templates, !.unread = unread] : templates \in {{}, {Of("filter")}}, unread \in BOOLEAN}

MCProjects ==
    {Loading(code, e) : code \in Loads, e \in Entries} \cup {Using(g, o) : g \in Sessions, o \in Orders} \cup Calling \cup Requiring
MCReport ==
    LET sitesOf == [x \in {<<p.module, p.function>> : p \in MCProjects} |-> Sites(MCModules[x[1]], x[2])]
    IN  [p \in MCProjects |-> Reported(p, sitesOf[<<p.module, p.function>>])]
MCHeld == [p \in MCProjects |-> HeldBy(p)]
=============================================================================
