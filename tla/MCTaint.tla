-------------------------------- MODULE MCTaint --------------------------------
(* A main function that reads a source, calls f and gives something to a   *)
(* sink, with every f of a catalogue; and classes whose methods share what *)
(* they store in their object.                                             *)
EXTENDS Taint

MCKinds == {"html", "cmd"}
Symbols == {"read", "env", "escape", "quote", "make", "render", "system"}
MCSourceOf == [e \in Symbols |-> CASE e = "read" -> {"html", "cmd"} [] e = "env" -> {"cmd"} [] OTHER -> {}]
MCClears == [e \in Symbols |-> CASE e = "escape" -> {"html"} [] e = "quote" -> {"cmd"} [] OTHER -> {}]
MCSinkOf == [e \in Symbols |-> CASE e = "render" -> <<{"html"}>> [] e = "system" -> <<{"cmd"}>> [] OTHER -> <<>>]

Sink(v) == {<<External(19, s, <<v>>)>> : s \in {"render", "system"}}
Line(code, v) == <<Block(code, Return(v))>>
Choice(code, left, right, phi, v) ==
    <<Block(code, Branch(2, 3)), Block(left, Jump(4)), Block(right, Jump(4)), Block(phi, Return(v))>>
Loop(code, iterable, body, v) ==
    <<Block(code, Jump(2)), Block(<<>>, ForNext(8, iterable, 3, 4)), Block(body, Jump(2)), Block(<<>>, Return(v))>>

\* main: 1 is what it read, 2 a container, 3 what f returned.
Before(i) == <<External(1, i, <<>>), Build(2, TRUE, <<>>), Call(3, "f", <<1, 2>>)>>
Mains ==
    {Line(Before(i) \o s, 0) : i \in {"read", "env"}, s \in Sink(3)}
    \cup {Line(Before("read") \o s, 0) : s \in Sink(2)}
    \cup {Line(Before("read") \o <<Load(4, field, 2)>> \o s, 0) : field \in Fields, s \in Sink(4)}
    \cup {Line(Before("read") \o <<Load(4, "elements", 3)>> \o s, 0) : s \in Sink(4)}
    \cup {Line(Before("read") \o <<NonlocalResult(4, "f", <<1, 2>>, v)>> \o s, 0) : v \in {1, 2}, s \in Sink(4)}
    \cup {Loop(Before("read"), 2, s, 0) : s \in Sink(8)}

\* f and g: 1 is a text, 2 a container.
Simple ==
    {Line(<<>>, 1), Line(<<Text(3, <<1>>)>>, 3), Line(<<Build(3, TRUE, <<1>>)>>, 3),
     Line(<<External(3, "escape", <<1>>), External(4, "quote", <<3>>)>>, 4), Line(<<External(3, "escape", <<1>>)>>, 3),
     Line(<<External(3, "env", <<>>)>>, 3), Line(<<External(3, "make", <<1>>)>>, 3),
     Line(<<AppendTo(2, 1)>>, 0), Line(<<Store("attributes", 2, 1)>>, 0),
     Line(<<External(3, "escape", <<1>>), AppendTo(2, 3)>>, 0),
     Line(<<External(3, "system", <<1>>)>>, 0), Line(<<External(3, "escape", <<1>>), External(4, "render", <<3>>)>>, 1),
     Line(<<SetNonlocal(1)>>, 0), Line(<<External(3, "quote", <<1>>), SetNonlocal(3)>>, 1)}
Others ==
    {Choice(<<>>, <<External(3, "escape", <<1>>)>>, raw, <<Phi(5, [b \in {2, 3} |-> IF b = 2 THEN 3 ELSE 4])>>, 5) :
        raw \in {<<Text(4, <<1>>)>>, <<External(4, "quote", <<1>>)>>, <<External(4, "escape", <<1>>)>>}}
    \cup {Choice(<<>>, <<SetNonlocal(1)>>, right, <<>>, 0) : right \in {<<>>, <<SetNonlocal(2)>>}}
    \cup {Choice(<<>>, <<Call(3, "f", <<1, 2>>)>>, <<Build(4, TRUE, <<>>)>>, <<Phi(5, [b \in {2, 3} |-> IF b = 2 THEN 3 ELSE 1])>>, 5)}
    \cup {Loop(<<>>, 2, <<AppendTo(2, 1)>>, 8), Loop(<<AppendTo(2, 1)>>, 2, <<External(9, "system", <<8>>)>>, 1)}
    \cup {<<Block(<<>>, Branch(2, 3)), DeadBlock(<<External(3, "system", <<1>>)>>, Jump(3)), Block(<<>>, Return(1))>>,
          <<Block(<<>>, Branch(2, 3)), DeadBlock(<<>>, Return(0)), Block(<<SetNonlocal(2)>>, Return(0))>>}
Nested ==
    {Line(<<Call(3, "g", <<1, 2>>), Load(4, "elements", 2)>>, v) : v \in {3, 4}}
    \cup {Line(<<External(3, "escape", <<1>>), Call(4, "g", <<3, 2>>)>>, 4), Line(<<Call(3, "g", <<2, 2>>)>>, 3)}

Program(functions, entries, class) == [functions |-> functions, entries |-> entries, class |-> class]
OfMain ==
    {Program([main |-> Function(0, m), f |-> Function(2, f)], {"main"}, FALSE) : m \in Mains, f \in Simple \cup Others}
    \cup {Program([main |-> Function(0, m), f |-> Unsupported(Function(2, Line(<<>>, 1)))], {"main"}, FALSE) : m \in Mains}
    \cup {Program([main |-> Function(0, m), f |-> Function(2, f), g |-> Function(2, g)], {"main"}, FALSE) :
             m \in Mains, f \in Nested, g \in Simple}

\* Methods of a class: 1 is the object, 2 what the framework gives.
Getters == {Line(<<Load(3, "attributes", 1)>> \o s, 0) : s \in Sink(3)}
Posters ==
    {Line(<<Store("attributes", 1, 2)>>, 0), Line(<<External(3, "escape", <<2>>), Store("attributes", 1, 3)>>, 0),
     Line(<<External(3, "env", <<>>), Store("attributes", 1, 3)>>, 0), Line(<<Call(3, "f", <<2, 1>>)>>, 3)}
OfClass ==
    {Program([get |-> Function(2, g), post |-> Function(2, p), f |-> Function(2, f)], {"get", "post"}, TRUE) :
        g \in Getters, p \in Posters, f \in Simple}
OfEntry ==
    {Program([main |-> Function(1, Line(code \o s, 0))], {"main"}, FALSE) :
        code \in {<<Text(2, <<1>>)>>, <<External(2, "escape", <<1>>)>>, <<External(2, "quote", <<1>>)>>}, s \in Sink(2)}

MCPrograms == OfMain \cup OfClass \cup OfEntry
=============================================================================
