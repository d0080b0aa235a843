--------------------------- MODULE AdvisoryExecution ---------------------------
(***************************************************************************)
(* A function of a project, run with some version of a package installed:  *)
(* the objects its values hold, what each call really calls and with what, *)
(* and what was called before on the same object.                          *)
(***************************************************************************)
EXTENDS Correlation

CONSTANTS
    Projects,           \* one of the modules, a function of it, requirements and advisories
    Report,             \* the findings, exclusions and statuses of each (Reported)
    Held,               \* what the parameters and names of each hold (HeldBy)
    Installable,        \* versions
    MaxMade             \* objects made in a run

\* A thing has a name; an object that a call made knows what it was made by, and the
\* attributes of an object know it.
Object(kind, name, id) == [kind |-> kind, name |-> name, id |-> id, entries |-> <<>>]
Thing(name) == Object("thing", name, 0)
Mapping(entries) == [Object("mapping", <<>>, 0) EXCEPT !.entries = entries]
Opaque == Object("opaque", <<>>, 0)
\* What the caller may pass: things, constants, and mappings and texts of its own.
Chosen == "chosen"
Values0 == {Thing(<<"lib", "Safe">>), Object("literal", <<"True">>, 0), Object("input", <<Chosen>>, 0)}
Mappings0 == {Mapping(<<>>), Mapping(<<<<"verify", Object("literal", <<"False">>, 0)>>>>), Mapping(<<<<Chosen, Opaque>>>>)}

VARIABLES project, installed, block, at, env, made, history, event
vars == <<project, installed, block, at, env, made, history, event>>

M == Modules[project.module]
F == project.function
Quiet == [is |-> "quiet"]

Allowed(p) == {v \in Installable : \A r \in p.requirements : IF r.pinned # <<>> THEN v = r.pinned ELSE Satisfies(v, r.range)}
Init ==
    /\ project \in Projects
    /\ installed \in Allowed(project)
    /\ block = Entry /\ at = 1
    /\ env \in Held[project].given
    /\ made = 0 /\ history = {} /\ event = Quiet

Here == F.blocks[block]
Running == at <= Len(Here.code)
Current == Here.code[at]

\* The attributes and items of things and objects, as the classes of libraries give them.
Gives(m, o, name) ==
    IF o.name \in DOMAIN m.members
    THEN LET c == m.members[o.name]
         IN  CASE name \in DOMAIN c.typed -> c.typed[name]
               [] name \notin DOMAIN c.typed /\ c.dynamic # <<>> /\ name \notin c.defined -> c.dynamic
               [] OTHER -> Append(o.name, name)
    ELSE Append(o.name, name)
\* A base of the module is asked for its methods before the bases that follow it.
InheritedBy(m, o, name, bases) ==
    LET has(b) == b.name \notin DOMAIN m.classes \/ name \in m.classes[b.name].methods
        first == SelectSeq(bases, has)
    IN  CASE first = <<>> -> Opaque
          [] first # <<>> /\ first[1].name \in DOMAIN m.classes -> Object("known", <<first[1].name, name>>, 0)
          [] OTHER -> Object("thing", Append(m.imports[first[1].name] \o [k \in DOMAIN first[1].steps |-> first[1].steps[k][2]], name), o.id)
AttributeOf(m, o, name) ==
    CASE o.kind \in {"thing", "made"} -> Object("thing", Gives(m, o, name), IF o.kind = "made" THEN o.id ELSE 0)
      [] o.kind \in {"instance", "class"} ->
            CASE name \in m.classes[o.name[1]].methods -> Object("known", <<o.name[1], name>>, 0)
              [] name \notin m.classes[o.name[1]].methods /\ o.kind = "instance" ->
                    InheritedBy(m, o, name, m.classes[o.name[1]].bases)
              [] OTHER -> Opaque
      [] OTHER -> Opaque
\* What an object was made by is the name of what it is; itself, it is called through
\* __call__.
NameWhenCalled(o) == IF o.kind = "made" THEN Append(o.name, "__call__") ELSE o.name
ResultOf(o, id) == IF o.kind \in {"thing", "made"} THEN Object("made", o.name, id) ELSE Opaque
ItemOf(m, o, id) ==
    IF o.kind \in {"thing", "made"}
    THEN Object("made", IF o.name \in DOMAIN m.members /\ m.members[o.name].dynamic # <<>> THEN m.members[o.name].dynamic ELSE o.name, id)
    ELSE Opaque

\* What a name of the module holds when the function runs.
Global0(m, n) ==
    CASE n \in DOMAIN m.imports -> Thing(m.imports[n])
      [] n \in DOMAIN m.classes -> Object("class", <<n>>, 0)
      [] n \in m.functions -> Object("known", <<n>>, 0)
      [] n \in Builtins -> Thing(DictClass)
      [] OTHER -> Opaque
Holds(m, n) ==
    LET step(o, s) == CASE s[1] = "attribute" -> AttributeOf(m, o, s[2])
                        [] s[1] = "call" -> ResultOf(o, 0)
                        [] s[1] = "item" -> ItemOf(m, o, 0)
        bind(known, b) ==
            LET start == IF b.value.name \in DOMAIN known THEN known[b.value.name] ELSE Global0(m, b.value.name)
            IN  [x \in DOMAIN known \cup {b.name} |-> IF x = b.name THEN FoldLeft(step, start, b.value.steps) ELSE known[x]]
        bound == FoldLeft(bind, <<>>, m.bindings)
    IN  IF n \in DOMAIN bound THEN bound[n] ELSE Global0(m, n)
\* An object given to a parameter is of the class its annotation, or the base of its
\* method's class, says.
GivenTo(m, f, p) ==
    CASE ClassAnnotated(m, f, p) # "" -> {Object("instance", <<ClassAnnotated(m, f, p)>>, 0)}
      [] p = 1 /\ Owner(m, f) # "" -> {Object("instance", <<Owner(m, f)>>, 0)}
      [] ParameterSymbol(m, f, p) # NoSymbol -> {Object("made", ParameterSymbol(m, f, p), 0)}
      [] OTHER -> IF p \in f.inputs THEN Values0 \cup Mappings0 ELSE {Opaque}
HeldBy(p) ==
    LET f == p.function
        given == [k \in DOMAIN f.parameters |-> GivenTo(Modules[p.module], f, k)]
    IN  [given |-> {[v \in Values(f) |-> IF v \in DOMAIN f.parameters THEN g[v] ELSE Opaque] :
                       g \in {h \in [DOMAIN given -> UNION {given[k] : k \in DOMAIN given}] : \A k \in DOMAIN given : h[k] \in given[k]}},
         names |-> [n \in {i.name : i \in {j \in Instructions(f) : j.op = "name"}} |-> Holds(Modules[p.module], n)]]

-----------------------------------------------------------------------------
(* Steps.                                                                  *)

Step(to, o, count) ==
    /\ at' = at + 1
    /\ env' = IF to = 0 THEN env ELSE [env EXCEPT ![to] = o]
    /\ made' = made + count
    /\ UNCHANGED <<project, installed, block>>

\* A later entry of a mapping replaces an earlier one.
Updated(entries, more) == SelectSeq(entries, LAMBDA e : \A k \in DOMAIN more : more[k][1] # e[1]) \o more
Displayed(i) ==
    LET own == FoldLeft(Updated, <<>>, [k \in DOMAIN i.items |-> <<<<env[i.items[k][1]].name[1], env[i.items[k][2]]>>>>])
        unpacked == FoldLeft(Updated, <<>>, [k \in DOMAIN i.unpacked |-> env[i.unpacked[k]].entries])
    IN  Mapping(IF i.last = "items" THEN Updated(unpacked, own) ELSE Updated(own, unpacked))

Read ==
    /\ Running /\ Current.op \in {"name", "attribute"}
    /\ LET o == IF Current.op = "name" THEN Held[project].names[Current.name] ELSE AttributeOf(M, env[Current.of[1]], Current.name)
       IN  /\ Step(Current.to, o, 0)
           /\ event' = IF o.kind = "thing" THEN [is |-> "read", name |-> o.name] ELSE Quiet
    /\ UNCHANGED history

\* What a with statement enters is the object itself, or another.
Evaluate ==
    /\ Running /\ Current.op \in {"literal", "item", "await", "enter", "dict", "function", "url"}
    /\ made < MaxMade
    /\ LET i == Current
           o == IF i.of = <<>> THEN Opaque ELSE env[i.of[1]]
       IN  CASE i.op = "literal" -> Step(i.to, Object("literal", i.text, 0), 0)
             [] i.op = "function" -> Step(i.to, Object("known", Append(F.name, i.name), 0), 0)
             [] i.op = "dict" -> Step(i.to, Displayed(i), 0)
             [] i.op = "url" -> Step(i.to, Object("url", o.name, 0), 0)
             [] i.op \in {"item", "await"} -> Step(i.to, ItemOf(M, o, made + 1), 1)
             [] i.op = "enter" -> Step(i.to, o, 0) \/ Step(i.to, ResultOf(o, made + 1), 1)
    /\ event' = Quiet
    /\ UNCHANGED history

Change ==
    /\ Running /\ Current.op = "setitem"
    /\ LET i == Current
       IN  Step(i.of[1], Mapping(Updated(env[i.of[1]].entries, <<<<env[i.of[2]].name[1], env[i.of[3]]>>>>)), 0)
    /\ event' = Quiet
    /\ UNCHANGED history

\* Whoever is given an object may call its methods.
Passed(o) ==
    LET prepared(x) == [receiver |-> x.id, name |-> Append(x.name, "prepare"), positional |-> <<>>, keywords |-> <<>>]
    IN  {{}} \cup IF o.kind = "made" /\ o.id # 0 THEN {{prepared(o)}} ELSE {}
Share ==
    /\ Running /\ Current.op = "setattr"
    /\ \E calls \in Passed(env[Current.of[2]]) : history' = history \cup calls
    /\ Step(0, Opaque, 0)
    /\ event' = Quiet

\* A call binds what it unpacks, runs, and makes an object.
Invoke ==
    /\ Running /\ Current.op = "call"
    /\ made < MaxMade
    /\ \E extra \in IF Current.starred = <<>> THEN {<<>>} ELSE {<<>>, <<Object("literal", <<"True">>, 0)>>} :
       \E calls \in (UNION {Passed(env[Current.arguments[k]]) : k \in DOMAIN Current.arguments}) \cup {{}} :
          LET i == Current
              o == env[i.callee]
              given(w) == IF w[1] = Unpack THEN env[w[2]].entries ELSE <<<<w[1], env[w[2]]>>>>
              call == [receiver |-> o.id, name |-> NameWhenCalled(o),
                       positional |-> [k \in DOMAIN i.arguments |-> env[i.arguments[k]]] \o extra,
                       keywords |-> FoldLeft(LAMBDA all, w : all \o given(w), <<>>, i.keywords)]
              result == CASE o = Thing(DictClass) -> Mapping(call.keywords)
                          [] o.kind = "class" -> Object("instance", o.name, 0)
                          [] OTHER -> ResultOf(o, made + 1)
          IN  /\ Step(i.to, result, 1)
              /\ history' = history \cup {call} \cup calls
              /\ event' = [is |-> "call", place |-> <<block, at>>, kind |-> o.kind, call |-> call, before |-> history]

Go(target) ==
    LET code == F.blocks[target].code
        phis == {k \in DOMAIN code : code[k].op = "phi"}
        from(phi) == (CHOOSE e \in ToSet(phi.incoming) : e[1] = block)[2]
    IN  /\ block' = target /\ at' = Cardinality(phis) + 1
        /\ env' = [v \in DOMAIN env |-> IF \E k \in phis : code[k].to = v
                                        THEN env[from(CHOOSE i \in ToSet(code) : i.to = v)] ELSE env[v]]
Leave ==
    /\ ~Running
    /\ \E target \in ToSet(Targets(Here.terminator)) : Go(target)
    /\ event' = Quiet
    /\ UNCHANGED <<project, installed, made, history>>

\* Templates, functions that were not analysed, and packages that use this one reach the
\* entry points of advisories too.
Elsewhere ==
    /\ block = Entry /\ at = 1 /\ event = Quiet
    /\ event' \in {[is |-> "elsewhere", advisory |-> a] :
                      a \in {b \in project.advisories :
                                \/ project.partial /\ b.entries # {}
                                \/ \E r \in project.requirements : r.name = b.package /\ r.dependents \notin {{}, {Unlocked}}
                                \/ \E e \in b.entries : e.symbol \in project.templates
                                \/ project.unread /\ TemplateCalls \cap ReachableSymbols(b) # {}}}
    /\ UNCHANGED <<project, installed, block, at, env, made, history>>

Next == Read \/ Evaluate \/ Change \/ Share \/ Invoke \/ Leave \/ Elsewhere
Spec == Init /\ [][Next]_vars

-----------------------------------------------------------------------------
(* What a call really meets.                                               *)

ReallyGiven(call, c) ==
    LET named == SelectSeq(call.keywords, LAMBDA w : w[1] = c.argument)
    IN  CASE named # <<>> -> {named[Len(named)][2]}
          [] named = <<>> /\ c.position \in DOMAIN call.positional -> {call.positional[c.position]}
          [] OTHER -> {}
ReallyArgument(c, call) ==
    LET given == ReallyGiven(call, c)
    IN  CASE given = {} -> c.default
          [] c.kind = "present" -> TRUE
          [] OTHER -> \E o \in given : o.kind \in {"literal", "thing"} /\ o.name \in c.values
Really(c, call, before) ==
    CASE c.kind \in {"argument", "present"} -> ReallyArgument(c, call)
      [] c.kind = "sequence" ->
            \E h \in before : /\ h.receiver = call.receiver /\ h.receiver # 0
                              /\ IsSuffix(c.method, h.name)
                              /\ (c.argument = "" /\ c.position = 0) \/ ReallyArgument(c, h)
      [] c.kind = "keyword" -> \E k \in DOMAIN call.keywords : call.keywords[k][1] = Chosen
      [] c.kind = "host" ->
            \E o \in ReallyGiven(call, c) :
                \/ o.kind = "input"
                \/ o.kind = "url" /\ ~\E k \in DOMAIN call.keywords :
                       call.keywords[k][1] \in {"allow_redirects", "follow_redirects"} /\ call.keywords[k][2].name = <<"False">>
Vulnerable(a) == \E r \in project.requirements : r.name = a.package /\ Satisfies(installed, a.vulnerable)
\* The entry points of an advisory that a call or a read goes through.
ThroughCall(a) ==
    LET name == event.call.name
    IN  {e \in a.entries : e.symbol = name \/ (Len(name) > 1 /\ name[1] = M.name /\ \E t \in e.suffixes : IsSuffix(t, name))}
        \cup {Direct : s \in a.affected \cap {name}}
Reaches(a) ==
    CASE event.is = "call" /\ event.kind \in {"thing", "made"} ->
            \E e \in ThroughCall(a) : ~e.read /\ \A c \in e.conditions : Really(c, event.call, event.before)
      [] event.is = "read" -> \E e \in a.entries : e.read /\ e.symbol = event.name
      [] event.is = "elsewhere" -> event.advisory = a
      [] OTHER -> FALSE

\* Input of the caller arrives at an argument that exploits an entry point.
Arrives(e, call) ==
    LET input(o) == o.kind \in {"input", "url"} \/ \E k \in DOMAIN o.entries : o.entries[k][1] = Chosen
    IN  \/ \E n \in DOMAIN call.positional :
              input(call.positional[n]) /\ (e.attackers = {} \/ \E a \in e.attackers : a.position # 0 /\ (a.position = n \/ (a.variadic /\ a.position < n)))
        \/ \E k \in DOMAIN call.keywords :
              /\ input(call.keywords[k][2]) \/ call.keywords[k][1] = Chosen
              /\ e.attackers = {} \/ \E a \in e.attackers : a.argument \in {call.keywords[k][1], Chosen}

-----------------------------------------------------------------------------
(* Properties.                                                             *)

SitesHere == Report[project].sites

\* A call runs what its site says (interprocedural/callgraph.py: the arguments of a call
\* are never read as another's, #240).
CalledIsResolved ==
    event.is = "call" =>
        LET t == SitesHere[event.place].target
        IN  /\ t.kind = "external" => event.kind \in {"thing", "made"} /\ event.call.name = t.name
            /\ t.kind = "known" => \/ event.kind = "known" /\ event.call.name = t.name
                                   \/ event.kind = "class" /\ Append(event.call.name, "__init__") = t.name

\* A call that is ruled out for an advisory does not meet the conditions of its entry
\* point (dependency/correlation.py: contradicted only when it surely does not).
RuledOutIsHarmless ==
    event.is = "call" =>
        \A x \in Report[project].excluded :
            x[1] = event.place => \E c \in x[3].conditions : ~Really(c, event.call, event.before)

\* A condition that a finding says a call meets holds whenever the call is made; whether
\* its keywords are chosen is up to the input (dependency/correlation.py: an earlier call
\* counts when it surely executes before).
MetConditionsHold ==
    event.is = "call" =>
        \A x \in Report[project].findings :
            x.at = event.place => \A c \in x.met : c.kind = "keyword" \/ Really(c, event.call, event.before)

\* Input that reaches vulnerable code through an argument that exploits it is reported so
\* (dependency/correlation.py, correlate).
InputIsCorrelated ==
    event.is = "call" =>
        \A a \in project.advisories : \A e \in ThroughCall(a) :
            /\ Vulnerable(a) /\ event.kind \in {"thing", "made"}
            /\ \A c \in e.conditions : Really(c, event.call, event.before)
            /\ Arrives(e, event.call)
            => \E x \in Report[project].findings : x.advisory = a /\ x.at = event.place /\ x.level = "exploitable"

\* An advisory whose status is "not affected" is not reached, by the project or by what
\* it installs, whatever version the requirement installs (dependency/vex.py).
NotAffectedIsUnreached ==
    \A a \in project.advisories :
        (Vulnerable(a) /\ Reaches(a)) =>
            \A r \in project.requirements :
                (r.name = a.package) =>
                    Report[project].status[<<a, r>>] \notin {"not affected", "safe"}
=============================================================================
