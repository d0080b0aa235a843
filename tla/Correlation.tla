------------------------------ MODULE Correlation ------------------------------
(***************************************************************************)
(* The advisories a project is affected by (dependency/correlation.py,     *)
(* graph.py and vex.py, bundled/dependency): its calls, reads and template *)
(* filters that reach what an advisory affects, unless the call surely     *)
(* contradicts a condition, and the status of each advisory.               *)
(*                                                                         *)
(* A version is the tuple of its numbers.  A clause is an operator with a  *)
(* version; a range is a set of alternatives, each a set of clauses.       *)
(***************************************************************************)
EXTENDS CallGraph

CONSTANTS
    Modules,            \* by name
    TemplateCalls       \* what the filters of a template may call

-----------------------------------------------------------------------------
(* Versions and ranges.                                                    *)

Part(v, n) == IF n \in DOMAIN v THEN v[n] ELSE 0
Parts(v, w) == 1..(IF Len(v) < Len(w) THEN Len(w) ELSE Len(v))

\* Versions are compared number by number, and are followed by zeros.
Equal(v, w) == \A n \in Parts(v, w) : Part(v, n) = Part(w, n)
Less(v, w) ==
    \E n \in Parts(v, w) :
        /\ Part(v, n) < Part(w, n)
        /\ \A m \in 1..(n - 1) : Part(v, m) = Part(w, m)

Raised(v, n) == [m \in 1..Len(v) |-> IF m < n THEN v[m] ELSE IF m = n THEN v[m] + 1 ELSE 0]

\* What ~= and ^ stay below: the number before the last, or the first that is not
\* zero, is raised.
CompatibleCeiling(v) == IF Len(v) = 1 THEN Raised(v, 1) ELSE Raised(SubSeq(v, 1, Len(v) - 1), Len(v) - 1)
CaretCeiling(v) ==
    Raised(v, CHOOSE n \in 1..Len(v) :
                  /\ v[n] # 0 \/ n = Len(v)
                  /\ \A m \in 1..(n - 1) : v[m] = 0)

SatisfiesClause(v, c) ==
    LET w == c.version
    IN  CASE c.operator = "==" -> Equal(v, w)
          [] c.operator = "==*" -> Len(v) >= Len(w) /\ SubSeq(v, 1, Len(w)) = w
          [] c.operator = "!=" -> ~Equal(v, w)
          [] c.operator = "<" -> Less(v, w)
          [] c.operator = "<=" -> ~Less(w, v)
          [] c.operator = ">" -> Less(w, v)
          [] c.operator = ">=" -> ~Less(v, w)
          [] c.operator = "~=" -> ~Less(v, w) /\ Less(v, CompatibleCeiling(w))
          [] c.operator = "^" -> ~Less(v, w) /\ Less(v, CaretCeiling(w))

Satisfies(v, range) == \E alternative \in range : \A c \in alternative : SatisfiesClause(v, c)

-----------------------------------------------------------------------------
(* The question.                                                           *)

LowerBounds(range) ==
    {c.version : c \in {x \in UNION range : x.operator \in {">=", ">", "~=", "^", "==", "==*"}}}

\* Only the least version and the lower bounds of both ranges are tried.
Candidates(range, other) == {<<0>>} \cup LowerBounds(range) \cup LowerBounds(other)
MayMatch(range, other) ==
    \E v \in Candidates(range, other) : Satisfies(v, range) /\ Satisfies(v, other)

-----------------------------------------------------------------------------
(* Advisories.                                                             *)

\* A condition is on the value of an argument ("argument", or "present" when any value
\* will do), on an earlier call of a method on the receiver, on the host of an argument,
\* or on who chooses the keywords.  Only the first ones name values; default is whether
\* an absent argument means one of them.
Argument(name, position, values, default) ==
    [kind |-> "argument", argument |-> name, position |-> position, values |-> values, default |-> default, method |-> <<>>]
Present(name, position) == [Argument(name, position, {}, FALSE) EXCEPT !.kind = "present"]
Earlier(method, name, values, default) == [Argument(name, 0, values, default) EXCEPT !.kind = "sequence", !.method = method]
Host(name, position) == [Argument(name, position, {}, FALSE) EXCEPT !.kind = "host"]
KeywordName == [Argument("", 0, {}, FALSE) EXCEPT !.kind = "keyword"]

\* An entry point may be reached through the tails of symbols of the project, and name
\* the arguments through which input exploits it.
EntryPoint(symbol, conditions) ==
    [symbol |-> symbol, conditions |-> conditions, read |-> FALSE, attackers |-> {}, suffixes |-> {}]
Direct == EntryPoint(NoSymbol, {})
Attacked(name, position, variadic) == [argument |-> name, position |-> position, variadic |-> variadic]
\* Without what a variadic parameter also receives.
ReceivesOne(a, position, keyword) == IF keyword # "" THEN keyword = a.argument ELSE position \in {0, a.position}
Receives(a, position, keyword) ==
    CASE keyword # "" -> keyword = a.argument
      [] keyword = "" /\ position = 0 -> TRUE
      [] OTHER -> a.position # 0 /\ (position = a.position \/ (a.variadic /\ position > a.position))
ExploitableThrough(entry, way) ==
    entry.attackers = {} \/ \E a \in entry.attackers : Receives(a, way[1], way[2])

\* A pinned requirement installs its version.
Affects(a, r) ==
    r.name = a.package /\ IF r.pinned # <<>> THEN Satisfies(r.pinned, a.vulnerable) ELSE MayMatch(r.range, a.vulnerable)
ReachableSymbols(a) == {e.symbol : e \in a.entries} \cup a.affected
Affecting(p) == {a \in p.advisories : \E r \in p.requirements : Affects(a, r)}

IsTail(t, s) == IsSuffix(t, s) /\ t # s
OfProject(p, s) == Len(s) > 1 /\ s[1] = Modules[p.module].name
\* Without the tails.
NamedEntries(p, s) ==
    {<<a, CHOOSE e \in a.entries : e.symbol = s>> : a \in {b \in Affecting(p) : \E e \in b.entries : e.symbol = s}}
\* The advisories a symbol reaches, each with its entry point, or none for what the fix
\* changed itself.
AffectedEntries(p, s) ==
    LET affecting == Affecting(p)
    IN  {<<a, IF \E e \in a.entries : e.symbol = s THEN CHOOSE e \in a.entries : e.symbol = s ELSE Direct>> :
            a \in {b \in affecting : s \in ReachableSymbols(b)}}
        \cup {<<a, e>> \in UNION {{a} \X a.entries : a \in affecting} :
                 OfProject(p, s) /\ \E t \in e.suffixes : IsTail(t, <<"python">> \o s)}

-----------------------------------------------------------------------------
(* Conditions, decided on what a call site tells.  A way is the position   *)
(* and the keyword that input is passed at; ways are known of flows only.  *)

NoArguments == [positional |-> <<>>, keywords |-> <<>>, unpacked |-> TRUE, keywordUnpacked |-> TRUE]
NoCall == [arguments |-> NoArguments, followed |-> FALSE, prior |-> {}]

JudgedBy(c, g) ==
    CASE g.is = "untold" \/ (g.is = "given" /\ g.value = Untold /\ c.kind # "present") -> "pending"
      [] c.kind = "present" /\ g.is # "untold" -> IF g.is = "given" THEN "met" ELSE "contradicted"
      [] c.kind # "present" /\ g.is = "given" /\ g.value # Untold -> IF g.value \in c.values THEN "met" ELSE "contradicted"
      [] c.kind # "present" /\ g.is = "absent" -> IF c.default THEN "met" ELSE "contradicted"
JudgedOn(c, arguments) == JudgedBy(c, Given(arguments, c.argument, c.position))

Named(symbol, method) == IsSuffix(method, symbol)
FirstCall(c, arguments) == IF c.argument = "" /\ c.position = 0 THEN "met" ELSE JudgedOn(c, arguments)
\* Without what the call itself does in the iteration before.
InSequenceOnce(c, call) ==
    LET candidates == {q \in call.prior : Named(q.symbol, c.method)}
    IN  CASE \E q \in candidates : FirstCall(c, q.arguments) = "met" /\ q.dominates -> "met"
          [] call.followed /\ \A q \in candidates : FirstCall(c, q.arguments) = "contradicted" -> "contradicted"
          [] OTHER -> "pending"
InSequence(c, call) ==
    LET candidates == {q \in call.prior : Named(q.symbol, c.method)}
    IN  CASE \E q \in candidates : FirstCall(c, q.arguments) = "met" /\ q.dominates -> "met"
          [] /\ call.followed
             /\ \A q \in candidates : FirstCall(c, q.arguments) = "contradicted"
             /\ FirstCall(c, call.arguments) = "contradicted" -> "contradicted"
          [] OTHER -> "pending"

RedirectsDisabled(arguments) ==
    \E name \in {"allow_redirects", "follow_redirects"} :
        Given(arguments, name, 0) = [is |-> "given", value |-> <<"False">>]
PassedIn(c, ways) == \E w \in ways : IF w[2] # "" THEN w[2] = c.argument ELSE w[1] # 0 /\ w[1] = c.position

\* fixed says that the text of the argument that carries input fixes its host.
Decided(c, call, ways, fixed) ==
    CASE c.kind \in {"argument", "present"} -> JudgedOn(c, call.arguments)
      [] c.kind = "sequence" -> InSequence(c, call)
      [] c.kind = "host" ->
            IF fixed /\ PassedIn(c, ways) /\ RedirectsDisabled(call.arguments) THEN "contradicted" ELSE "pending"
      [] c.kind = "keyword" ->
            CASE <<0, Unpack>> \in ways -> "met"
              [] <<0, Unpack>> \notin ways /\ call.arguments.keywordUnpacked -> "pending"
              [] OTHER -> "contradicted"
Contradicted(entry, call, ways, fixed) == \E c \in entry.conditions : Decided(c, call, ways, fixed) = "contradicted"
Met(entry, call, ways, fixed) == {c \in entry.conditions : Decided(c, call, ways, fixed) = "met"}

-----------------------------------------------------------------------------
(* Findings.                                                               *)

Found(a, e, level, at, met) == [advisory |-> a, entry |-> e, level |-> level, at |-> at, met |-> met]
NoPlace == <<0 - 1, 0>>

Called(p, sites) ==
    UNION {{q} \X AffectedEntries(p, sites[q].target.name) : q \in {x \in DOMAIN sites : sites[x].target.kind = "external"}}
CallsFound(called, sites) ==
    {Found(x[2][1], x[2][2], "reachable", x[1], Met(x[2][2], sites[x[1]], {}, FALSE)) :
        x \in {y \in called : ~y[2][2].read /\ ~Contradicted(y[2][2], sites[y[1]], {}, FALSE)}}
\* Reading an attribute reads everything it is an attribute of.
ReadsFound(p) ==
    LET read == UNION {{SubSeq(s, 1, n) : n \in 1..Len(s)} : s \in Reads(Modules[p.module], p.function)}
    IN  {Found(ae[1], ae[2], "reachable", NoPlace, Met(ae[2], NoCall, {}, FALSE)) :
            ae \in {x \in UNION {AffectedEntries(p, s) : s \in read} : x[2].read}}
TemplatesFound(p) ==
    {Found(ae[1], ae[2], "reachable", NoPlace, Met(ae[2], NoCall, {}, FALSE)) :
        ae \in UNION {AffectedEntries(p, s) : s \in p.templates}}

\* How a value that carries input is passed.
Ways(f, i, v) ==
    {<<n, "">> : n \in {k \in DOMAIN i.arguments : i.arguments[k] = v}}
    \cup {<<0, "">> : n \in {k \in DOMAIN i.starred : i.starred[k] = v}}
    \cup UNION {CASE w[1] # Unpack -> {<<0, w[1]>>}
                  [] w[1] = Unpack -> {<<0, "">>} \cup (IF v \in f.inputs THEN {<<0, Unpack>>} ELSE {}) :
                w \in {k \in ToSet(i.keywords) : k[2] = v}}
CarriesInput(f, v) ==
    \/ v \in f.inputs
    \/ v \in DOMAIN Defs(f) /\ Defs(f)[v].op \in {"url", "dict"} /\ ToSet(Defs(f)[v].of) \cap f.inputs # {}
FixesHost(f, v) == v \in DOMAIN Defs(f) /\ Defs(f)[v].op = "url"
FlowsFound(f, called, sites) ==
    LET found(x) ==
            LET q == x[1]
                e == x[2][2]
                i == InstructionAt(f, q)
            IN  {Found(x[2][1], e, "exploitable", q, Met(e, sites[q], Ways(f, i, v), FixesHost(f, v))) :
                    v \in {u \in ToSet(Tail(i.of)) :
                              /\ CarriesInput(f, u)
                              /\ e # Direct => \E w \in Ways(f, i, u) : ExploitableThrough(e, w)
                              /\ ~Contradicted(e, sites[q], Ways(f, i, u), FixesHost(f, u))}}
    IN  UNION {found(x) : x \in called}

Findings(p, sites) ==
    LET called == Called(p, sites)
    IN  CallsFound(called, sites) \cup ReadsFound(p) \cup TemplatesFound(p) \cup FlowsFound(p.function, called, sites)

\* The calls that a requirement's finding says do not reach the vulnerable code.
RuledOut(p, sites) ==
    {<<y[1], y[2][1], y[2][2]>> : y \in {x \in Called(p, sites) : Contradicted(x[2][2], sites[x[1]], {}, FALSE)}}

\* The status of an advisory of a requirement, given the findings; dependents are the
\* packages a lock file shows requiring it, {Unlocked} without a lock file.
Unlocked == "unlocked"
Status(p, a, r, findings) ==
    CASE ~Affects(a, r) -> "safe"
      [] Affects(a, r) /\ \E x \in findings : x.advisory = a -> "affected"
      [] OTHER ->
            IF \/ a.entries = {}
               \/ p.partial
               \/ p.unread /\ TemplateCalls \cap ReachableSymbols(a) # {}
               \/ r.dependents # {}
            THEN "under investigation" ELSE "not affected"
Reported(p, sites) ==
    LET findings == Findings(p, sites)
    IN  [sites |-> sites, findings |-> findings, excluded |-> RuledOut(p, sites),
         status |-> [x \in p.advisories \X p.requirements |-> Status(p, x[1], x[2], findings)]]
=============================================================================
