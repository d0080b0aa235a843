------------------------------ MODULE Refutation ------------------------------
(***************************************************************************)
(* The verdict on each taint flow of a function (findings/refutation.py):  *)
(* the conditions that hold at its sink are interpreted, and a flow is     *)
(* refuted when every path from each of its origins goes through a value   *)
(* that they prove safe.                                                   *)
(*                                                                         *)
(* A function has blocks of SSA instructions, each with the value it       *)
(* defines (0 for none) and its operands, and blocks that constant         *)
(* propagation proves dead; a decorator may ask for rights before it runs. *)
(***************************************************************************)
EXTENDS ControlFlowGraph

CONSTANTS
    Kinds,              \* kinds of taint
    ValidatedKinds      \* those a validator model proves

\* Texts: what attackers choose, constants, concatenations, an attribute or item of an
\* object, a conversion to a number.  Tests: of a string's shape, by a validator, by one
\* the engine does not know, of equality and membership, of the user's rights.
Instruction(op, to, of) == [op |-> op, to |-> to, of |-> of]
Source(to) == Instruction("source", to, <<>>)
SourceOf(to, v) == Instruction("source", to, <<v>>)
Constant(to) == Instruction("constant", to, <<>>)
Concat(to, of) == Instruction("concat", to, of)
Access(to, object, name) == Instruction("access", to, <<object>>) @@ [name |-> name]
Number(to, v) == Instruction("number", to, <<v>>)
Shape(to, v) == Instruction("shape", to, <<v>>)
Validate(to, v) == Instruction("validate", to, <<v>>)
Ask(to, v) == Instruction("ask", to, <<v>>)
Equals(to, v, w) == Instruction("equals", to, <<v, w>>) @@ [holds |-> TRUE]
Member(to, v, collection, holds) == Instruction("member", to, <<v, collection>>) @@ [holds |-> holds]
Rights(to) == Instruction("rights", to, <<>>)
Not(to, v) == Instruction("not", to, <<v>>)
And(to, of) == Instruction("and", to, of)
Or(to, of) == Instruction("or", to, of)
\* Collections: a display, a copy, and a change by a method.
Display(to, kind, items) == Instruction(kind, to, items)
Convert(to, kind, collection) == Instruction("convert", to, <<collection>>) @@ [kind |-> kind]
AppendTo(collection, v) == Instruction("append", 0, <<collection, v>>)
Phi(to, incoming) == Instruction("phi", to, [k \in DOMAIN incoming |-> incoming[k][2]]) @@ [incoming |-> incoming]
\* Sinks: of some kinds; and of code selected by name, run where it is invoked.
Sink(v, kinds) == Instruction("sink", 0, <<v>>) @@ [kinds |-> kinds]
Select(to, v) == Instruction("select", to, <<v>>)
Invoke(v) == Instruction("invoke", 0, <<v>>)

BranchOn(v, then, else) == [kind |-> "branch", on |-> v, then |-> then, else |-> else]
Code(code, terminator) == [code |-> code, terminator |-> terminator, handlers |-> <<>>]
Function(blocks, dead) == [blocks |-> blocks, dead |-> dead, decorated |-> FALSE]
Decorated(f) == [f EXCEPT !.decorated = TRUE]

Instructions(f) == UNION {ToSet(f.blocks[b].code) : b \in DOMAIN f.blocks}
BlockOf(f, i) == CHOOSE b \in DOMAIN f.blocks : Contains(f.blocks[b].code, i)
Defs(f) == LET made == {i \in Instructions(f) : i.to # 0}
           IN  [v \in {i.to : i \in made} |-> CHOOSE i \in made : i.to = v]

-----------------------------------------------------------------------------
(* Dependences.                                                            *)

RECURSIVE GrowClosure(_, _)
GrowClosure(defs, found) ==
    LET more == found \cup UNION {ToSet(defs[v].of) : v \in found}
    IN  IF more = found THEN found ELSE GrowClosure(defs, more)
Closure(defs, v) == GrowClosure(defs, ToSet(defs[v].of))
Tainted(defs, v) == \E w \in Closure(defs, v) \cup {v} : defs[w].op = "source"
Origins(defs, v) ==
    {w \in Closure(defs, v) \cup {v} : Tainted(defs, w) /\ \A u \in Closure(defs, w) : ~Tainted(defs, u)}

\* Whether every path from an origin to the argument goes through a proven value.
RECURSIVE Unproven(_, _, _)
Unproven(defs, proven, found) ==
    LET more == found \cup ((UNION {ToSet(defs[v].of) : v \in found}) \ proven)
    IN  IF more = found THEN found ELSE Unproven(defs, proven, more)
CoveredByAny(defs, origin, argument, proven) ==
    origin \in proven \/ proven \cap (Closure(defs, argument) \cup {argument}) # {}
Covered(defs, origin, argument, proven) ==
    origin \in proven \/ origin \notin Unproven(defs, proven, {argument} \ proven)

-----------------------------------------------------------------------------
(* Checks.                                                                 *)

\* A collection of constants: nothing may have changed it before the test.
OnlyRead(f, v) == \A i \in Instructions(f) : Contains(i.of, v) => i.op \in {"member", "equals", "convert", "not"}
RECURSIVE IsConstantCollection(_, _, _)
IsConstantCollection(f, defs, v) ==
    LET d == defs[v]
    IN  CASE d.op = "convert" -> IsConstantCollection(f, defs, d.of[1]) /\ (d.kind = "tuple" \/ OnlyRead(f, v))
          [] d.op \in {"list", "tuple"} ->
                 /\ \A k \in DOMAIN d.of : defs[d.of[k]].op = "constant"
                 /\ d.op = "tuple" \/ OnlyRead(f, v)
          [] OTHER -> FALSE

\* What a test of a known form proves when it has the truth that validates: nothing for
\* another.  Only a membership or an equality limits a value to constants.
NoCheck == [tested |-> {}, truth |-> TRUE, kinds |-> {}, exact |-> FALSE]
Recognised(f, defs, d) ==
    CASE d.op = "shape" -> [tested |-> {d.of[1]}, truth |-> TRUE, kinds |-> Kinds, exact |-> FALSE]
      [] d.op = "validate" -> [tested |-> {d.of[1]}, truth |-> TRUE, kinds |-> ValidatedKinds, exact |-> FALSE]
      [] d.op = "member" /\ IsConstantCollection(f, defs, d.of[2]) ->
            [tested |-> {d.of[1]}, truth |-> d.holds, kinds |-> Kinds, exact |-> TRUE]
      [] d.op = "equals" /\ \E k \in 1..2 : defs[d.of[k]].op = "constant" ->
            [tested |-> {IF defs[d.of[2]].op = "constant" THEN d.of[1] ELSE d.of[2]},
             truth |-> d.holds, kinds |-> Kinds, exact |-> TRUE]
      [] OTHER -> NoCheck

\* What a condition proves and what it mentions.  The truths it may have are a set, as it
\* may not be fixed, and a known test that came out the other way says nothing.
RECURSIVE Interpret(_, _, _, _)
Interpret(f, defs, condition, truths) ==
    LET d == defs[condition]
        check == Recognised(f, defs, d)
        all == Closure(defs, condition) \cup {condition}
        part(k) == Interpret(f, defs, d.of[k], IF truths = {d.op = "and"} THEN truths ELSE BOOLEAN)
    IN  CASE d.op = "not" -> Interpret(f, defs, d.of[1], {~t : t \in truths})
          [] d.op \in {"and", "or"} ->
                 [proven |-> FoldLeft(LAMBDA known, k : part(k).proven @@ known, <<>>, [k \in DOMAIN d.of |-> k]),
                  mentioned |-> UNION {part(k).mentioned : k \in DOMAIN d.of}]
          [] check = NoCheck \/ truths = BOOLEAN -> [proven |-> <<>>, mentioned |-> all]
          [] truths = {check.truth} ->
                 [proven |-> [v \in check.tested |-> [kinds |-> check.kinds, exact |-> check.exact]], mentioned |-> all]
          [] OTHER -> [proven |-> <<>>, mentioned |-> {}]

\* What a guard examines: it may read beside what the flow reads of the same object.
Aside(access, reads) == access \notin reads
AccessOf(defs, v) == IF defs[v].op = "access" THEN {<<defs[v].of[1], defs[v].name>>} ELSE {}
RECURSIVE ExaminedFrom(_, _, _, _)
ExaminedFrom(defs, whole, reads, found) ==
    LET skips(v, w) == \E a \in AccessOf(defs, v) : a[1] = w /\ w \notin whole /\ Aside(a, reads)
        more == found \cup UNION {{w \in ToSet(defs[v].of) : ~skips(v, w)} : v \in found}
    IN  IF more = found THEN found ELSE ExaminedFrom(defs, whole, reads, more)
ExaminedAll(defs, condition, argument) == Closure(defs, condition) \cup {condition}
Examined(defs, condition, argument) ==
    LET chain == Closure(defs, argument) \cup {argument}
        reads == UNION {AccessOf(defs, v) : v \in chain}
        whole == {argument} \cup UNION {ToSet(defs[v].of) : v \in {w \in chain : defs[w].op # "access"}}
    IN  ExaminedFrom(defs, whole, reads, {condition})

RECURSIVE AuthorizedBy(_, _, _)
AuthorizedBy(defs, condition, truth) ==
    LET d == defs[condition]
    IN  CASE d.op = "not" -> AuthorizedBy(defs, d.of[1], ~truth)
          [] d.op \in {"and", "or"} -> (d.op = "and") = truth /\ \E k \in DOMAIN d.of : AuthorizedBy(defs, d.of[k], truth)
          [] OTHER -> d.op = "rights" /\ truth

-----------------------------------------------------------------------------
(* Guards.                                                                 *)

RECURSIVE ReachedAvoiding(_, _, _)
ReachedAvoiding(f, avoiding, found) ==
    LET more == found \cup UNION {ToSet(Successors(f.blocks, b)) : b \in found \ {avoiding}}
    IN  IF more = found THEN found ELSE ReachedAvoiding(f, avoiding, more)
Reaches(f, start, target, avoiding) == target \in ReachedAvoiding(f, avoiding, {start})

Dominators(tree, b) == {a \in tree.reached \ {b} : Dominates(tree, a, b)}
Guards(f, tree, site) ==
    {[condition |-> f.blocks[b].terminator.on, truth |-> Reaches(f, f.blocks[b].terminator.then, site, b)] :
        b \in {a \in Dominators(tree, site) :
                  /\ f.blocks[a].terminator.kind = "branch"
                  /\ Reaches(f, f.blocks[a].terminator.then, site, a) # Reaches(f, f.blocks[a].terminator.else, site, a)}}

-----------------------------------------------------------------------------
(* Flows and verdicts.                                                     *)

\* The selections a callable comes from, each with whether it crossed a back edge.
RECURSIVE SelectionsFrom(_, _, _, _)
SelectionsFrom(f, defs, tree, found) ==
    LET through(p) ==
            IF defs[p[1]].op # "phi" THEN {}
            ELSE {<<e[2], p[2] \/ Dominates(tree, BlockOf(f, defs[p[1]]), e[1])>> : e \in ToSet(defs[p[1]].incoming)}
        more == found \cup UNION {through(p) : p \in found}
    IN  IF more = found THEN found ELSE SelectionsFrom(f, defs, tree, more)
Selections(f, defs, tree, v) == {p \in SelectionsFrom(f, defs, tree, {<<v, FALSE>>}) : defs[p[1]].op = "select"}

FlowAt(argument, site, kinds) ==
    [argument |-> argument, site |-> site, kinds |-> kinds, selects |-> FALSE, selection |-> None, carried |-> FALSE]
Flow(f, defs, tree, i, v) ==
    IF i.op = "sink" THEN FlowAt(v, BlockOf(f, i), i.kinds)
    ELSE [FlowAt(defs[v].of[1], BlockOf(f, i), Kinds) EXCEPT
             !.selects = TRUE, !.selection = BlockOf(f, defs[v]), !.carried = <<v, TRUE>> \in Selections(f, defs, tree, i.of[1])]

Judge(f, defs, tree, flow) ==
    LET argument == flow.argument
        chain == Closure(defs, argument) \cup {argument}
        origins == Origins(defs, argument)
        selection == IF flow.selects THEN {flow.selection} ELSE {}
        sites == selection \cup {flow.site}
        proving == IF flow.carried THEN selection ELSE sites
        found(guards) == {Interpret(f, defs, g.condition, {g.truth}) : g \in guards}
        guards(at) == UNION {Guards(f, tree, site) : site \in at}
        checked ==
            UNION {{v \in DOMAIN r.proven \cap chain :
                       flow.kinds \subseteq r.proven[v].kinds /\ (r.proven[v].exact \/ ~flow.selects)} : r \in found(guards(proving))}
        numbers == IF flow.selects THEN {} ELSE {v \in chain : defs[v].op = "number"}
        proven == checked \cup numbers
        mentions(origin) ==
            \E g \in guards(sites) :
                Examined(defs, g.condition, argument) \cap Interpret(f, defs, g.condition, {g.truth}).mentioned
                    \cap ({origin} \cup {w \in chain : origin \in Closure(defs, w)}) # {}
        open == {o \in origins : ~Covered(defs, o, argument, proven)}
    IN  IF sites \cap f.dead # {} \/ (origins # {} /\ open = {}) THEN "refuted"
        ELSE IF f.decorated \/ \E g \in guards(sites) : AuthorizedBy(defs, g.condition, g.truth) THEN "authorized"
        ELSE IF origins # {} /\ \A o \in open : mentions(o) THEN "guarded" ELSE "vulnerability"

\* The verdicts of a function, by the place of the sink or invocation and the value given.
Verdicts(f) ==
    LET defs == Defs(f)
        tree == DominatorTree(f.blocks)
        given(i) ==
            IF i.op = "sink" THEN ToSet(i.of)
            ELSE IF i.op = "invoke" THEN {p[1] : p \in Selections(f, defs, tree, i.of[1])} ELSE {}
        pairs == UNION {{<<i, v>> : v \in given(i)} : i \in Instructions(f)}
    IN  [p \in pairs |-> Judge(f, defs, tree, Flow(f, defs, tree, p[1], p[2]))]

-----------------------------------------------------------------------------
(* Functions whose flows are judged, run: each test has the outcome its    *)
(* operands give it, and each sink receives what the values hold.          *)

CONSTANTS
    Programs,           \* functions
    Judged(_)           \* the verdicts on one

\* What a value holds: the kinds it is dangerous for, whether it is one of the program's
\* constants, the parts of sources it is made of, and its truth.
Held(danger, exact, parts, truth) == [danger |-> danger, exact |-> exact, parts |-> parts, truth |-> truth]
Nothing == Held({}, TRUE, {}, FALSE)
Whole == "whole"
Given(to) ==
    {Held(danger, FALSE, {<<to, Whole>>}, FALSE) : danger \in {Kinds, Kinds \ ValidatedKinds, {}}}
    \cup {Held({}, TRUE, {<<to, Whole>>}, FALSE)}

VARIABLES program, block, at, env, read, allowed, sink
vars == <<program, block, at, env, read, allowed, sink>>

NoSink == [flow |-> <<>>, held |-> Nothing]
Init ==
    /\ program \in Programs
    /\ block = Entry /\ at = 1
    /\ env = [v \in DOMAIN Defs(program) |-> Nothing]
    /\ read = {} /\ allowed = program.decorated
    /\ sink = NoSink

Here == program.blocks[block]
Running == at <= Len(Here.code)
Current == Here.code[at]
Operands(i) == [k \in DOMAIN i.of |-> env[i.of[k]]]
Made(held) == UNION {held[k].parts : k \in DOMAIN held}
Tested(truth, held) == Held({}, FALSE, Made(held), truth)

\* What each instruction may leave in its value.
Results(i) ==
    LET h == Operands(i)
    IN  CASE i.op = "source" -> Given(i.to)
          [] i.op = "constant" -> {Nothing}
          [] i.op = "number" -> {Held({}, FALSE, Made(h), FALSE)}
          [] i.op = "access" -> {Held(h[1].danger, h[1].exact, {<<p[1], i.name>> : p \in h[1].parts}, FALSE)}
          [] i.op \in {"concat", "list", "tuple", "convert"} ->
                {Held(UNION {h[k].danger : k \in DOMAIN h}, \A k \in DOMAIN h : h[k].exact, Made(h), FALSE)}
          [] i.op = "shape" -> {Tested(h[1].danger = {} /\ ~h[1].exact, h)}
          [] i.op = "validate" -> {Tested(h[1].danger \cap ValidatedKinds = {}, h)}
          [] i.op = "equals" -> {Tested(truth, h) : truth \in IF h[1].exact # h[2].exact THEN {FALSE} ELSE BOOLEAN}
          [] i.op = "member" -> {Tested(truth = i.holds, h) : truth \in IF h[2].exact THEN {h[1].exact} ELSE BOOLEAN}
          [] i.op \in {"ask", "rights"} -> {Tested(TRUE, h), Tested(FALSE, h)}
          [] i.op = "not" -> {Tested(~h[1].truth, h)}
          [] i.op = "and" -> {Tested(\A k \in DOMAIN h : h[k].truth, h)}
          [] i.op = "or" -> {Tested(\E k \in DOMAIN h : h[k].truth, h)}
          [] i.op = "select" -> {h[1] @@ [by |-> i.to]}
          [] OTHER -> {}

Evaluate ==
    /\ Running
    /\ Current.to # 0
    /\ at' = at + 1
    /\ \E held \in Results(Current) : env' = [env EXCEPT ![Current.to] = held]
    /\ sink' = NoSink
    /\ UNCHANGED <<program, block, read, allowed>>

Change ==
    /\ Running
    /\ Current.op = "append"
    /\ at' = at + 1
    /\ LET c == Current.of[1]
           v == env[Current.of[2]]
       IN  env' = [env EXCEPT ![c] = Held(@.danger \cup v.danger, @.exact /\ v.exact, @.parts \cup v.parts, @.truth)]
    /\ sink' = NoSink
    /\ UNCHANGED <<program, block, read, allowed>>

Arrive ==
    /\ Running
    /\ Current.op \in {"sink", "invoke"}
    /\ at' = at + 1
    /\ LET held == env[Current.of[1]]
       IN  sink' = [flow |-> <<Current, IF Current.op = "sink" THEN Current.of[1] ELSE held.by>>, held |-> held]
    /\ UNCHANGED <<program, block, env, read, allowed>>

\* A jump sets the phis of the block it goes to, all at once.
Go(target) ==
    LET code == program.blocks[target].code
        phis == {k \in DOMAIN code : code[k].op = "phi"}
        from(phi) == CHOOSE e \in ToSet(phi.incoming) : e[1] = block
    IN  /\ block' = target
        /\ at' = Cardinality(phis) + 1
        /\ env' = [v \in DOMAIN env |->
                      IF \E k \in phis : code[k].to = v
                      THEN env[from(CHOOSE i \in ToSet(code) : i.to = v)[2]] ELSE env[v]]
        /\ sink' = NoSink
        /\ UNCHANGED program

Leave ==
    /\ ~Running
    /\ Here.terminator.kind = "jump"
    /\ Go(Here.terminator.target)
    /\ UNCHANGED <<read, allowed>>

\* A right that was tested holds on.  The truth of a constant is false.
RECURSIVE Established(_, _)
Established(v, truth) ==
    LET d == Defs(program)[v]
    IN  CASE d.op = "rights" -> truth
          [] d.op = "not" -> Established(d.of[1], ~truth)
          [] d.op \in {"and", "or"} -> \E k \in DOMAIN d.of : env[d.of[k]].truth = truth /\ Established(d.of[k], truth)
          [] OTHER -> FALSE
Decide ==
    /\ ~Running
    /\ Here.terminator.kind = "branch"
    /\ LET test == env[Here.terminator.on]
       IN  /\ Go(IF test.truth THEN Here.terminator.then ELSE Here.terminator.else)
           /\ read' = read \cup test.parts
           /\ allowed' = (allowed \/ Established(Here.terminator.on, test.truth))

Next == Evaluate \/ Change \/ Arrive \/ Leave \/ Decide
Spec == Init /\ [][Next]_vars

-----------------------------------------------------------------------------
(* Properties.                                                             *)

Arrived == sink # NoSink
Flows == Judged(program)

\* What reaches the sink of a flow that was refuted is harmless there: safe for the kinds
\* of the sink, and one of the program's constants where it selects code by name
\* (findings/refutation.py; docs/usage.md, "Each flow is judged before it is reported").
RefutedIsHarmless ==
    (Arrived /\ Flows[sink.flow] = "refuted") =>
        IF sink.flow[1].op = "sink" THEN sink.held.danger \cap sink.flow[1].kinds = {} ELSE sink.held.exact

\* A flow kept for review behind an authorization is not reached without it, and behind a
\* guard, not without a test of a part of what reaches its sink.
Overlap(p, q) == p[1] = q[1] /\ (p[2] = q[2] \/ Whole \in {p[2], q[2]})
HotspotsAreGuarded ==
    Arrived =>
        /\ Flows[sink.flow] = "authorized" => allowed
        /\ (Flows[sink.flow] = "guarded" /\ sink.held.danger # {}) =>
               \E p \in read, q \in sink.held.parts : Overlap(p, q)
=============================================================================
