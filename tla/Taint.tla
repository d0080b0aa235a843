--------------------------------- MODULE Taint ---------------------------------
(***************************************************************************)
(* Function summaries, with the heap, loops and branches they are computed *)
(* from (ScheduledSummaries has the iteration over modules), and the taint  *)
(* of values and of the objects they point to (taint/engine.py): kinds of  *)
(* danger and the sources they come from, and the flows of them into       *)
(* sinks, in a function or, through summaries, in what it calls.           *)
(***************************************************************************)
EXTENDS ValueInstructions

-----------------------------------------------------------------------------
(* Function summaries (interprocedural/summaries.py): which parameters and *)
(* external results a function's result, the calls it makes, what it stores*)
(* into its parameters and what it writes to a nonlocal depend on.         *)

Dep(parameters, externals) ==
    [parameters |-> parameters, externals |-> externals, cleared |-> [p \in parameters |-> {}]]
Empty == Dep({}, {})

\* A parameter both sides depend on keeps what both paths cleared.
JoinWithEither(d, e) ==
    LET parameters == d.parameters \cup e.parameters
        own(x, p) == IF p \in x.parameters THEN x.cleared[p] ELSE {}
    IN  [parameters |-> parameters, externals |-> d.externals \cup e.externals,
         cleared |-> [p \in parameters |-> own(d, p) \cup own(e, p)]]
JoinDeps(d, e) ==
    LET own(x, p) == IF p \in x.parameters THEN x.cleared[p] ELSE {}
    IN  [parameters |-> d.parameters \cup e.parameters, externals |-> d.externals \cup e.externals,
         cleared |-> [p \in d.parameters \cup e.parameters |->
                         IF p \in d.parameters \cap e.parameters THEN own(d, p) \cap own(e, p)
                         ELSE own(d, p) \cup own(e, p)]]
Clearing(d, kinds) == [d EXCEPT !.cleared = [p \in d.parameters |-> @[p] \cup kinds]]
AllOf(facts) == FoldSet(JoinDeps, Empty, facts)

\* What a callee's dependences on its parameters are in terms of the caller's.
Mapped(d, arguments) ==
    AllOf({Clearing(arguments[p], d.cleared[p]) : p \in d.parameters \cap DOMAIN arguments}
          \cup {Dep({}, d.externals)})

\* Records of the calls of external symbols: the callee's become the caller's.
Record(symbol, arguments, at) ==
    [what |-> "reach", symbol |-> symbol, arguments |-> arguments, at |-> at]
KnownCall(summary, i, arguments, everything) ==
    IF ~summary.supported THEN [fact |-> everything, effects |-> {}, stores |-> {}]
    ELSE [fact |-> Mapped(summary.returned, arguments),
          effects |-> {Record(r.symbol, [n \in DOMAIN r.arguments |-> Mapped(r.arguments[n], arguments)], r.at) :
                          r \in summary.reached},
          stores |-> {[object |-> i.from[m.parameter], field |-> m.field, fact |-> Mapped(m.fact, arguments)] :
                          m \in {n \in summary.mutations : n.parameter \in DOMAIN i.from}}]

\* What a call left in the nonlocal variable: what it may write, and what was there
\* before wherever it may leave it unwritten.
NonlocalAfter(summary, arguments, previous) ==
    [fact |-> JoinDeps(IF summary.kept THEN previous ELSE Empty, Mapped(summary.written, arguments)),
     effects |-> {}, stores |-> {}]

CallOf(c, i, deep) ==
    LET arguments == [n \in DOMAIN i.from |-> deep[i.from[n]]]
        everything == AllOf({arguments[n] : n \in DOMAIN arguments})
    IN  CASE i.op = "call" -> KnownCall(c.table[i.function], i, arguments, everything)
          [] i.op = "nonlocal" -> NonlocalAfter(c.table[i.function], arguments, deep[i.previous])
          [] OTHER -> [fact |-> JoinDeps(Clearing(everything, Clears[i.symbol]), Dep({}, {i.symbol})),
                       effects |-> {Record(i.symbol, arguments, <<c.name, i>>)},
                       stores |-> {}]

Flow == INSTANCE ValueFlow WITH Nothing <- Empty, Join <- JoinDeps, Called <- CallOf, Prunes <- TRUE

\* Whether a path through blocks that run leads to a return and writes nothing.
RECURSIVE ReachedUnwritten(_, _)
ReachedUnwritten(f, found) ==
    LET more == found \cup {t \in UNION {f.blocks[b].terminator.targets :
                                            b \in {x \in found : \A i \in ToSet(f.blocks[x].code) : i.op # "write"}} :
                               f.blocks[t].runs}
    IN  IF more = found THEN found ELSE ReachedUnwritten(f, more)
MayReturnUnwritten(f) ==
    \E b \in ReachedUnwritten(f, {First}) :
        /\ f.blocks[b].terminator.kind = "return"
        /\ \A i \in ToSet(f.blocks[b].code) : i.op # "write"

\* The facts of the effects of one kind, joined; what is stored or written keeps no
\* record of what was cleared on the way.
Sum(effects) == AllOf({e.fact : e \in effects})
Uncleared(d) == Dep(d.parameters, d.externals)
Summary(f, name, table) ==
    LET c == [function |-> f, name |-> name, table |-> table, points |-> PointsTo(f)]
        initial == [k \in {Value(p) : p \in 1..f.parameters} |-> Dep({k[1].site}, {})]
        effects == Flow!Effects(c, initial)
        only(what) == {e \in effects : e.what = what}
        stored(p, field) == Sum({e \in only("store") : e.at \in Locations(c.points, p, field)})
    IN  [supported |-> TRUE,
         returned |-> Sum(only("return")),
         reached |-> only("reach"),
         mutations |-> {m \in {[parameter |-> p, field |-> field, fact |-> Uncleared(stored(p, field))] :
                                  p \in 1..f.parameters, field \in Fields} : m.fact # Empty},
         written |-> Uncleared(Sum(only("write"))),
         kept |-> only("write") = {} \/ MayReturnUnwritten(f)]

\* A supported function starts from reaching nothing; an unsupported one passes on all.
Starting(f) ==
    [supported |-> f.supported, reached |-> {}, mutations |-> {}, written |-> Empty, kept |-> TRUE,
     returned |-> IF f.supported THEN Empty ELSE Dep(1..f.parameters, {})]
RECURSIVE Settling(_, _)
Settling(functions, table) ==
    LET after == FoldLeft(LAMBDA t, g : [t EXCEPT ![g] = Summary(functions[g], g, t)], table,
                          SetToSeq({g \in DOMAIN functions : functions[g].supported}))
    IN  IF after = table THEN table ELSE Settling(functions, after)
Summaries(functions) == Settling(functions, [g \in DOMAIN functions |-> Starting(functions[g])])

-----------------------------------------------------------------------------
(* Taint.                                                                  *)

NoTaint == [kinds |-> {}, sources |-> {}]
JoinTaints(a, b) == [kinds |-> a.kinds \cup b.kinds, sources |-> a.sources \cup b.sources]
Without(t, kinds) ==
    [kinds |-> t.kinds \ kinds, sources |-> IF t.kinds \subseteq kinds THEN {} ELSE t.sources]
AllTaints(facts) == FoldSet(JoinTaints, NoTaint, facts)
TaintOf(symbol) == IF SourceOf[symbol] = {} THEN NoTaint ELSE [kinds |-> SourceOf[symbol], sources |-> {symbol}]

\* A sink is reported for each source of a taint it must not be given, where it is called.
Report(symbol, position, taint, at) ==
    LET reaching == IF position \in DOMAIN SinkOf[symbol] THEN taint.kinds \cap SinkOf[symbol][position] ELSE {}
    IN  {[what |-> "flow", source |-> s, kinds |-> reaching, at |-> at] :
            s \in IF reaching = {} THEN {} ELSE taint.sources}

\* A display that is given to a sink is serialised, not rendered as markup.
Rendered(c, v, taint) ==
    IF \E i \in Defines(c.function, v) : i.op = "build" THEN Without(taint, {"html"}) ELSE taint

MappedWhole(d, arguments) ==
    AllTaints({arguments[p] : p \in d.parameters \cap DOMAIN arguments} \cup {TaintOf(e) : e \in d.externals})
MappedTaint(d, arguments) ==
    AllTaints({Without(arguments[p], d.cleared[p]) : p \in d.parameters \cap DOMAIN arguments}
              \cup {TaintOf(e) : e \in d.externals})

\* What reaches a callee's call from its own sources is reported in the callee.
Uninvolved(d) == [d EXCEPT !.externals = {}]
OfKnown(summary, i, arguments, everything) ==
    IF ~summary.supported THEN [fact |-> everything, effects |-> {}, stores |-> {}]
    ELSE [fact |-> MappedTaint(summary.returned, arguments),
          effects |-> UNION {UNION {Report(r.symbol, n, MappedTaint(Uninvolved(r.arguments[n]), arguments), r.at) :
                                        n \in DOMAIN r.arguments} : r \in summary.reached},
          stores |-> {[object |-> i.from[m.parameter], field |-> m.field, fact |-> MappedTaint(m.fact, arguments)] :
                          m \in {n \in summary.mutations : n.parameter \in DOMAIN i.from}}]

OfNonlocal(summary, arguments, previous) ==
    [fact |-> JoinTaints(IF summary.kept THEN previous ELSE NoTaint, MappedTaint(summary.written, arguments)),
     effects |-> {}, stores |-> {}]

\* What a call of an external symbol returns: what it is given unless it clears it, and
\* what it is a source of.
OfExternal(c, i, arguments, everything) ==
    [fact |-> IF Clears[i.symbol] # {} THEN Without(everything, Clears[i.symbol])
              ELSE JoinTaints(everything, TaintOf(i.symbol)),
     effects |-> UNION {Report(i.symbol, n, Rendered(c, i.from[n], arguments[n]), <<c.name, i>>) : n \in DOMAIN arguments},
     stores |-> {}]

TaintOfCall(c, i, deep) ==
    LET arguments == [n \in DOMAIN i.from |-> deep[i.from[n]]]
        everything == AllTaints({arguments[n] : n \in DOMAIN arguments})
    IN  CASE i.op = "call" -> OfKnown(c.table[i.function], i, arguments, everything)
          [] i.op = "nonlocal" -> OfNonlocal(c.table[i.function], arguments, deep[i.previous])
          [] OTHER -> OfExternal(c, i, arguments, everything)

Taints == INSTANCE ValueFlow WITH Nothing <- NoTaint, Join <- JoinTaints, Called <- TaintOfCall, Prunes <- FALSE

\* The parameters of an entry point carry input, but for the object of a method.
InputTaint == [kinds |-> Kinds, sources |-> {Input}]
ParameterTaint(f, method) ==
    [k \in {Value(p) : p \in (IF method THEN 2 ELSE 1)..f.parameters} |-> InputTaint]

\* What the other methods of its class store into the object from their own input is
\* what a method with input of its own starts with.
Seeds(program, table, name, points) ==
    LET mutations(field) ==
            {m \in UNION {table[g].mutations : g \in program.entries \ {name}} : m.parameter = 1 /\ m.field = field}
        taint(field) ==
            AllTaints({TaintOf(e) : e \in UNION {m.fact.externals : m \in mutations(field)}}
                      \cup {InputTaint : m \in {n \in mutations(field) : n.fact.parameters \ {1} # {}}})
    IN  IF ~program.class \/ program.functions[name].parameters = 1 THEN <<>>
        ELSE [l \in UNION {Locations(points, 1, field) : field \in Fields} |-> taint(l[2])]

\* The flows of all functions, entry points and others.
Flows(program) ==
    LET functions == program.functions
        table == Summaries(functions)
        context(g) == [function |-> functions[g], name |-> g, table |-> table, points |-> PointsTo(functions[g])]
        initial(g) ==
            IF g \notin program.entries THEN <<>>
            ELSE ParameterTaint(functions[g], program.class) @@ Seeds(program, table, g, context(g).points)
        found(g) == {e \in Taints!Effects(context(g), initial(g)) : e.what = "flow"}
    IN  UNION {found(g) : g \in {x \in DOMAIN functions : functions[x].supported}}

-----------------------------------------------------------------------------
(* Programs executed with the taint that really travels, and the flows     *)
(* that the analysis reports of them.  A value carries pairs of a source   *)
(* and a kind of its own and may refer to an object, which holds values;   *)
(* the framework calls the entry points, those of a class on one object.   *)
(* The execution is Python's for the instructions of ValueInstructions:    *)
(* what a function outside the project returns is made of what it is given.*)

CONSTANTS
    Reported(_),\* the flows that the analysis reports of a program: Flows
    Programs,   \* [functions, entries, class]: functions by name, which are entry points
    MaxCalls,   \* calls that the framework makes
    MaxDepth,   \* calls within one another
    MaxObjects  \* objects alive

VARIABLES
    program,
    flows,      \* what the analysis reports
    frames,     \* the calls being executed, the innermost last
    heap,       \* the objects: the values in each field
    calls,      \* how often the framework has called
    happened    \* the pairs that reached sinks, and where

vars == <<program, flows, frames, heap, calls, happened>>

None == [ref |-> 0, taint |-> {}]
NewObject == [f \in Fields |-> {}]
Named(frame, v) == IF v \in DOMAIN frame.values THEN frame.values[v] ELSE None
Held(value, field) == IF value.ref = 0 THEN {} ELSE heap[value.ref][field]
Inside(value) == UNION {w.taint : w \in UNION {Held(value, f) : f \in Fields}}
Whole(value) == value.taint \cup Inside(value)
Pairs(symbol) == {symbol} \X SourceOf[symbol]

Top == frames[Len(frames)]
Body(frame) == program.functions[frame.function].blocks[frame.block]
AtEnd(frame) == frame.at > Len(Body(frame).code)
Doing(op) ==
    /\ frames # <<>> /\ ~AtEnd(Top)
    /\ Body(Top).code[Top.at].op = op
Instruction == Body(Top).code[Top.at]
Operand(v) == Named(Top, v)

Defining(frame, v, value) ==
    [frame EXCEPT !.values = [w \in DOMAIN @ \cup {v} |-> IF w = v THEN value ELSE @[w]]]
Replaced(frame) == [frames EXCEPT ![Len(frames)] = frame]
Yields(value) == frames' = Replaced([Defining(Top, Instruction.to, value) EXCEPT !.at = @ + 1])
Frame(function, arguments) ==
    [function |-> function, block |-> First, at |-> 1, before |-> 0, left |-> {}, written |-> {},
     values |-> [n \in DOMAIN arguments |-> arguments[n]]]
Still == UNCHANGED <<program, flows, calls>>

-----------------------------------------------------------------------------
Init ==
    /\ program \in Programs
    /\ flows = Reported(program)
    /\ frames = <<>>
    /\ heap = <<NewObject>>
    /\ calls = 0 /\ happened = {}

\* The framework calls an entry point with input, a method on the object it made.
Framework(e) ==
    /\ frames = <<>> /\ calls < MaxCalls
    /\ calls' = calls + 1
    /\ frames' = <<Frame(e, [p \in 1..program.functions[e].parameters |->
                                IF program.class /\ p = 1 THEN [ref |-> 1, taint |-> {}]
                                ELSE [ref |-> 0, taint |-> {Input} \X Kinds]])>>
    /\ UNCHANGED <<program, flows, heap, happened>>

MakeText ==
    /\ Doing("text")
    /\ Yields([ref |-> 0, taint |-> UNION {Whole(Operand(v)) : v \in ToSet(Instruction.from)}])
    /\ Still /\ UNCHANGED <<heap, happened>>

MakeDisplay ==
    /\ Doing("build") /\ Len(heap) < MaxObjects
    /\ heap' = Append(heap, [NewObject EXCEPT !.elements = {Operand(v) : v \in ToSet(Instruction.from)}])
    /\ Yields([ref |-> Len(heap'), taint |-> {}])
    /\ Still /\ UNCHANGED happened

\* Any value of the field, or a piece of the object where that is a text.
LoadField ==
    /\ Doing("load")
    /\ LET object == Operand(Instruction.object)
       IN  \E held \in Held(object, Instruction.field) \cup {None} :
               Yields([held EXCEPT !.taint = @ \cup object.taint])
    /\ Still /\ UNCHANGED <<heap, happened>>

StoreField ==
    /\ Doing("store") \/ Doing("append")
    /\ LET ref == Operand(Instruction.object).ref
           field == IF Instruction.op = "append" THEN "elements" ELSE Instruction.field
       IN  heap' = IF ref = 0 THEN heap
                   ELSE [heap EXCEPT ![ref][field] = @ \cup {Operand(Instruction.value)}]
    /\ frames' = Replaced([Top EXCEPT !.at = @ + 1])
    /\ Still /\ UNCHANGED happened

\* What makes a container dangerous is in it; in markup a container is none.
Reaching(symbol, n, value) ==
    {pair \in value.taint \cup {p \in Inside(value) : p[2] # "html"} :
        n \in DOMAIN SinkOf[symbol] /\ pair[2] \in SinkOf[symbol][n]}
CallOutside ==
    /\ Doing("external")
    /\ LET i == Instruction
           given == UNION {Whole(Operand(v)) : v \in ToSet(i.from)}
       IN  /\ happened' = happened \cup
                  UNION {{[source |-> pair[1], kind |-> pair[2], at |-> <<Top.function, i>>] :
                             pair \in Reaching(i.symbol, n, Operand(i.from[n]))} : n \in DOMAIN i.from}
           /\ Yields([ref |-> 0, taint |-> {p \in given : p[2] \notin Clears[i.symbol]} \cup Pairs(i.symbol)])
    /\ Still /\ UNCHANGED heap

CallFunction ==
    /\ Doing("call") /\ Len(frames) < MaxDepth
    /\ frames' = Append(frames, Frame(Instruction.function, [n \in DOMAIN Instruction.from |-> Operand(Instruction.from[n])]))
    /\ Still /\ UNCHANGED <<heap, happened>>

\* The nonlocal variable after a call: what the callee wrote, if it did.
ReadNonlocal ==
    /\ Doing("nonlocal")
    /\ \E value \in IF Top.left = {} THEN {Operand(Instruction.previous)} ELSE Top.left : Yields(value)
    /\ Still /\ UNCHANGED <<heap, happened>>
WriteNonlocal ==
    /\ Doing("write")
    /\ frames' = Replaced([Top EXCEPT !.at = @ + 1, !.written = {Operand(Instruction.value)}])
    /\ Still /\ UNCHANGED <<heap, happened>>

Meet ==
    /\ Doing("phi")
    /\ Yields(Operand(Instruction.incoming[Top.before]))
    /\ Still /\ UNCHANGED <<heap, happened>>

Terminating(kinds) == frames # <<>> /\ AtEnd(Top) /\ Body(Top).terminator.kind \in kinds
Runs(b) == program.functions[Top.function].blocks[b].runs
GoOn ==
    /\ Terminating({"jump", "branch"})
    /\ \E b \in Body(Top).terminator.targets :
           Runs(b) /\ frames' = Replaced([Top EXCEPT !.before = Top.block, !.block = b, !.at = 1])
    /\ Still /\ UNCHANGED <<heap, happened>>
NextItem ==
    /\ Terminating({"for"})
    /\ LET t == Body(Top).terminator
           iterable == Operand(t.iterable)
           enter(frame, b) == [frame EXCEPT !.before = Top.block, !.block = b, !.at = 1]
       IN  \/ \E item \in Held(iterable, "elements") \cup {None} :
                  frames' = Replaced(enter(Defining(Top, t.to, [item EXCEPT !.taint = @ \cup iterable.taint]), t.body))
           \/ \E b \in t.targets \ {t.body} : frames' = Replaced(enter(Top, b))
    /\ Still /\ UNCHANGED <<heap, happened>>

LeaveFunction ==
    /\ Terminating({"return"})
    /\ LET outer == SubSeq(frames, 1, Len(frames) - 1)
           caller == Last(outer)
           to == program.functions[caller.function].blocks[caller.block].code[caller.at].to
       IN  frames' = IF outer = <<>> THEN outer
                     ELSE [outer EXCEPT ![Len(outer)] =
                              [Defining(caller, to, Operand(Body(Top).terminator.value)) EXCEPT
                                  !.at = @ + 1, !.left = Top.written]]
    /\ Still /\ UNCHANGED <<heap, happened>>

Next ==
    \/ \E e \in program.entries : Framework(e)
    \/ MakeText \/ MakeDisplay \/ LoadField \/ StoreField
    \/ CallOutside \/ CallFunction \/ ReadNonlocal \/ WriteNonlocal
    \/ Meet \/ GoOn \/ NextItem \/ LeaveFunction

Spec == Init /\ [][Next]_vars

-----------------------------------------------------------------------------
(* Whatever reaches a sink at run time is reported, with its source, its   *)
(* kind and the place of the call, through calls, containers, attributes,  *)
(* loops, what callees store, nonlocals and the methods of an object.      *)
FlowsAreReported ==
    \A h \in happened : \E r \in flows : r.source = h.source /\ h.kind \in r.kinds /\ r.at = h.at

(* Where nothing is chosen, loaded or stored, and one source is read, what *)
(* is reported happens: a cleared kind, a path taken by no call and a dead *)
(* block of a callee give no report.                                       *)
Reads(f) == {i \in Instructions(f) : i.op = "external" /\ SourceOf[i.symbol] # {}}
Straight(p) ==
    LET all == {p.functions[g] : g \in DOMAIN p.functions}
    IN  /\ Cardinality(UNION {Reads(f) : f \in all}) + Cardinality({e \in p.entries : p.functions[e].parameters > 0}) = 1
        /\ \A f \in all :
               /\ f.supported
               /\ \A i \in Instructions(f) : i.op \notin {"load", "store", "append", "write"}
               /\ \A b \in DOMAIN f.blocks :
                      /\ f.blocks[b].terminator.kind # "for"
                      /\ Cardinality({t \in f.blocks[b].terminator.targets : f.blocks[t].runs}) <= 1
                      /\ (f.blocks[b].runs \/ (Reads(f) = {} /\ f \notin {p.functions[e] : e \in p.entries}))
ReportsAreReal ==
    Straight(program) /\ frames = <<>> /\ calls = MaxCalls =>
        \A r \in flows : \A k \in r.kinds : [source |-> r.source, kind |-> k, at |-> r.at] \in happened
=============================================================================
