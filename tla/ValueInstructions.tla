-------------------------- MODULE ValueInstructions ---------------------------
(***************************************************************************)
(* The instructions of SSA functions (ir/model.py) that data flows         *)
(* through.  A value is a number, 0 for none; parameters come first.  An   *)
(* instruction is named by the function, the block and the place it is at. *)
(* Of symbols outside the project the models (taint/models.py) know kinds  *)
(* of taint.                                                               *)
(***************************************************************************)
EXTENDS Naturals, SequencesExt, FiniteSetsExt

CONSTANTS
    Kinds,      \* kinds of taint
    SourceOf,   \* SourceOf[e]: the kinds that the results of an external symbol carry
    Clears,     \* Clears[e]: the kinds that a call of it clears
    SinkOf      \* SinkOf[e]: the kinds that must not reach its argument at each position

\* The source of what the framework gives to an entry point.
Input == "input"

\* Operators, strings and comparisons that build text from their operands.
Text(to, from) == [op |-> "text", to |-> to, from |-> from]
\* A list or dict display: a dict's items are its values.
Build(to, display, items) == [op |-> "build", to |-> to, display |-> display, from |-> items]
\* Attributes and items; the append of a list is a call that stores its argument.
Load(to, field, object) == [op |-> "load", to |-> to, field |-> field, object |-> object]
Store(field, object, value) ==
    [op |-> "store", to |-> 0, field |-> field, object |-> object, value |-> value]
AppendTo(object, value) == [op |-> "append", to |-> 0, object |-> object, value |-> value]
\* A call of a symbol outside the project, and of a function of it.
External(to, symbol, arguments) ==
    [op |-> "external", to |-> to, symbol |-> symbol, from |-> arguments]
Call(to, function, arguments) ==
    [op |-> "call", to |-> to, function |-> function, from |-> arguments]
\* What a call left in the variable that the callee declares nonlocal: to replaces
\* previous.  The callee stores into it with SetNonlocal.
NonlocalResult(to, function, arguments, previous) ==
    [op |-> "nonlocal", to |-> to, function |-> function, from |-> arguments, previous |-> previous]
SetNonlocal(value) == [op |-> "write", to |-> 0, value |-> value]
Phi(to, incoming) == [op |-> "phi", to |-> to, incoming |-> incoming]

Jump(target) == [kind |-> "jump", targets |-> {target}, to |-> 0]
Branch(then, else) == [kind |-> "branch", targets |-> {then, else}, to |-> 0]
ForNext(to, iterable, body, exit) ==
    [kind |-> "for", targets |-> {body, exit}, to |-> to, iterable |-> iterable, body |-> body]
Return(value) == [kind |-> "return", targets |-> {}, to |-> 0, value |-> value]

\* A block may be one that constant propagation proves unreachable.
Block(code, terminator) == [code |-> code, terminator |-> terminator, runs |-> TRUE]
DeadBlock(code, terminator) == [Block(code, terminator) EXCEPT !.runs = FALSE]
Function(parameters, blocks) ==
    [parameters |-> parameters, blocks |-> blocks, supported |-> TRUE]
Unsupported(function) == [function EXCEPT !.supported = FALSE]

\* What an object holds.
Fields == {"elements", "attributes"}

First == 1
Instructions(f) == UNION {ToSet(f.blocks[b].code) : b \in DOMAIN f.blocks}
Values(f) ==
    1..f.parameters \cup {i.to : i \in Instructions(f)} \cup {f.blocks[b].terminator.to : b \in DOMAIN f.blocks}
Defines(f, v) == {i \in Instructions(f) : i.to = v}

-----------------------------------------------------------------------------
(* The objects values may point to (abstract/heap.py): one for each        *)
(* display, call and parameter, and one for whatever is loaded from a      *)
(* field of an object.  The analysis is a fixpoint over all instructions,  *)
(* in no order.  points maps a value to its objects, contents a location   *)
(* (an object and a field) to the objects stored there.                    *)

\* A value itself, where a fact is kept of values and of locations.
Value(v) == <<[site |-> v, of |-> "value", field |-> ""], "">>
Allocated(v) == [site |-> v, of |-> "", field |-> ""]
\* A field of a field collapses onto itself, which keeps chains finite.
FieldObject(o, field) == IF o.of = "field" THEN o ELSE [o EXCEPT !.of = "field", !.field = field]
At(h, objects, field) ==
    (UNION {h.contents[<<o, field>>] : o \in {x \in objects : <<x, field>> \in DOMAIN h.contents}})
    \cup {FieldObject(o, field) : o \in objects}

Of(h, v) == IF v \in DOMAIN h.points THEN h.points[v] ELSE {}
Assigned(h, v, objects) ==
    [h EXCEPT !.points = [w \in DOMAIN @ \cup {v} |-> IF w = v THEN Of(h, v) \cup objects ELSE @[w]]]
Stored(h, objects, field, v) ==
    LET more == {<<o, field>> : o \in objects}
        held(l) == IF l \in DOMAIN h.contents THEN h.contents[l] ELSE {}
    IN  [h EXCEPT !.contents = [l \in DOMAIN @ \cup more |->
                                   held(l) \cup IF l \in more THEN Of(h, v) ELSE {}]]

PointsAfter(h, i) ==
    CASE i.op = "store" -> Stored(h, Of(h, i.object), i.field, i.value)
      [] i.op = "append" -> Stored(h, Of(h, i.object), "elements", i.value)
      [] i.op \in {"external", "call"} -> Assigned(h, i.to, {Allocated(i.to)})
      [] i.op = "build" -> FoldLeft(LAMBDA g, v : Stored(g, {Allocated(i.to)}, "elements", v),
                                    Assigned(h, i.to, {Allocated(i.to)}), i.from)
      [] i.op = "phi" -> Assigned(h, i.to, UNION {Of(h, i.incoming[b]) : b \in DOMAIN i.incoming})
      [] i.op = "load" -> Assigned(h, i.to, At(h, Of(h, i.object), i.field))
      [] OTHER -> h
PointsInLoop(h, t) ==
    IF t.kind = "for" THEN Assigned(h, t.to, At(h, Of(h, t.iterable), "elements")) ELSE h

RECURSIVE Settled(_, _)
Settled(f, h) ==
    LET after == FoldLeft(LAMBDA g, b : PointsInLoop(FoldLeft(PointsAfter, g, f.blocks[b].code),
                                                     f.blocks[b].terminator),
                          h, [b \in DOMAIN f.blocks |-> b])
    IN  IF after = h THEN h.points ELSE Settled(f, after)

PointsTo(f) == Settled(f, [points |-> [p \in 1..f.parameters |-> {Allocated(p)}], contents |-> <<>>])
Locations(points, v, field) == {<<o, field>> : o \in IF v \in DOMAIN points THEN points[v] ELSE {}}
=============================================================================
