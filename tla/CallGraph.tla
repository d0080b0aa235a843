------------------------------- MODULE CallGraph -------------------------------
(***************************************************************************)
(* What the calls of a function call, and with what                        *)
(* (interprocedural/callgraph.py, semantic/symbols.py): the symbols that   *)
(* values denote, the target of every call site, what its arguments        *)
(* denote, and the other calls on its receiver.                            *)
(*                                                                         *)
(* A symbol is the sequence of its names, <<>> for none.  Parameters are   *)
(* the first values of a function; 0 is no value.                          *)
(***************************************************************************)
EXTENDS ControlFlowGraph

CONSTANT MaxReceiverCalls   \* a receiver with more calls is not followed

Instruction(op, to, of) == [op |-> op, to |-> to, of |-> of]
Name(to, name) == Instruction("name", to, <<>>) @@ [name |-> name]
Literal(to, text) == Instruction("literal", to, <<>>) @@ [text |-> text]
Attribute(to, object, name) == Instruction("attribute", to, <<object>>) @@ [name |-> name]
Item(to, object) == Instruction("item", to, <<object>>)
Await(to, v) == Instruction("await", to, <<v>>)
Enter(to, v) == Instruction("enter", to, <<v>>)
\* A call unpacks sequences (starred) and mappings (keywords named Unpack).
Unpack == "**"
Call(to, callee, arguments, keywords, starred) ==
    Instruction("call", to, <<callee>> \o arguments \o starred \o [k \in DOMAIN keywords |-> keywords[k][2]])
        @@ [callee |-> callee, arguments |-> arguments, keywords |-> keywords, starred |-> starred]
\* A dict display: its items, and the mappings it unpacks before or after them.
Dict(to, items, unpacked, last) ==
    Instruction("dict", to, [k \in DOMAIN items |-> items[k][1]] \o [k \in DOMAIN items |-> items[k][2]] \o unpacked)
        @@ [items |-> items, unpacked |-> unpacked, last |-> last]
SetItem(object, key, v) == Instruction("setitem", 0, <<object, key, v>>)
SetAttr(object, v) == Instruction("setattr", 0, <<object, v>>)
MakeFunction(to, name) == Instruction("function", to, <<>>) @@ [name |-> name]
\* A text that starts with the constant text of a host.
Url(to, v) == Instruction("url", to, <<v>>)
Phi(to, incoming) == Instruction("phi", to, [k \in DOMAIN incoming |-> incoming[k][2]]) @@ [incoming |-> incoming]

Code(code, terminator) == [code |-> code, terminator |-> terminator, handlers |-> <<>>]
Choose(then, else) == [kind |-> "branch", then |-> then, else |-> else]
Returning(v) == [kind |-> "return", value |-> v]

\* A function as a table of its values.
Table(g) == FoldSet(LAMBDA x, t : (x :> g[x]) @@ t, <<>>, DOMAIN g)

Instructions(f) == UNION {ToSet(f.blocks[b].code) : b \in DOMAIN f.blocks}
Defs(f) == LET made == {i \in Instructions(f) : i.to # 0}
           IN  [v \in {i.to : i \in made} |-> CHOOSE i \in made : i.to = v]
Values(f) == DOMAIN f.parameters \cup DOMAIN Defs(f)
Places(f) == UNION {{b} \X DOMAIN f.blocks[b].code : b \in DOMAIN f.blocks}
InstructionAt(f, p) == f.blocks[p[1]].code[p[2]]
\* Where a value is used, operand by operand, and the ends of blocks that use it.
Uses(f, v) == {u \in UNION {{p} \X DOMAIN InstructionAt(f, p).of : p \in Places(f)} : InstructionAt(f, u[1]).of[u[2]] = v}
Ends(f, v) == {b \in DOMAIN f.blocks : f.blocks[b].terminator.kind = "return" /\ f.blocks[b].terminator.value = v}

-----------------------------------------------------------------------------
(* What names denote in a module: its imports, the names it binds to an    *)
(* expression that denotes a symbol, and the builtins.  An expression is a *)
(* name followed by steps.                                                 *)

NoSymbol == <<>>
DictClass == <<"builtins", "dict">>
Builtins == {"dict"}
Expression(name, steps) == [name |-> name, steps |-> steps]
Get(name) == <<"attribute", name>>
Apply == <<"call", "">>
Index == <<"item", "">>

\* A model of a class may say what its attributes and items are.
AttributeSymbol(m, s, name) ==
    IF s \notin DOMAIN m.members THEN Append(s, name)
    ELSE LET c == m.members[s]
         IN  CASE name \in DOMAIN c.typed -> c.typed[name]
               [] name \notin DOMAIN c.typed /\ c.dynamic # NoSymbol /\ name \notin c.defined -> c.dynamic
               [] OTHER -> Append(s, name)
ItemSymbol(m, s) == IF s \in DOMAIN m.members /\ m.members[s].dynamic # NoSymbol THEN m.members[s].dynamic ELSE s

Resolve(m, instances, name) ==
    CASE name \in DOMAIN m.imports -> m.imports[name]
      [] name \in DOMAIN instances -> instances[name]
      [] name \in Builtins -> <<"builtins", name>>
      [] OTHER -> NoSymbol
Denoted(m, instances, e) ==
    LET step(s, p) == CASE s = NoSymbol -> s
                        [] p[1] = "attribute" -> AttributeSymbol(m, s, p[2])
                        [] p[1] = "item" -> ItemSymbol(m, s)
                        [] p[1] = "call" -> s
    IN  FoldLeft(step, Resolve(m, instances, e.name), e.steps)
\* Each binding resolves through those before it.
Instances(m) ==
    LET bind(known, b) ==
            LET s == Denoted(m, known, b.value)
            IN  IF s = NoSymbol THEN known ELSE (b.name :> s) @@ known
    IN  FoldLeft(bind, <<>>, m.bindings)

-----------------------------------------------------------------------------
(* What values denote in a function.                                       *)

Owner(m, f) ==
    IF Len(f.name) = 2 /\ f.name[1] \in DOMAIN m.classes /\ ~f.static THEN f.name[1] ELSE ""
Ancestry(m, class) ==
    SelectSeq([k \in DOMAIN m.classes[class].bases |-> Denoted(m, Instances(m), m.classes[class].bases[k])],
              LAMBDA s : s # NoSymbol)
BaseOf(m, class) == IF Ancestry(m, class) = <<>> THEN NoSymbol ELSE Ancestry(m, class)[1]

\* Parameters are typed by their annotations, else by the signature of their method.
SymbolAnnotated(m, f, p) ==
    IF f.parameters[p] = NoSymbol THEN NoSymbol ELSE Denoted(m, Instances(m), Expression(f.parameters[p][1], <<>>))
ClassAnnotated(m, f, p) ==
    IF f.parameters[p] # NoSymbol /\ f.parameters[p][1] \in DOMAIN m.classes THEN f.parameters[p][1] ELSE ""
Declared(m, f, p) ==
    LET fits == IF Owner(m, f) = "" THEN <<>>
                ELSE SelectSeq(m.signatures, LAMBDA g : /\ Contains(Ancestry(m, Owner(m, f)), g.base)
                                                       /\ Len(g.parameters) = Len(f.parameters) - 1)
    IN  IF fits = <<>> \/ p = 1 THEN NoSymbol ELSE fits[1].parameters[p - 1]
ParameterSymbol(m, f, p) == IF SymbolAnnotated(m, f, p) # NoSymbol THEN SymbolAnnotated(m, f, p) ELSE Declared(m, f, p)

\* The name of a class or function of the module is not a symbol.
Global(m, i) == i.op = "name" /\ Resolve(m, Instances(m), i.name) = NoSymbol
\* The class of the module that a value is an instance of: the object of a method, a
\* parameter that is annotated with it, the result of calling it.
InstanceOf(m, f, v) ==
    LET defs == Defs(f)
        called == IF v \in DOMAIN defs /\ defs[v].op = "call" /\ defs[v].callee \in DOMAIN defs THEN defs[defs[v].callee]
                  ELSE Literal(v, <<>>)
    IN  CASE v = 1 /\ v \in DOMAIN f.parameters /\ Owner(m, f) # "" -> Owner(m, f)
          [] v \in DOMAIN f.parameters -> ClassAnnotated(m, f, v)
          [] Global(m, called) /\ called.name \in DOMAIN m.classes -> called.name
          [] OTHER -> ""
\* What its class does not define is inherited from the base.
Inherited(m, f, i) ==
    LET class == InstanceOf(m, f, i.of[1])
    IN  IF \/ class = ""
           \/ i.of[1] \in DOMAIN f.parameters /\ ParameterSymbol(m, f, i.of[1]) # NoSymbol
           \/ i.name \in m.classes[class].methods
           \/ BaseOf(m, class) = NoSymbol
        THEN NoSymbol ELSE AttributeSymbol(m, BaseOf(m, class), i.name)

\* The result of a call, an item and what a with statement enters denote where they
\* come from.
Symbols(m, f) ==
    LET defs == Defs(f)
        symbol[v \in Values(f)] ==
            IF v \in DOMAIN f.parameters THEN ParameterSymbol(m, f, v)
            ELSE LET i == defs[v]
                     from == IF i.op \in {"attribute", "item", "call", "enter", "await"} THEN symbol[i.of[1]] ELSE NoSymbol
                 IN  CASE i.op = "name" -> Resolve(m, Instances(m), i.name)
                       [] i.op = "attribute" /\ Inherited(m, f, i) # NoSymbol -> Inherited(m, f, i)
                       [] from = NoSymbol -> NoSymbol
                       [] i.op = "attribute" -> AttributeSymbol(m, from, i.name)
                       [] i.op = "item" -> ItemSymbol(m, from)
                       [] OTHER -> from
    IN  Table(symbol)

-----------------------------------------------------------------------------
(* Targets.                                                                *)

Unknown == [kind |-> "unknown", name |-> NoSymbol]
External(s) == [kind |-> "external", name |-> s]
Known(name) == [kind |-> "known", name |-> name]

CalledAsItself(m, f, symbols, v) == symbols[v]
\* Calling what a call returned or a container held does not call where it comes from.
CalledSymbol(m, f, symbols, v) ==
    IF v \in DOMAIN Defs(f) /\ Defs(f)[v].op \in {"call", "enter", "await", "item"}
    THEN AttributeSymbol(m, symbols[v], "__call__") ELSE symbols[v]

\* The function of the module that a value is.
FunctionOf(m, f, v) ==
    LET i == Defs(f)[v]
        method(class) == IF i.name \in m.classes[class].methods THEN <<class, i.name>> ELSE NoSymbol
        origin == IF i.op = "attribute" /\ i.of[1] \in DOMAIN Defs(f) THEN Defs(f)[i.of[1]] ELSE Literal(v, <<>>)
    IN  CASE v \notin DOMAIN Defs(f) -> NoSymbol
          [] i.op = "function" -> Append(f.name, i.name)
          [] Global(m, i) /\ i.name \in m.functions -> <<i.name>>
          [] Global(m, i) /\ i.name \in DOMAIN m.classes ->
                IF "__init__" \in m.classes[i.name].methods THEN <<i.name, "__init__">> ELSE NoSymbol
          [] i.op = "attribute" /\ InstanceOf(m, f, i.of[1]) # "" -> method(InstanceOf(m, f, i.of[1]))
          [] i.op = "attribute" /\ Global(m, origin) /\ origin.name \in DOMAIN m.classes -> method(origin.name)
          [] OTHER -> NoSymbol
TargetOf(m, f, symbols, v) ==
    CASE FunctionOf(m, f, v) # NoSymbol -> Known(FunctionOf(m, f, v))
      [] FunctionOf(m, f, v) = NoSymbol /\ symbols[v] # NoSymbol -> External(CalledSymbol(m, f, symbols, v))
      [] OTHER -> Unknown

-----------------------------------------------------------------------------
(* Arguments.                                                              *)

Untold == <<>>
\* What an argument denotes: a symbol, a constant, or nothing told.
Told(f, symbols, v) ==
    CASE symbols[v] # NoSymbol -> symbols[v]
      [] v \in DOMAIN Defs(f) /\ Defs(f)[v].op = "literal" -> Defs(f)[v].text
      [] OTHER -> Untold

\* The keywords a mapping gives, when only the call or the mapping that unpacks it uses
\* it and every key is written; a set of one sequence, or of none.
RECURSIVE KeywordEntries(_, _, _)
KeywordEntries(f, symbols, v) ==
    LET i == Defs(f)[v]
        join(found, inner) == {a \o b : a \in found, b \in KeywordEntries(f, symbols, inner)}
        written == [k \in DOMAIN i.items |-> <<Defs(f)[i.items[k][1]].text[1], i.items[k][2]>>]
        named == SelectSeq(i.keywords, LAMBDA w : w[1] # Unpack)
        unpacked == SelectSeq(i.keywords, LAMBDA w : w[1] = Unpack)
    IN  CASE v \notin DOMAIN Defs(f) \/ Cardinality(Uses(f, v)) + Cardinality(Ends(f, v)) # 1 -> {}
          [] i.op = "dict" /\ \A k \in DOMAIN i.items : LET key == i.items[k][1]
                                                       IN  key \in DOMAIN Defs(f) /\ Defs(f)[key].op = "literal" ->
                FoldLeft(join, {written}, i.unpacked)
          [] i.op = "call" /\ symbols[i.callee] = DictClass /\ i.arguments = <<>> /\ i.starred = <<>> ->
                FoldLeft(join, {named}, [k \in DOMAIN unpacked |-> unpacked[k][2]])
          [] OTHER -> {}

ArgumentsOf(f, symbols, i) ==
    LET told(entries) == [k \in DOMAIN entries |-> <<entries[k][1], Told(f, symbols, entries[k][2])>>]
        entries(w) == IF w[1] = Unpack THEN KeywordEntries(f, symbols, w[2]) ELSE {<<w>>}
        open == \E k \in DOMAIN i.keywords : entries(i.keywords[k]) = {}
    IN  [positional |-> IF i.starred # <<>> THEN <<>> ELSE [k \in DOMAIN i.arguments |-> Told(f, symbols, i.arguments[k])],
         keywords |-> FoldLeft(LAMBDA found, w : found \o IF entries(w) = {} THEN <<>> ELSE told(CHOOSE e \in entries(w) : TRUE),
                               <<>>, i.keywords),
         unpacked |-> i.starred # <<>> \/ open,
         keywordUnpacked |-> open]

\* What the argument of a keyword, or at a position (from 1; 0 for none), is given: a
\* keyword comes first; nothing is known of what is not written when something is unpacked.
Given(a, keyword, position) ==
    LET named == SelectSeq(a.keywords, LAMBDA w : w[1] = keyword)
    IN  CASE named # <<>> -> [is |-> "given", value |-> named[1][2]]
          [] named = <<>> /\ position \in DOMAIN a.positional -> [is |-> "given", value |-> a.positional[position]]
          [] OTHER -> [is |-> IF a.unpacked THEN "untold" ELSE "absent", value |-> Untold]

-----------------------------------------------------------------------------
(* Call sites, and the calls on one receiver.                              *)

CallPlaces(f) == {p \in Places(f) : InstructionAt(f, p).op = "call"}
ReceiverOf(f, p) ==
    LET callee == InstructionAt(f, p).callee
    IN  IF callee \in DOMAIN Defs(f) /\ Defs(f)[callee].op = "attribute" THEN Defs(f)[callee].of[1] ELSE 0

RECURSIVE Awaited(_, _)
Awaited(defs, v) == IF v \in DOMAIN defs /\ defs[v].op = "await" THEN Awaited(defs, defs[v].of[1]) ELSE v

\* A receiver is followed when it is made by a call or entered by a with statement, and
\* is only read to call external methods.
OnlyCalled(f, v) ==
    /\ Ends(f, v) = {}
    /\ \A u \in Uses(f, v) :
          LET read == InstructionAt(f, u[1])
          IN  /\ read.op = "attribute"
              /\ Ends(f, read.to) = {}
              /\ \A c \in Uses(f, read.to) : InstructionAt(f, c[1]).op = "call" /\ c[2] = 1
Followed(f, symbols, targets, v) ==
    LET group == {p \in CallPlaces(f) : ReceiverOf(f, p) = v}
        made == Awaited(Defs(f), v)
    IN  /\ Cardinality(group) <= MaxReceiverCalls /\ symbols[v] # NoSymbol
        /\ \A p \in group : targets[p].kind = "external"
        /\ made \in DOMAIN Defs(f) /\ Defs(f)[made].op \in {"call", "enter"}
        /\ OnlyCalled(f, v)

WrittenBefore(tree, p, q) == p[1] < q[1] \/ (p[1] = q[1] /\ p[2] < q[2])
ExecutesBefore(tree, p, q) == IF p[1] = q[1] THEN p[2] < q[2] ELSE Dominates(tree, p[1], q[1])

\* Every call site; its prior calls are known when its receiver is followed.
Sites(m, f) ==
    LET symbols == Symbols(m, f)
        tree == DominatorTree(f.blocks)
        targets == Table([p \in CallPlaces(f) |-> TargetOf(m, f, symbols, InstructionAt(f, p).callee)])
        arguments == Table([p \in CallPlaces(f) |-> ArgumentsOf(f, symbols, InstructionAt(f, p))])
        followed(p) == ReceiverOf(f, p) # 0 /\ Followed(f, symbols, targets, ReceiverOf(f, p))
        others(p) == {q \in CallPlaces(f) \ {p} : ReceiverOf(f, q) = ReceiverOf(f, p)}
    IN  Table([p \in CallPlaces(f) |->
            [target |-> targets[p], arguments |-> arguments[p], followed |-> followed(p),
             prior |-> {[symbol |-> targets[q].name, arguments |-> arguments[q], dominates |-> ExecutesBefore(tree, q, p)] :
                           q \in IF followed(p) THEN others(p) ELSE {}}]])

\* The symbols a function reads, as a name or as an attribute.
Reads(m, f) ==
    LET symbols == Symbols(m, f)
    IN  {symbols[i.to] : i \in {r \in Instructions(f) : r.op \in {"name", "attribute"} /\ symbols[r.to] # NoSymbol}}
=============================================================================
