------------------------------- MODULE ValueFlow -------------------------------
(***************************************************************************)
(* What the dependence problem of the summaries and the taint problem have *)
(* in common: a state gives a fact to every value and to every location of *)
(* the heap; blocks are evaluated on the states of their predecessors      *)
(* until they settle.  An evaluation also gives effects: what is stored,   *)
(* called, returned and written while it lasts.                            *)
(***************************************************************************)
EXTENDS ValueInstructions

CONSTANTS
    Nothing,              \* the fact of what nothing flows into
    Join(_, _),
    Called(_, _, _),      \* Called(c, instruction, deep): [fact, effects, stores] of a call in context c
    Prunes                \* whether unreachable blocks are skipped

\* A context is the function with its heap and whatever Called needs.
FactOf(state, key) == IF key \in DOMAIN state THEN state[key] ELSE Nothing
Joined(facts) == FoldSet(Join, Nothing, facts)
Put(state, key, fact) == [k \in DOMAIN state \cup {key} |-> IF k = key THEN fact ELSE state[k]]

Deep(c, state, v) ==
    Joined({FactOf(state, Value(v))}
           \cup {FactOf(state, l) : l \in UNION {Locations(c.points, v, f) : f \in Fields}})
Loaded(c, state, i) ==
    Join(FactOf(state, Value(i.object)), Joined({FactOf(state, l) : l \in Locations(c.points, i.object, i.field)}))

\* A fact stored into every object a value may point to, on top of what is there.
Kept(c, state, object, field, fact) ==
    LET at == Locations(c.points, object, field)
    IN  [k \in DOMAIN state \cup at |-> IF k \in at THEN Join(FactOf(state, k), fact) ELSE state[k]]
StoreEffects(c, object, field, fact) ==
    {[what |-> "store", at |-> l, fact |-> fact] : l \in Locations(c.points, object, field)}

\* A state with the effects so far, after one more store or result.
StoredIn(c, s, object, field, fact) ==
    [state |-> Kept(c, s.state, object, field, fact),
     effects |-> s.effects \cup StoreEffects(c, object, field, fact)]
Result(s, i, fact) == [s EXCEPT !.state = Put(@, Value(i.to), fact)]

After(c, arrived, s, i) ==
    LET operands == {FactOf(s.state, Value(i.from[n])) : n \in DOMAIN i.from}
        deep(v) == Deep(c, s.state, v)
    IN  CASE i.op = "store" -> StoredIn(c, s, i.object, i.field, FactOf(s.state, Value(i.value)))
          [] i.op = "append" -> StoredIn(c, s, i.object, "elements", deep(i.value))
          [] i.op = "write" ->
                [s EXCEPT !.effects = @ \cup {[what |-> "write", fact |-> FactOf(s.state, Value(i.value))]}]
          [] i.op \in {"text", "build"} -> Result(s, i, Joined(operands))
          [] i.op = "load" -> Result(s, i, Loaded(c, s.state, i))
          [] i.op = "phi" ->
                Result(s, i, Joined({FactOf(arrived[b], Value(i.incoming[b])) : b \in DOMAIN arrived \cap DOMAIN i.incoming}))
          [] OTHER ->
                LET called == Called(c, i, [v \in Values(c.function) |-> deep(v)])
                    stored == FoldSet(LAMBDA m, t : StoredIn(c, t, m.object, m.field, m.fact), s, called.stores)
                IN  Result([stored EXCEPT !.effects = @ \cup called.effects], i, called.fact)

Evaluated(c, b, arrived) ==
    LET block == c.function.blocks[b]
        keys == UNION {DOMAIN arrived[p] : p \in DOMAIN arrived}
        before == [state |-> [k \in keys |-> Joined({FactOf(arrived[p], k) : p \in DOMAIN arrived})], effects |-> {}]
        after == FoldLeft(LAMBDA s, i : After(c, arrived, s, i), before, block.code)
        t == block.terminator
    IN  CASE t.kind = "for" -> [after EXCEPT !.state = Put(@, Value(t.to), Deep(c, @, t.iterable))]
          [] t.kind = "return" ->
                [after EXCEPT !.effects = @ \cup {[what |-> "return", fact |-> FactOf(after.state, Value(t.value))]}]
          [] OTHER -> after

\* What each block sends to those that follow it, and the states that arrive.
Sends(c, b, arrived) ==
    IF Prunes /\ ~c.function.blocks[b].runs THEN {} ELSE c.function.blocks[b].terminator.targets
RECURSIVE Solution(_, _)
Solution(c, arrived) ==
    LET sent == [b \in DOMAIN arrived |-> Evaluated(c, b, arrived[b]).state]
        reached == DOMAIN arrived \cup UNION {Sends(c, b, arrived) : b \in DOMAIN arrived}
        next == [t \in reached |->
                    [p \in (IF t \in DOMAIN arrived THEN DOMAIN arrived[t] ELSE {})
                           \cup {b \in DOMAIN arrived : t \in Sends(c, b, arrived)} |->
                        IF p = 0 THEN arrived[t][0] ELSE sent[p]]]
    IN  IF next = arrived THEN arrived ELSE Solution(c, next)

\* The effects of one last evaluation of every block reached, once settled.
Effects(c, initial) ==
    LET arrived == Solution(c, [b \in {First} |-> [p \in {0} |-> initial]])
        run == {b \in DOMAIN arrived : ~Prunes \/ c.function.blocks[b].runs}
    IN  UNION {Evaluated(c, b, arrived[b]).effects : b \in run}
=============================================================================
