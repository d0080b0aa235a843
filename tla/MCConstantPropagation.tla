------------------------- MODULE MCConstantPropagation -------------------------
(* All programs of three blocks, the first of which is never returned to.  *)
EXTENDS ConstantPropagation

MCBlocks == 1..3
MCStarts == {1}
\* The initial state holds no fact: the parameter is unknown.
MCInitial == <<>>

\* A block returns, or goes on to any of a set of blocks (a jump, a loop over an
\* iterable, an exception), or tests what it defined: the first block whether it is
\* the literal 0, the others its truth.
MCTerminators ==
    {Terminator(always, "none", 0, 0) : always \in SUBSET {2, 3}}
    \cup {Terminator({}, test, t, 5 - t) : test \in {"value", "zero"}, t \in {2, 3}}
MCInstructions == {"keep", "zero", "one", "not", "first"}
MCPrograms ==
    {p \in [MCBlocks -> [instruction : MCInstructions, terminator : MCTerminators]] :
        /\ p[1].instruction \in {"keep", "zero", "one"} /\ p[1].terminator.test # "value"
        /\ \A b \in {2, 3} : p[b].terminator.test # "zero"}

\* A loop whose body makes a not-a-number.
LoopPrograms ==
    {[b \in MCBlocks |-> [instruction |-> IF b = 2 THEN i ELSE "keep",
                          terminator |-> CASE b = 1 -> Terminator({2}, "none", 0, 0)
                                           [] b = 2 -> Terminator({2, 3}, "none", 0, 0)
                                           [] OTHER -> Terminator({}, "none", 0, 0)]] : i \in {"zero", "nan"}}
=============================================================================
