-------------------------- MODULE ConstantPropagation --------------------------
(***************************************************************************)
(* The constant propagation of abstract/constants.py, as a problem for the *)
(* solver.  A program has one variable: every block starts with the phi of *)
(* it over the blocks it may come from, applies one instruction to that,   *)
(* and ends with a terminator.  The value a block defines is named by the  *)
(* block.                                                                  *)
(*                                                                         *)
(* A fact is <<constant, block, age>>: the last two tell objects apart     *)
(* that are equal to no other, the not-a-numbers, and are 0 for the rest.  *)
(* The types a fact also has decide no branch and are left out.            *)
(***************************************************************************)
EXTENDS DataflowSolver, FiniteSets

CONSTANTS
    Constants,      \* the values of programs, and the instructions that give one
    Truthy,         \* those a condition takes for true
    NotANumbers,    \* those equal to nothing, themselves included
    Unshared        \* those the interpreter may keep several objects of

ASSUME ConstantsAssumption ==
    /\ IsFiniteSet(Constants) /\ NotANumbers \subseteq Constants
    /\ "true" \in Truthy /\ "false" \notin Truthy
    /\ {"true", "false"} \subseteq Constants
    /\ Constants \cap {"keep", "not", "first", "none", "value", "top", "bottom"} = {}

\* A program gives each block an instruction and a terminator; nothing leads back to
\* the first block.
First == CHOOSE b \in Starts : TRUE
Terminator(always, test, then, else) ==
    [always |-> always, test |-> test, then |-> then, else |-> else]

-----------------------------------------------------------------------------
(* The lattice of facts.                                                   *)

Of(c) == <<c, 0, 0>>
Bottom == <<"bottom", 0, 0>>
Top == <<"top", 0, 0>>
Known(fact) == fact \notin {Bottom, Top}

\* The join of the facts that the members of a set of sources hold: what is known on
\* every side, if it is the same.  Not-a-number is equal to nothing, itself included.
JoinFirst(sources, fact) ==
    IF sources = {} THEN Bottom ELSE fact[CHOOSE s \in sources : TRUE]
JoinAll(sources, fact) ==
    LET holding == {s \in sources : fact[s] # Bottom}
        facts == {fact[s] : s \in holding}
        same == Cardinality(facts) = 1 /\ \A f \in facts : f[1] \notin NotANumbers
    IN  IF holding = {} THEN Bottom
        ELSE IF same \/ Cardinality(holding) = 1 THEN CHOOSE f \in facts : TRUE ELSE Top

-----------------------------------------------------------------------------
(* The problem.                                                            *)

\* What is known before a block of each value already defined.
Before(arrived) ==
    LET holding(v) == {s \in DOMAIN arrived : v \in DOMAIN arrived[s]}
    IN  [v \in UNION {DOMAIN arrived[s] : s \in DOMAIN arrived} |->
            JoinAll(holding(v), [s \in holding(v) |-> arrived[s][v]])]

\* The phi joins over the edges executed so far; the first block has the parameter.
Phi(b, arrived) ==
    IF b = First THEN Top ELSE JoinAll(DOMAIN arrived, [s \in DOMAIN arrived |-> arrived[s][s]])

\* The fact for what b defines.  Folding not-a-number makes a new object each time.
Defined(p, b, arrived, made) ==
    LET i == p[b].instruction
        operand == Phi(b, arrived)
    IN  CASE i = "keep"  -> operand
          [] i = "not"   -> IF ~Known(operand) THEN Top
                            ELSE Of(IF operand[1] \in Truthy THEN "false" ELSE "true")
          [] i = "first" -> IF b = First THEN Top ELSE Before(arrived)[First]
          [] i \in NotANumbers -> <<i, b, made>>
          [] OTHER       -> Of(i)

After(p, b, arrived, made) ==
    [v \in DOMAIN Before(arrived) \cup {b} |->
        IF v = b THEN Defined(p, b, arrived, made) ELSE Before(arrived)[v]]

\* The fact of the condition a branch tests: the value itself, or whether it is the
\* very object of a literal.  Each literal of the source is an object of its own,
\* except those the interpreter keeps one of.
Condition(test, fact) ==
    IF test = "value" \/ ~Known(fact) THEN fact
    ELSE IF fact[1] = test /\ test \notin Unshared THEN Of("true") ELSE Of("false")

TargetsOfKnown(p, b, fact) ==
    LET t == p[b].terminator
        condition == Condition(t.test, fact)
    IN  t.always \cup
        (IF t.test = "none" \/ ~Known(condition) THEN {}
         ELSE IF condition[1] \in Truthy THEN {t.then} ELSE {t.else})
Targets(p, b, fact) ==
    LET t == p[b].terminator
        condition == Condition(t.test, fact)
    IN  t.always \cup
        (IF t.test = "none" THEN {}
         ELSE IF ~Known(condition) THEN {t.then, t.else}
         ELSE IF condition[1] \in Truthy THEN {t.then} ELSE {t.else})

ConstantFlow(p, b, arrived, made) ==
    LET after == After(p, b, arrived, made)
    IN  [t \in Targets(p, b, after[b]) |-> after]

-----------------------------------------------------------------------------
(* Executions of a program, against which facts are judged.                *)

\* What an instruction gives for the value v, when the first block defined first.
Computed(i, v, first) ==
    CASE i = "keep"  -> v
      [] i = "not"   -> IF v \in Truthy THEN "false" ELSE "true"
      [] i = "first" -> first
      [] OTHER       -> i

\* Where a block that defined v may go next.  The interpreter may keep one object
\* for equal literals of a function.
Exits(p, b, v) ==
    LET t == p[b].terminator
    IN  t.always \cup
        CASE t.test = "none"  -> {}
          [] t.test = "value" -> IF v \in Truthy THEN {t.then} ELSE {t.else}
          [] OTHER            -> IF v # t.test THEN {t.else}
                                 ELSE IF v \in Unshared THEN {t.then, t.else} ELSE {t.then}

\* The executions that the first block starts: <<block, value, value of the first>>.
Started(p) ==
    {<<First, v, v>> : v \in {Computed(p[First].instruction, x, x) : x \in Constants}}
Continued(p, e) ==
    {<<t, Computed(p[t].instruction, e[2], e[3]), e[3]>> : t \in Exits(p, e[1], e[2])}

\* No execution needs more steps than there are blocks and values to meet a new one.
Executions(p) ==
    LET steps == Cardinality(Blocks) * Cardinality(Constants)
        reached[n \in 0..steps] ==
            IF n = 0 THEN Started(p)
            ELSE LET before == reached[n - 1] IN before \cup UNION {Continued(p, e) : e \in before}
    IN  reached[steps]

Covers(fact, v) == fact = Top \/ fact[1] = v

\* Once the worklist is empty, every block an execution reaches is reached and the
\* fact for what it defines covers every value it takes there: no branch that can be
\* taken was pruned and no value was folded that can differ.
ConstantsSound ==
    queued = {} =>
        \A e \in Executions(problem) :
            /\ e[1] \in DOMAIN incoming
            /\ Covers(Defined(problem, e[1], incoming[e[1]], age[e[1]]), e[2])
=============================================================================
