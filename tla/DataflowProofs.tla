---------------------------- MODULE DataflowProofs ----------------------------
(***************************************************************************)
(* Proofs about the worklist solver, for any problem, graph and flow.      *)
(*                                                                         *)
(* Constant propagation is sound for every program of one variable,        *)
(* whatever its constants, blocks and paths: the facts the solver ends     *)
(* with cover every value an execution can give, and no branch an          *)
(* execution takes was pruned.                                             *)
(***************************************************************************)
EXTENDS ConstantPropagation, Closures, FunctionTheorems

\* TypeOK is inductive: whatever is queued has received a state.
THEOREM SolverTypeCorrect == Spec => []TypeOK
<1>1. Init => TypeOK
  BY SolverAssumption DEF Init, TypeOK
<1>2. TypeOK /\ [Next]_vars => TypeOK'
  <2> SUFFICES ASSUME TypeOK, [Next]_vars
               PROVE  TypeOK'
    OBVIOUS
  <2>1. CASE UNCHANGED vars
    BY <2>1 DEF TypeOK, vars
  <2>2. ASSUME NEW b \in Blocks, Evaluate(b)
        PROVE  TypeOK'
    <3> DEFINE sent == Flow(problem, b, incoming[b], age'[b])
    <3>1. /\ DOMAIN incoming' = DOMAIN incoming \cup Touched(b, sent)
          /\ queued' = (queued \ {b}) \cup Touched(b, sent)
          /\ age' = [age EXCEPT ![b] = (@ + 1) % Ages]
          /\ problem' = problem
      BY <2>2 DEF Evaluate
    <3>2. Starts \subseteq DOMAIN incoming' /\ queued' \subseteq DOMAIN incoming'
      BY <3>1 DEF TypeOK
    <3>3. age' \in [Blocks -> 0..(Ages - 1)]
      <4>1. age[b] \in Nat
        BY SolverAssumption DEF TypeOK
      <4>2. (age[b] + 1) % Ages \in 0..(Ages - 1)
        BY <4>1, SolverAssumption
      <4> QED BY <3>1, <4>2 DEF TypeOK
    <3> QED BY <3>1, <3>2, <3>3 DEF TypeOK
  <2> QED BY <2>1, <2>2 DEF Next
<1> QED BY <1>1, <1>2, PTL DEF Spec

\* What a block holds from another stays as it is, or becomes what it is sent: only
\* the evaluated block's own states change.
LEMMA OthersKeepTheirs ==
    ASSUME NEW b \in Blocks, Evaluate(b), NEW c, c # b, NEW t, NEW state, Holds(t, c, state)
    PROVE  Holds(t, c, state)'
<1> DEFINE sent == Flow(problem, b, incoming[b], age'[b])
<1>1. incoming' = [u \in DOMAIN incoming \cup Touched(b, sent) |->
                     IF u \in Touched(b, sent) THEN Received(u, b, sent[u]) ELSE incoming[u]]
  BY DEF Evaluate
<1>2. t \in DOMAIN incoming /\ c \in DOMAIN incoming[t] /\ incoming[t][c] = state
  BY DEF Holds
<1>3. CASE t \in Touched(b, sent)
  BY <1>1, <1>2, <1>3 DEF Received, Holds
<1>4. CASE t \notin Touched(b, sent)
  BY <1>1, <1>2, <1>4 DEF Holds
<1> QED BY <1>3, <1>4

\* An empty worklist is a solution: every block that is not queued agrees with what
\* its successors hold, whatever the flow function, its edges and its order.
THEOREM SolverSettles == Spec => []SettledBlocksAgree
<1>1. Init => SettledBlocksAgree
  BY DEF Init, SettledBlocksAgree
<1>2. TypeOK /\ SettledBlocksAgree /\ [Next]_vars => SettledBlocksAgree'
  <2> SUFFICES ASSUME TypeOK, SettledBlocksAgree, [Next]_vars
               PROVE  SettledBlocksAgree'
    OBVIOUS
  <2>1. CASE UNCHANGED vars
    BY <2>1 DEF SettledBlocksAgree, Sent, Holds, vars
  <2>2. ASSUME NEW b \in Blocks, Evaluate(b),
               NEW c \in (DOMAIN incoming' \cap Blocks) \ queued',
               NEW t \in DOMAIN Sent(c)'
        PROVE  Holds(t, c, Sent(c)[t])'
    <3> DEFINE sent == Flow(problem, b, incoming[b], age'[b])
    <3>1. /\ incoming' = [u \in DOMAIN incoming \cup Touched(b, sent) |->
                            IF u \in Touched(b, sent) THEN Received(u, b, sent[u]) ELSE incoming[u]]
          /\ queued' = (queued \ {b}) \cup Touched(b, sent)
          /\ age' = [age EXCEPT ![b] = (@ + 1) % Ages]
          /\ problem' = problem
      BY <2>2 DEF Evaluate
    <3>2. c \notin Touched(b, sent) /\ c \in DOMAIN incoming /\ incoming'[c] = incoming[c]
      BY <3>1
    <3>3. CASE c = b
      <4>1. Sent(c)' = sent
        BY <3>1, <3>2, <3>3 DEF Sent
      <4>2. CASE t \in Touched(b, sent)
        <5>1. incoming'[t] = Received(t, b, sent[t]) /\ t \in DOMAIN incoming'
          BY <3>1, <4>2
        <5>2. b \in DOMAIN incoming'[t] /\ incoming'[t][b] = sent[t]
          BY <5>1 DEF Received
        <5> QED BY <3>3, <4>1, <5>1, <5>2 DEF Holds
      <4>3. CASE t \notin Touched(b, sent)
        <5>1. t \in DOMAIN sent
          BY <4>1
        <5>2. Holds(t, b, sent[t])
          BY <4>3, <5>1 DEF Touched
        <5>3. t \in DOMAIN incoming' /\ incoming'[t] = incoming[t]
          BY <3>1, <4>3, <5>2 DEF Holds
        <5> QED BY <3>3, <4>1, <5>2, <5>3 DEF Holds
      <4> QED BY <4>2, <4>3
    <3>4. CASE c # b
      <4>1. c \notin queued
        BY <3>1, <3>4
      <4>2. age'[c] = age[c]
        BY <3>1, <3>4 DEF TypeOK
      <4>3. Sent(c)' = Sent(c)
        BY <3>1, <3>2, <4>2 DEF Sent
      <4>4. Holds(t, c, Sent(c)[t])
        BY <3>2, <4>1, <4>3 DEF SettledBlocksAgree
      <4>5. Holds(t, c, Sent(c)[t])'
        <5> DEFINE state == Sent(c)[t]
        <5>1. state' = state
          BY <4>3
        <5>2. Holds(t, c, state)
          BY <4>4
        <5> HIDE DEF state
        <5>3. t \in DOMAIN incoming' /\ c \in DOMAIN incoming'[t] /\ incoming'[t][c] = state
          BY <2>2, <3>4, <5>2, OthersKeepTheirs DEF Holds
        <5> USE DEF state
        <5> QED BY <5>1, <5>3 DEF Holds
      <4> QED BY <4>5
    <3> QED BY <3>3, <3>4
  <2> QED BY <2>1, <2>2 DEF Next, SettledBlocksAgree
<1> QED BY <1>1, <1>2, SolverTypeCorrect, PTL DEF Spec

-----------------------------------------------------------------------------
\* The instructions and tests of a program.  Whether a value is the very object of a
\* literal is asked only of those the interpreter keeps one object of: no literal is a
\* not-a-number, and with one that may be shared or not the facts can be wrong.
Instructions == {"keep", "not", "first"} \cup Constants
Tests == {"none", "value"} \cup (Constants \ (NotANumbers \cup Unshared))
Destinations(t) == t.always \cup (IF t.test = "none" THEN {} ELSE {t.then, t.else})

\* Nothing leads back to the first block.
WellFormed(p) ==
    \A b \in Blocks :
        /\ p[b].instruction \in Instructions
        /\ p[b].terminator.test \in Tests
        /\ Destinations(p[b].terminator) \subseteq Blocks \ {First}

\* The solver is given the problem of constant propagation, for such programs.
ConstantProblem ==
    /\ IsFiniteSet(Blocks)
    /\ Starts = {First}
    /\ \A p \in Problems : WellFormed(p)
    /\ \A p, b, arrived, made : Flow(p, b, arrived, made) = ConstantFlow(p, b, arrived, made)

-----------------------------------------------------------------------------
(* Facts.                                                                  *)

\* A fact that covers a value is no bottom, and is that value if it is known.
LEMMA CoveringFacts ==
    ASSUME NEW v \in Constants, NEW fact, Covers(fact, v)
    PROVE  fact # Bottom /\ (Known(fact) => fact[1] = v) /\ (~Known(fact) => fact = Top)
<1>1. Bottom[1] # v /\ Bottom # Top
  BY ConstantsAssumption DEF Bottom, Top
<1>2. QED
  BY <1>1 DEF Covers, Known

LEMMA KnownFacts ==
    ASSUME NEW v \in Constants
    PROVE  Covers(Top, v) /\ Covers(Of(v), v) /\ Known(Of(v)) /\ Of(v)[1] = v
BY ConstantsAssumption DEF Covers, Of, Known, Top, Bottom

\* A join covers what each side covers.
LEMMA JoinCovers ==
    ASSUME NEW sources, IsFiniteSet(sources), NEW fact, NEW s \in sources,
           NEW v \in Constants, Covers(fact[s], v)
    PROVE  Covers(JoinAll(sources, fact), v)
<1> DEFINE holding == {x \in sources : fact[x] # Bottom}
           facts == {fact[x] : x \in holding}
           same == Cardinality(facts) = 1 /\ \A f \in facts : f[1] \notin NotANumbers
<1>1. s \in holding /\ fact[s] \in facts
  BY CoveringFacts
<1>2. IsFiniteSet(holding)
  BY FS_Subset
<1>3. IsFiniteSet(facts)
  <2> DEFINE f == [x \in holding |-> fact[x]]
  <2> HIDE DEF holding
  <2>1. f \in [holding -> facts] /\ \A y \in facts : \E x \in holding : f[x] = y
    OBVIOUS
  <2> HIDE DEF f, facts
  <2>2. f \in Surjection(holding, facts)
    BY <2>1, Fun_IsSurj
  <2>3. QED
    BY <1>2, <2>2, FS_Surjection
<1>4. JoinAll(sources, fact) = IF same \/ Cardinality(holding) = 1 THEN CHOOSE f \in facts : TRUE ELSE Top
  BY <1>1 DEF JoinAll
<1>5. CASE same \/ Cardinality(holding) = 1
  <2>1. facts = {fact[s]}
    <3>1. CASE Cardinality(facts) = 1
      <4> HIDE DEF facts
      <4>1. PICK f : facts = {f}
        BY <1>3, <3>1, FS_Singleton
      <4>2. QED
        BY <1>1, <4>1
    <3>2. CASE Cardinality(holding) = 1
      <4>1. \E x : holding = {x}
        <5> HIDE DEF holding
        <5>1. QED
          BY <1>2, <3>2, FS_Singleton
      <4>2. holding = {s}
        BY <1>1, <4>1
      <4> HIDE DEF holding
      <4>3. QED
        BY <4>2
    <3>3. QED
      BY <1>5, <3>1, <3>2
  <2> HIDE DEF facts, holding
  <2>2. (CHOOSE f \in facts : TRUE) = fact[s]
    BY <2>1
  <2>3. QED
    BY <1>4, <1>5, <2>2
<1>6. CASE ~(same \/ Cardinality(holding) = 1)
  BY <1>4, <1>6, KnownFacts
<1>7. QED
  BY <1>5, <1>6

\* What a block defines from facts that cover the phi's operand and the first value covers
\* what it computes from them.
LEMMA DefinitionCovers ==
    ASSUME NEW p, NEW b \in Blocks \ {First}, p[b].instruction \in Instructions, NEW arrived, NEW made,
           NEW v \in Constants, NEW first \in Constants,
           Covers(Phi(b, arrived), v), Covers(Before(arrived)[First], first)
    PROVE  Covers(Defined(p, b, arrived, made), Computed(p[b].instruction, v, first))
<1> DEFINE i == p[b].instruction
           operand == Phi(b, arrived)
<1>1. CASE i = "keep"
  BY <1>1, ConstantsAssumption DEF Defined, Computed
<1>2. CASE i = "not"
  <2>1. Defined(p, b, arrived, made) = IF ~Known(operand) THEN Top ELSE Of(IF operand[1] \in Truthy THEN "false" ELSE "true")
    BY <1>2, ConstantsAssumption DEF Defined
  <2>2. Computed(i, v, first) = IF v \in Truthy THEN "false" ELSE "true"
    BY <1>2 DEF Computed
  <2>3. Computed(i, v, first) \in Constants
    BY <2>2, ConstantsAssumption
  <2>4. CASE Known(operand)
    BY <2>1, <2>2, <2>3, <2>4, CoveringFacts, KnownFacts
  <2>5. CASE ~Known(operand)
    BY <2>1, <2>3, <2>5, KnownFacts
  <2>6. QED
    BY <2>4, <2>5
<1>3. CASE i = "first"
  BY <1>3, ConstantsAssumption DEF Defined, Computed
<1>4. CASE i \in Constants
  <2>1. Computed(i, v, first) = i
    BY <1>4, ConstantsAssumption DEF Computed
  <2>2. CASE i \in NotANumbers
    BY <1>4, <2>1, <2>2, ConstantsAssumption DEF Defined, Covers
  <2>3. CASE i \notin NotANumbers
    <3>1. Defined(p, b, arrived, made) = Of(i)
      BY <1>4, <2>3, ConstantsAssumption DEF Defined
    <3>2. QED
      BY <1>4, <2>1, <3>1, KnownFacts
  <2>4. QED
    BY <2>2, <2>3
<1>5. QED
  BY <1>1, <1>2, <1>3, <1>4 DEF Instructions

\* Where an execution may go, the facts let it go.
LEMMA ExitsAreTargets ==
    ASSUME NEW p, NEW b \in Blocks, p[b].terminator.test \in Tests,
           NEW v \in Constants, NEW fact, Covers(fact, v)
    PROVE  Exits(p, b, v) \subseteq Targets(p, b, fact)
<1> DEFINE t == p[b].terminator
<1>1. CASE t.test = "none"
  BY <1>1 DEF Exits, Targets
<1>2. CASE t.test = "value"
  <2>1. Condition(t.test, fact) = fact
    BY <1>2 DEF Condition
  <2>2. QED
    BY <1>2, <2>1, CoveringFacts DEF Exits, Targets
<1>3. CASE t.test \in Constants \ (NotANumbers \cup Unshared)
  <2>1. t.test \notin {"none", "value"} \cup Unshared
    BY <1>3, ConstantsAssumption
  <2>2. CASE ~Known(fact)
    <3>1. Condition(t.test, fact) = fact
      BY <2>2 DEF Condition
    <3>2. QED
      BY <2>1, <2>2, <3>1 DEF Exits, Targets
  <2>3. CASE Known(fact)
    <3>1. Condition(t.test, fact) = IF v = t.test THEN Of("true") ELSE Of("false")
      BY <2>1, <2>3, CoveringFacts DEF Condition
    <3>2. /\ Known(Of("true")) /\ Of("true")[1] \in Truthy
          /\ Known(Of("false")) /\ Of("false")[1] \notin Truthy
      BY ConstantsAssumption DEF Known, Of, Top, Bottom
    <3>3. Exits(p, b, v) = t.always \cup (IF v # t.test THEN {t.else} ELSE {t.then})
      BY <2>1 DEF Exits
    <3>4. QED
      BY <2>1, <3>1, <3>2, <3>3 DEF Targets
  <2>4. QED
    BY <2>2, <2>3
<1>4. QED
  BY <1>1, <1>2, <1>3 DEF Tests

-----------------------------------------------------------------------------
(* Executions are an iteration.                                            *)

\* An execution is where it is, the value defined there, and the first block's.
States == Blocks \X Constants \X Constants
Continues(p) == [e \in States |-> Continued(p, e)]
Steps == Cardinality(Blocks) * Cardinality(Constants)

LEMMA StepsFinite ==
    ASSUME IsFiniteSet(Blocks)
    PROVE  Steps \in Nat
<1>1. IsFiniteSet(Constants)
  BY ConstantsAssumption
<1>2. Cardinality(Blocks) \in Nat /\ Cardinality(Constants) \in Nat
  BY <1>1, FS_CardinalityType
<1>3. \A m, n \in Nat : m * n \in Nat
  OBVIOUS
<1>4. QED
  BY <1>2, <1>3 DEF Steps

\* What an instruction gives is a value.
LEMMA ComputedIsConstant ==
    ASSUME NEW i \in Instructions, NEW v \in Constants, NEW first \in Constants
    PROVE  Computed(i, v, first) \in Constants
<1>1. CASE i = "keep"
  BY <1>1 DEF Computed
<1>2. CASE i = "not"
  BY <1>2, ConstantsAssumption DEF Computed
<1>3. CASE i = "first"
  BY <1>3 DEF Computed
<1>4. CASE i \in Constants
  <2>1. i \notin {"keep", "not", "first"}
    BY <1>4, ConstantsAssumption
  <2>2. QED
    BY <1>4, <2>1 DEF Computed
<1>5. QED
  BY <1>1, <1>2, <1>3, <1>4 DEF Instructions

LEMMA ExitsLeadOn ==
    ASSUME NEW p, WellFormed(p), NEW b \in Blocks, NEW v \in Constants
    PROVE  Exits(p, b, v) \subseteq Blocks \ {First}
<1> DEFINE t == p[b].terminator
<1>1. t.test \in Tests /\ Destinations(t) \subseteq Blocks \ {First}
  BY DEF WellFormed
<1>2. Exits(p, b, v) \subseteq Destinations(t)
  <2>1. CASE t.test = "none"
    BY <2>1 DEF Exits, Destinations
  <2>2. CASE t.test = "value"
    BY <2>2 DEF Exits, Destinations
  <2>3. CASE t.test \notin {"none", "value"}
    BY <2>3 DEF Exits, Destinations
  <2>4. QED
    BY <2>1, <2>2, <2>3
<1>3. QED
  BY <1>1, <1>2

\* Executions start in the first block, and go from block to block.
LEMMA ExecutionsMove ==
    ASSUME NEW p, WellFormed(p), First \in Blocks
    PROVE  /\ Started(p) \in SUBSET States
           /\ Continues(p) \in [States -> SUBSET States]
<1>1. Started(p) \subseteq States
  <2>1. p[First].instruction \in Instructions
    BY DEF WellFormed
  <2>2. \A x \in Constants : Computed(p[First].instruction, x, x) \in Constants
    BY <2>1, ComputedIsConstant
  <2>3. QED
    BY <2>2 DEF Started, States
<1>2. ASSUME NEW e \in States PROVE Continued(p, e) \subseteq States
  <2>1. e[1] \in Blocks /\ e[2] \in Constants /\ e[3] \in Constants
    BY DEF States
  <2>2. ASSUME NEW t \in Exits(p, e[1], e[2])
        PROVE  <<t, Computed(p[t].instruction, e[2], e[3]), e[3]>> \in States
    <3>1. t \in Blocks
      BY <2>1, ExitsLeadOn
    <3>2. p[t].instruction \in Instructions
      BY <3>1 DEF WellFormed
    <3>3. Computed(p[t].instruction, e[2], e[3]) \in Constants
      BY <2>1, <3>2, ComputedIsConstant
    <3>4. QED
      BY <2>1, <3>1, <3>3 DEF States
  <2>3. QED
    BY <2>2 DEF Continued
<1>3. QED
  BY <1>1, <1>2 DEF Continues

LEMMA ExecutionsIterate ==
    ASSUME NEW p, WellFormed(p), First \in Blocks, IsFiniteSet(Blocks)
    PROVE  \E g : /\ Iteration(g, Steps, States, Continues(p), Started(p))
                  /\ Executions(p) = g[Steps]
<1> DEFINE N == Steps
           step(g, n) == IF n = 0 THEN Started(p)
                         ELSE LET before == g[n - 1] IN before \cup UNION {Continued(p, e) : e \in before}
           reached == CHOOSE g : g = [n \in 0..N |-> step(g, n)]
<1>1. N \in Nat
  BY StepsFinite
<1>2. /\ Continues(p) \in [States -> SUBSET States] /\ Started(p) \in SUBSET States
      /\ \A x \in States : Continues(p)[x] = Continued(p, x)
  BY ExecutionsMove DEF Continues
<1>3. ASSUME NEW g, Iteration(g, N, States, Continues(p), Started(p)) PROVE g = [n \in 0..N |-> step(g, n)]
  <2>1. g \in [0..N -> SUBSET States]
    BY <1>3 DEF Iteration
  <2>2. ASSUME NEW n \in 0..N PROVE g[n] = step(g, n)
    <3>1. CASE n = 0
      BY <1>3, <3>1 DEF Iteration
    <3>2. CASE n # 0
      <4> HIDE DEF N
      <4>1. n \in 1..N /\ n - 1 \in 0..N
        BY <1>1, <3>2
      <4>2. g[n] = g[n - 1] \cup UNION {Continues(p)[x] : x \in g[n - 1]} /\ g[n - 1] \subseteq States
        BY <1>3, <4>1 DEF Iteration
      <4>3. {Continues(p)[x] : x \in g[n - 1]} = {Continued(p, x) : x \in g[n - 1]}
        BY <1>2, <4>2
      <4>4. QED
        BY <3>2, <4>2, <4>3
    <3>3. QED
      BY <3>1, <3>2
  <2> HIDE DEF step
  <2>3. QED
    BY <2>1, <2>2
<1>4. ASSUME NEW g, g = [n \in 0..N |-> step(g, n)], NEW h, Iteration(h, N, States, Continues(p), Started(p))
      PROVE  Iteration(g, N, States, Continues(p), Started(p))
  <2> DEFINE H == {n \in Nat : n <= N => g[n] = h[n]}
  <2>1. h = [n \in 0..N |-> step(h, n)] /\ h \in [0..N -> SUBSET States]
    BY <1>3, <1>4 DEF Iteration
  <2> HIDE DEF N
  <2>2. 0 \in H
    BY <1>1, <1>4, <2>1
  <2>3. ASSUME NEW n \in 1..N, n - 1 \in H PROVE n \in H
    <3>1. g[n - 1] = h[n - 1] /\ n \in 0..N /\ n # 0
      BY <1>1, <2>3
    <3>2. g[n] = step(g, n)
      <4> HIDE DEF step
      <4>1. QED
        BY <1>4, <3>1
    <3>3. h[n] = step(h, n)
      <4> HIDE DEF step
      <4>1. QED
        BY <2>1, <3>1
    <3>4. step(g, n) = step(h, n)
      BY <3>1
    <3> HIDE DEF step
    <3>5. n \in Nat /\ g[n] = h[n]
      BY <1>1, <3>1, <3>2, <3>3, <3>4
    <3>6. QED
      BY <3>5
  <2>4. \A n \in 0..N : n \in H
    <3> HIDE DEF H
    <3>1. QED
      BY <1>1, <2>2, <2>3, UpTo
  <2>5. g = h
    <3>1. \A n \in 0..N : g[n] = h[n]
      BY <2>4
    <3>2. g = [n \in 0..N |-> g[n]] /\ h = [n \in 0..N |-> h[n]]
      BY <1>4, <2>1
    <3>3. QED
      BY <3>1, <3>2
  <2>6. QED
    BY <1>4, <2>5
<1>5. PICK h : Iteration(h, N, States, Continues(p), Started(p))
  <2> HIDE DEF N
  <2>1. QED
    BY <1>1, <1>2, IterationExists
<1>6. reached = [n \in 0..N |-> step(reached, n)]
  <2>1. h = [n \in 0..N |-> step(h, n)]
    BY <1>3, <1>5
  <2> HIDE DEF step
  <2>2. QED
    BY <2>1
<1>7. Executions(p) = reached[N]
  BY DEF Executions, Steps
<1> HIDE DEF reached, step
<1>8. QED
  BY <1>4, <1>5, <1>6, <1>7

-----------------------------------------------------------------------------
(* Soundness.                                                              *)

\* States come from blocks, and from where initial states come.
Sources == \A t \in DOMAIN incoming : DOMAIN incoming[t] \subseteq Blocks \cup {Entry}

THEOREM SourcesAreBlocks == Spec => []Sources
<1>1. Init => Sources
  BY DEF Init, Sources
<1>2. Sources /\ [Next]_vars => Sources'
  <2> SUFFICES ASSUME Sources, [Next]_vars
               PROVE  Sources'
    OBVIOUS
  <2>1. CASE UNCHANGED vars
    BY <2>1 DEF Sources, vars
  <2>2. ASSUME NEW b \in Blocks, Evaluate(b), NEW t \in DOMAIN incoming'
        PROVE  DOMAIN incoming'[t] \subseteq Blocks \cup {Entry}
    <3> DEFINE sent == Flow(problem, b, incoming[b], age'[b])
    <3>1. incoming' = [u \in DOMAIN incoming \cup Touched(b, sent) |->
                         IF u \in Touched(b, sent) THEN Received(u, b, sent[u]) ELSE incoming[u]]
      BY <2>2 DEF Evaluate
    <3> HIDE DEF sent
    <3>2. CASE t \in Touched(b, sent)
      <4>1. incoming'[t] = Received(t, b, sent[t])
        BY <3>1, <3>2
      <4>2. CASE t \in DOMAIN incoming
        BY <4>1, <4>2 DEF Sources, Received
      <4>3. CASE t \notin DOMAIN incoming
        BY <4>1, <4>3 DEF Received
      <4>4. QED
        BY <4>2, <4>3
    <3>3. CASE t \notin Touched(b, sent)
      BY <2>2, <3>1, <3>3 DEF Sources
    <3>4. QED
      BY <3>2, <3>3
  <2>3. QED
    BY <2>1, <2>2 DEF Next, Sources
<1>3. QED
  BY <1>1, <1>2, PTL DEF Spec

\* What the facts cover: the value that a block defines, and the first block's.
Covered(e) ==
    /\ e[1] \in DOMAIN incoming
    /\ Covers(Defined(problem, e[1], incoming[e[1]], age[e[1]]), e[2])
    /\ First \in DOMAIN After(problem, e[1], incoming[e[1]], age[e[1]])
    /\ Covers(After(problem, e[1], incoming[e[1]], age[e[1]])[First], e[3])

LEMMA AfterFacts ==
    ASSUME NEW p, NEW b, NEW arrived, NEW made
    PROVE  /\ b \in DOMAIN After(p, b, arrived, made)
           /\ After(p, b, arrived, made)[b] = Defined(p, b, arrived, made)
           /\ DOMAIN Before(arrived) \subseteq DOMAIN After(p, b, arrived, made)
           /\ \A v \in DOMAIN Before(arrived) :
                v # b => After(p, b, arrived, made)[v] = Before(arrived)[v]
<1> DEFINE before == Before(arrived)
           defined == Defined(p, b, arrived, made)
<1>1. After(p, b, arrived, made) = [v \in DOMAIN before \cup {b} |-> IF v = b THEN defined ELSE before[v]]
  BY DEF After
<1> HIDE DEF before, defined
<1>2. QED
  BY <1>1 DEF before, defined

\* What one source holds of a value, the facts before a block cover.
LEMMA BeforeCovers ==
    ASSUME NEW arrived, IsFiniteSet(DOMAIN arrived), NEW s \in DOMAIN arrived,
           NEW w \in DOMAIN arrived[s], NEW v \in Constants, Covers(arrived[s][w], v)
    PROVE  w \in DOMAIN Before(arrived) /\ Covers(Before(arrived)[w], v)
<1> DEFINE holding == {x \in DOMAIN arrived : w \in DOMAIN arrived[x]}
           fact == [x \in holding |-> arrived[x][w]]
<1>1. w \in DOMAIN Before(arrived) /\ Before(arrived)[w] = JoinAll(holding, fact)
  BY DEF Before
<1>2. IsFiniteSet(holding) /\ s \in holding /\ Covers(fact[s], v)
  BY FS_Subset
<1> HIDE DEF holding, fact
<1>3. QED
  BY <1>1, <1>2, JoinCovers

\* The executions that the first block starts are covered.
LEMMA StartsAreCovered ==
    ASSUME NEW e \in Started(problem), ConstantProblem, TypeOK
    PROVE  Covered(e)
<1> DEFINE i == problem[First].instruction
           arrived == incoming[First]
           made == age[First]
<1>1. First \in Blocks /\ First \in DOMAIN incoming
  BY SolverAssumption DEF ConstantProblem, TypeOK
<1>2. i \in Instructions
  BY <1>1 DEF ConstantProblem, TypeOK, WellFormed
<1>3. PICK x \in Constants : e = <<First, Computed(i, x, x), Computed(i, x, x)>>
  BY DEF Started
<1>4. Covers(Defined(problem, First, arrived, made), Computed(i, x, x))
  <2>1. Phi(First, arrived) = Top /\ ~Known(Top)
    BY DEF Phi, Known
  <2>2. CASE i \in {"keep", "not", "first"}
    <3>1. Defined(problem, First, arrived, made) = Top
      BY <2>1, <2>2, ConstantsAssumption DEF Defined
    <3>2. QED
      BY <3>1 DEF Covers
  <2>3. CASE i \in Constants
    <3>1. Computed(i, x, x) = i /\ i \notin {"keep", "not", "first"}
      BY <2>3, ConstantsAssumption DEF Computed
    <3>2. CASE i \in NotANumbers
      BY <3>1, <3>2 DEF Defined, Covers
    <3>3. CASE i \notin NotANumbers
      <4>1. Defined(problem, First, arrived, made) = Of(i)
        BY <3>1, <3>3 DEF Defined
      <4>2. QED
        BY <2>3, <3>1, <4>1, KnownFacts
    <3>4. QED
      BY <3>2, <3>3
  <2>4. QED
    BY <1>2, <2>2, <2>3 DEF Instructions
<1>5. QED
  BY <1>1, <1>3, <1>4, AfterFacts DEF Covered

\* In a solution, what a covered execution goes on to is covered.
LEMMA CoveredGoOn ==
    ASSUME ConstantProblem, TypeOK, Sources, SettledBlocksAgree, queued = {},
           NEW e \in States, Covered(e), NEW f \in Continued(problem, e)
    PROVE  Covered(f)
<1> DEFINE b == e[1]
           after == After(problem, b, incoming[b], age[b])
<1>1. b \in Blocks /\ e[2] \in Constants /\ e[3] \in Constants
  BY DEF States
<1>2. WellFormed(problem)
  BY DEF ConstantProblem, TypeOK
<1>3. PICK t \in Exits(problem, b, e[2]) : f = <<t, Computed(problem[t].instruction, e[2], e[3]), e[3]>>
  BY DEF Continued
<1>4. t \in Blocks \ {First} /\ problem[t].instruction \in Instructions
  BY <1>1, <1>2, <1>3, ExitsLeadOn DEF WellFormed
<1>5. after[b] = Defined(problem, b, incoming[b], age[b]) /\ Covers(after[b], e[2])
  BY AfterFacts DEF Covered
<1>6. t \in Targets(problem, b, after[b])
  <2>1. problem[b].terminator.test \in Tests
    BY <1>1, <1>2 DEF WellFormed
  <2> HIDE DEF after
  <2>2. QED
    BY <1>1, <1>3, <1>5, <2>1, ExitsAreTargets
<1>7. t \in DOMAIN incoming /\ b \in DOMAIN incoming[t] /\ incoming[t][b] = after
  <2>1. Sent(b) = ConstantFlow(problem, b, incoming[b], age[b])
    BY DEF Sent, ConstantProblem
  <2>2. Sent(b) = [u \in Targets(problem, b, after[b]) |-> after]
    BY <2>1 DEF ConstantFlow
  <2> HIDE DEF after
  <2>3. t \in DOMAIN Sent(b) /\ Sent(b)[t] = after
    BY <1>6, <2>2
  <2>4. b \in (DOMAIN incoming \cap Blocks) \ queued
    BY <1>1 DEF Covered
  <2>5. Holds(t, b, Sent(b)[t])
    BY <2>3, <2>4 DEF SettledBlocksAgree
  <2>6. QED
    BY <2>3, <2>5 DEF Holds
<1> DEFINE arrived == incoming[t]
<1>8. IsFiniteSet(DOMAIN arrived)
  <2>1. IsFiniteSet(Blocks \cup {Entry})
    BY FS_AddElement DEF ConstantProblem
  <2>2. QED
    BY <1>7, <2>1, FS_Subset DEF Sources
<1>9. First \in DOMAIN after /\ Covers(after[First], e[3])
  BY DEF Covered
<1> HIDE DEF after
<1>10. Covers(Phi(t, arrived), e[2])
  <2> DEFINE fact == [s \in DOMAIN arrived |-> arrived[s][s]]
  <2>1. Phi(t, arrived) = JoinAll(DOMAIN arrived, fact)
    BY <1>4 DEF Phi
  <2>2. b \in DOMAIN arrived /\ fact[b] = after[b]
    BY <1>7
  <2> HIDE DEF fact
  <2>3. QED
    BY <1>1, <1>5, <1>8, <2>1, <2>2, JoinCovers
<1>11. First \in DOMAIN Before(arrived) /\ Covers(Before(arrived)[First], e[3])
  BY <1>1, <1>7, <1>8, <1>9, BeforeCovers
<1>12. Covers(Defined(problem, t, arrived, age[t]), Computed(problem[t].instruction, e[2], e[3]))
  BY <1>1, <1>4, <1>10, <1>11, DefinitionCovers
<1>13. /\ First \in DOMAIN After(problem, t, arrived, age[t])
       /\ Covers(After(problem, t, arrived, age[t])[First], e[3])
  BY <1>4, <1>11, AfterFacts
<1>14. QED
  BY <1>3, <1>7, <1>12, <1>13 DEF Covered

\* Constant propagation is sound for every program of one variable, of any finite set of
\* constants and any blocks: when the worklist is empty, every block an execution reaches is
\* reached, and the fact for what it defines covers the value it takes there
\* (abstract/constants.py, _ConstantProblem).
THEOREM ConstantsAreSound ==
    ASSUME ConstantProblem
    PROVE  Spec => []ConstantsSound
<1>1. TypeOK /\ Sources /\ SettledBlocksAgree => ConstantsSound
  <2> SUFFICES ASSUME TypeOK, Sources, SettledBlocksAgree, queued = {}
               PROVE  \A e \in Executions(problem) : Covered(e)
    BY DEF ConstantsSound, Covered
  <2>1. WellFormed(problem) /\ First \in Blocks /\ IsFiniteSet(Blocks)
    BY SolverAssumption DEF ConstantProblem, TypeOK
  <2>2. PICK g : /\ Iteration(g, Steps, States, Continues(problem), Started(problem))
                 /\ Executions(problem) = g[Steps]
    BY <2>1, ExecutionsIterate
  <2>3. /\ Started(problem) \in SUBSET States
        /\ Continues(problem) \in [States -> SUBSET States]
    BY <2>1, ExecutionsMove
  <2> DEFINE C == {e \in States : Covered(e)}
  <2>4. Started(problem) \subseteq C
    BY <2>3, StartsAreCovered
  <2>5. ClosedUnder(C \cap States, Continues(problem))
    <3>1. ASSUME NEW e \in C PROVE Continues(problem)[e] \subseteq C
      <4>1. Continues(problem)[e] = Continued(problem, e) /\ Continues(problem)[e] \subseteq States
        BY <2>3 DEF Continues
      <4>2. \A f \in Continued(problem, e) : Covered(f)
        BY CoveredGoOn
      <4>3. QED
        BY <4>1, <4>2
    <3>2. QED
      BY <3>1 DEF ClosedUnder
  <2>6. Steps \in Nat
    BY <2>1, StepsFinite
  <2> HIDE DEF C
  <2>7. \A n \in 0..Steps : g[n] \subseteq C
    BY <2>2, <2>3, <2>4, <2>5, <2>6, IterationIsLeast
  <2>8. Executions(problem) \subseteq C
    BY <2>2, <2>6, <2>7
  <2>9. QED
    BY <2>8 DEF C
<1>2. QED
  BY <1>1, SolverTypeCorrect, SourcesAreBlocks, SolverSettles, PTL
=============================================================================
