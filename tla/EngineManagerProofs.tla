-------------------------- MODULE EngineManagerProofs --------------------------
(***************************************************************************)
(* For every set of analyses, every DAG of declared dependencies and every *)
(* set of inputs that satisfy the assumptions of EngineManager, each       *)
(* cached result was computed from the inputs as they are.                 *)
(*                                                                         *)
(* The argument.  A computation only reads what its analysis requires, so  *)
(* the results of a closed set of analyses never reach an input outside    *)
(* it (Isolated).  The engine provides an input anew only when everything  *)
(* cached lies in a closed set the input is outside of: by the order of    *)
(* its phases for the configuration and the project inputs, by the pass    *)
(* it runs first for the index.                                            *)
(***************************************************************************)
EXTENDS EngineManager, TLAPS

\* The computing list mirrors the stack, and each computation was asked for by
\* one whose analysis requires it.
StackInv ==
    /\ Len(computing) = Len(frames)
    /\ \A n \in 1..Len(frames) : computing[n] = frames[n].key[1]
    /\ \A n \in 1..Len(frames) : n > 1 => frames[n].key[1] \in Requires[frames[n - 1].key[1]]

\* What was provided stays cached, so an input is only computed while it has its
\* default.
InputInv ==
    /\ \A i \in Inputs : version[i] # 0 => InputKey(i) \in DOMAIN cache
    /\ \A n \in 1..Len(frames) : frames[n].key[1] \in Inputs => version[frames[n].key[1]] = 0

\* Nothing computed from an analysis of D has read an input of I.
Isolated(D, I) ==
    /\ \A k \in DOMAIN cache : k[1] \in D => \A r \in cache[k] : r[1] \notin I
    /\ \A n \in 1..Len(frames) : frames[n].key[1] \in D => \A r \in frames[n].read : r[1] \notin I

\* Everything cached or under computation belongs to D.
Within(D) ==
    /\ \A k \in DOMAIN cache : k[1] \in D
    /\ \A n \in 1..Len(frames) : frames[n].key[1] \in D

LateInputs == ProjectInputs \cup {ProjectSummaries}

PhaseInv ==
    /\ pc = "inputs" =>
          /\ frames = <<>>
          /\ \A k \in DOMAIN cache : k[1] \in ConfigurationInputs /\ \A r \in cache[k] : r[2] = 1
    /\ pc = "tables" => Within(TableAnalyses)
    /\ pc = "project" =>
          /\ frames = <<>>
          /\ \A k \in DOMAIN cache :
                \/ k[1] \in TableAnalyses
                \/ k[1] \in ProjectInputs /\ cache[k] = {<<k[1], 1>>}
    /\ pc = "start" => Within(Preserves[Updated])

\* What every step keeps whatever its phase.
Kernel ==
    /\ TypeOK /\ StackInv /\ InputInv /\ Fresh
    /\ Isolated(TableAnalyses, LateInputs)
    /\ Isolated(Preserves[Updated], {ProjectSummaries})

IInv == EngineTypeOK /\ Kernel /\ PhaseInv

-----------------------------------------------------------------------------
(* Stacks.                                                                 *)

\* Pushing a fresh frame for a key keeps the frames below.
LEMMA PushFacts ==
    ASSUME NEW s \in Seq(Frame), NEW k \in Keys
    PROVE  /\ Began(k, s) \in Seq(Frame)
           /\ Len(Began(k, s)) = Len(s) + 1
           /\ \A n \in 1..Len(s) : Began(k, s)[n] = s[n]
           /\ Began(k, s)[Len(s) + 1].key = k
           /\ Began(k, s)[Len(s) + 1].read = {}
<1>1. [key |-> k, asked |-> {}, read |-> {}] \in Frame
  BY DEF Frame
<1>2. QED
  BY <1>1 DEF Began

\* Popping a stack that is not empty keeps all but its last element.
LEMMA PopFacts ==
    ASSUME NEW T, NEW s \in Seq(T), s # <<>>
    PROVE  /\ Pop(s) \in Seq(T)
           /\ Len(s) \in Nat \ {0}
           /\ Len(Pop(s)) = Len(s) - 1
           /\ \A n \in 1..(Len(s) - 1) : Pop(s)[n] = s[n]
BY DEF Pop

\* The frame that asked remembers the key and what it was given.
LEMMA AskedFacts ==
    ASSUME NEW s \in Seq(Frame), s # <<>>, NEW k \in Keys, NEW found \in SUBSET Reads
    PROVE  /\ Asked(s, k, found) \in Seq(Frame)
           /\ Len(Asked(s, k, found)) = Len(s)
           /\ \A n \in 1..Len(s) : Asked(s, k, found)[n].key = s[n].key
           /\ \A n \in 1..Len(s) : n # Len(s) => Asked(s, k, found)[n].read = s[n].read
           /\ \A n \in 1..Len(s) : Asked(s, k, found)[n].read \subseteq s[n].read \cup found
<1> DEFINE m == Len(s)
<1> DEFINE e == [s[m] EXCEPT !.asked = @ \cup {k}, !.read = @ \cup found]
<1>1. m \in 1..m /\ m \in Nat
  OBVIOUS
<1>2. s[m] \in Frame
  BY <1>1
<1>3. /\ e \in Frame /\ e.key = s[m].key /\ e.read = s[m].read \cup found
  BY <1>2 DEF Frame
<1>4. Asked(s, k, found) = [s EXCEPT ![m] = e]
  BY <1>1, <1>2 DEF Asked, Frame
<1>5. QED
  BY <1>1, <1>3, <1>4

\* The frame below a finished computation, if any, has read its result.
LEMMA HandedFacts ==
    ASSUME NEW s \in Seq(Frame), NEW found \in SUBSET Reads
    PROVE  /\ Handed(s, found) \in Seq(Frame)
           /\ Len(Handed(s, found)) = Len(s)
           /\ \A n \in 1..Len(s) : Handed(s, found)[n].key = s[n].key
           /\ \A n \in 1..Len(s) : n # Len(s) => Handed(s, found)[n].read = s[n].read
           /\ \A n \in 1..Len(s) : Handed(s, found)[n].read \subseteq s[n].read \cup found
<1>1. CASE s = <<>>
  BY <1>1 DEF Handed
<1>2. CASE s # <<>>
  <2> DEFINE m == Len(s)
  <2> DEFINE e == [s[m] EXCEPT !.read = @ \cup found]
  <2>1. m \in 1..m /\ m \in Nat
    BY <1>2
  <2>2. s[m] \in Frame
    BY <2>1
  <2>3. /\ e \in Frame /\ e.key = s[m].key /\ e.read = s[m].read \cup found
    BY <2>2 DEF Frame
  <2>4. Handed(s, found) = [s EXCEPT ![m] = e]
    BY <1>2, <2>1, <2>2 DEF Handed, Frame
  <2>5. QED
    BY <2>1, <2>3, <2>4
<1>3. QED
  BY <1>1, <1>2

-----------------------------------------------------------------------------
(* Evaluation steps.                                                       *)

USE DEF InputKey

LEMMA KeyFacts ==
    /\ \A k \in Keys : k[1] \in Analyses
    /\ \A i \in Inputs : InputKey(i) \in Keys /\ InputKey(i)[1] = i
    /\ \A k \in Keys : k[1] \in Inputs => k = InputKey(k[1])
BY ManagerAssumption DEF Keys

\* Every computation in progress is of a known analysis and has read known inputs.
LEMMA FrameFacts ==
    ASSUME TypeOK
    PROVE  \A n \in 1..Len(frames) : frames[n].key[1] \in Analyses /\ frames[n].read \in SUBSET Reads
<1>1. ASSUME NEW n \in 1..Len(frames)
      PROVE  frames[n].key[1] \in Analyses /\ frames[n].read \in SUBSET Reads
  <2>1. frames[n] \in Frame
    BY DEF TypeOK
  <2>2. frames[n].key \in Keys /\ frames[n].read \in SUBSET Reads
    BY <2>1 DEF Frame
  <2>3. QED
    BY <2>2, KeyFacts
<1>2. QED
  BY <1>1

\* A request starts a frame on top of what the stack has become.
LEMMA BeginType ==
    ASSUME TypeOK, StackInv, NEW k \in Keys, NEW s \in Seq(Frame),
           Len(s) = Len(frames), \A n \in 1..Len(s) : s[n].key = frames[n].key,
           Accepted(k), computing' = Append(computing, k[1]), frames' = Began(k, s),
           UNCHANGED <<registry, cache, raising, version, aborted>>
    PROVE  TypeOK' /\ StackInv'
<1> DEFINE m == Len(s)
<1>1. k[1] \in Analyses
  BY KeyFacts
<1>2. /\ frames' \in Seq(Frame)
      /\ Len(frames') = m + 1
      /\ \A n \in 1..m : frames'[n] = s[n]
      /\ frames'[m + 1].key = k
  BY PushFacts
<1>3. /\ computing' \in Seq(Analyses)
      /\ Len(computing') = m + 1
      /\ \A n \in 1..m : computing'[n] = computing[n]
      /\ computing'[m + 1] = k[1]
  BY <1>1 DEF TypeOK, StackInv
<1>4. TypeOK'
  BY <1>2, <1>3 DEF TypeOK
<1>5. \A n \in 1..m : computing[n] = s[n].key[1]
  BY DEF StackInv
<1>6. ASSUME NEW n \in 1..(m + 1) PROVE computing'[n] = frames'[n].key[1]
  BY <1>2, <1>3, <1>5
<1>7. ASSUME NEW n \in 1..(m + 1), n > 1
      PROVE  frames'[n].key[1] \in Requires[frames'[n - 1].key[1]]
  <2>1. m \in Nat /\ n - 1 \in 1..m
    BY <1>7
  <2>2. CASE n = m + 1
    <3>1. computing # <<>> /\ Len(computing) = m
      BY <2>1, <2>2 DEF TypeOK, StackInv
    <3>2. k[1] \in Requires[computing[m]]
      BY <3>1 DEF Accepted
    <3>3. computing[m] = frames'[m].key[1]
      BY <1>2, <1>5, <2>1, <2>2
    <3>4. QED
      BY <1>2, <2>2, <3>2, <3>3
  <2>3. CASE n \in 1..m
    <3>1. frames[n].key[1] \in Requires[frames[n - 1].key[1]]
      BY <1>7, <2>3 DEF StackInv
    <3>2. QED
      BY <1>2, <2>1, <2>3, <3>1
  <2>4. QED
    BY <2>1, <2>2, <2>3
<1>8. QED
  BY <1>2, <1>3, <1>4, <1>6, <1>7 DEF StackInv

LEMMA CallType ==
    ASSUME TypeOK, StackInv, NEW k \in Keys, Call(k)
    PROVE  TypeOK' /\ StackInv'
<1>1. frames \in Seq(Frame)
  BY DEF TypeOK
<1>2. QED
  BY <1>1, BeginType DEF Call

\* The frame on top of a running evaluation.
LEMMA TopFacts ==
    ASSUME TypeOK, StackInv, frames # <<>>
    PROVE  /\ Len(frames) \in Nat \ {0}
           /\ Len(frames) \in 1..Len(frames)
           /\ Top \in Frame
           /\ Top.key \in Keys
           /\ Top.read \in SUBSET Reads
           /\ computing # <<>>
           /\ computing[Len(computing)] = Top.key[1]
           /\ Result(Top) \in SUBSET Reads
<1>1. Len(frames) \in Nat \ {0} /\ Len(frames) \in 1..Len(frames)
  BY DEF TypeOK
<1>2. Top \in Frame
  BY <1>1 DEF Top, TypeOK
<1>3. Top.key \in Keys /\ Top.read \in SUBSET Reads
  BY <1>2 DEF Frame
<1>4. computing # <<>> /\ computing[Len(computing)] = Top.key[1]
  BY <1>1 DEF StackInv, TypeOK, Top
<1>5. Result(Top) \in SUBSET Reads
  BY <1>3, ManagerAssumption DEF Result, Reads
<1>6. QED
  BY <1>1, <1>2, <1>3, <1>4, <1>5

\* Every step of an evaluation keeps the stack a path down the declared dependencies.
LEMMA EvaluateType ==
    ASSUME TypeOK, StackInv, Evaluate
    PROVE  TypeOK' /\ StackInv'
<1> DEFINE m == Len(frames)
<1>1. CASE \E k \in Keys : Refused(k)
  BY <1>1 DEF Refused, TypeOK, StackInv
<1>2. ASSUME NEW k \in Keys, Served(k) PROVE TypeOK' /\ StackInv'
  <2>1. frames # <<>> /\ frames \in Seq(Frame) /\ cache[k] \in SUBSET Reads
    BY <1>2 DEF Served, Running, TypeOK
  <2>2. /\ frames' \in Seq(Frame)
        /\ Len(frames') = m
        /\ \A n \in 1..m : frames'[n].key = frames[n].key
    BY <1>2, <2>1, AskedFacts DEF Served
  <2>3. TypeOK'
    BY <1>2, <2>2 DEF Served, TypeOK
  <2>4. m \in Nat /\ \A n \in 1..m : n > 1 => n - 1 \in 1..m
    BY <2>1
  <2>5. QED
    BY <1>2, <2>2, <2>3, <2>4 DEF Served, StackInv
<1>3. ASSUME NEW k \in Keys, Computed(k) PROVE TypeOK' /\ StackInv'
  <2>1. frames # <<>> /\ frames \in Seq(Frame)
    BY <1>3 DEF Computed, Running, TypeOK
  <2>2. /\ Asked(frames, k, {}) \in Seq(Frame)
        /\ Len(Asked(frames, k, {})) = m
        /\ \A n \in 1..m : Asked(frames, k, {})[n].key = frames[n].key
    BY <2>1, AskedFacts
  <2>3. QED
    BY <1>3, <2>2, BeginType DEF Computed
<1>4. ASSUME frames # <<>>, computing' = Pop(computing), Len(frames') = m - 1, frames' \in Seq(Frame),
             \A n \in 1..(m - 1) : frames'[n].key = frames[n].key
      PROVE  computing' \in Seq(Analyses) /\ StackInv'
  <2>1. computing # <<>> /\ computing \in Seq(Analyses) /\ Len(computing) = m /\ m \in Nat
    BY <1>4, TopFacts DEF TypeOK, StackInv
  <2>2. /\ computing' \in Seq(Analyses)
        /\ Len(computing') = m - 1
        /\ \A n \in 1..(m - 1) : computing'[n] = computing[n]
    BY <1>4, <2>1, PopFacts
  <2>3. \A n \in 1..(m - 1) : n \in 1..m /\ (n > 1 => n - 1 \in 1..(m - 1))
    BY <2>1
  <2>4. QED
    BY <1>4, <2>2, <2>3 DEF StackInv
<1>5. CASE Return
  <2>1. frames # <<>> /\ frames \in Seq(Frame)
    BY <1>5 DEF Return, Running, TypeOK
  <2>2. /\ Pop(frames) \in Seq(Frame)
        /\ Len(Pop(frames)) = m - 1
        /\ \A n \in 1..(m - 1) : Pop(frames)[n] = frames[n]
    BY <2>1, PopFacts
  <2>3. Top.key \in Keys /\ Result(Top) \in SUBSET Reads
    BY <2>1, TopFacts
  <2>4. /\ frames' \in Seq(Frame)
        /\ Len(frames') = m - 1
        /\ \A n \in 1..(m - 1) : frames'[n].key = frames[n].key
    BY <1>5, <2>2, <2>3, HandedFacts DEF Return
  <2>5. cache' \in [DOMAIN cache' -> SUBSET Reads] /\ DOMAIN cache' \subseteq Keys
    BY <1>5, <2>3 DEF Return, TypeOK
  <2>6. computing' \in Seq(Analyses) /\ StackInv'
    BY <1>4, <1>5, <2>1, <2>4 DEF Return
  <2>7. QED
    BY <1>5, <2>4, <2>5, <2>6 DEF Return, TypeOK
<1>6. CASE Raise
  BY <1>6 DEF Raise, TypeOK, StackInv
<1>7. CASE Unwind
  <2>1. /\ frames' \in Seq(Frame)
        /\ Len(frames') = m - 1
        /\ \A n \in 1..(m - 1) : frames'[n] = frames[n]
    BY <1>7, PopFacts DEF Unwind, TypeOK
  <2>2. computing' \in Seq(Analyses) /\ StackInv'
    BY <1>4, <1>7, <2>1 DEF Unwind
  <2>3. QED
    BY <1>7, <2>1, <2>2 DEF Unwind, TypeOK
<1>8. QED
  BY <1>1, <1>2, <1>3, <1>5, <1>6, <1>7 DEF Evaluate

-----------------------------------------------------------------------------
(* What an evaluation reads.                                               *)

\* G pairs analyses with what their results may hold; all that is cached or read
\* so far is in it.
AllIn(G) ==
    /\ \A k \in DOMAIN cache : \A r \in cache[k] : <<k[1], r>> \in G
    /\ \A n \in 1..Len(frames) : \A r \in frames[n].read : <<frames[n].key[1], r>> \in G

\* Reading a result hands on what it holds, so a G that passes from an analysis to
\* those requiring it, and holds the defaults, stays a bound of everything read.
LEMMA EvaluateReads ==
    ASSUME TypeOK, StackInv, InputInv, Evaluate, NEW G, AllIn(G),
           \A a \in Analyses, r \in Reads : \A b \in Requires[a] : <<b, r>> \in G => <<a, r>> \in G,
           \A i \in Inputs : version[i] = 0 => <<i, <<i, 0>>>> \in G
    PROVE  AllIn(G)'
<1> DEFINE m == Len(frames)
<1>1. CASE \E k \in Keys : Refused(k)
  BY <1>1 DEF Refused, AllIn
<1>2. ASSUME NEW k \in Keys, Served(k) PROVE AllIn(G)'
  <2>1. frames # <<>> /\ frames \in Seq(Frame) /\ cache[k] \in SUBSET Reads /\ k \in DOMAIN cache
    BY <1>2 DEF Served, Running, TypeOK
  <2>2. /\ Len(frames') = m
        /\ \A n \in 1..m : frames'[n].key = frames[n].key
        /\ \A n \in 1..m : n # m => frames'[n].read = frames[n].read
        /\ \A n \in 1..m : frames'[n].read \subseteq frames[n].read \cup cache[k]
    BY <1>2, <2>1, AskedFacts DEF Served
  <2>3. k[1] \in Requires[frames[m].key[1]] /\ frames[m].key[1] \in Analyses
    BY <1>2, <2>1, TopFacts, KeyFacts DEF Served, Accepted, Top
  <2>4. \A r \in cache[k] : <<frames[m].key[1], r>> \in G
    BY <2>1, <2>3 DEF AllIn
  <2>5. ASSUME NEW n \in 1..m, NEW r \in frames'[n].read PROVE <<frames'[n].key[1], r>> \in G
    BY <2>2, <2>4 DEF AllIn
  <2>6. QED
    BY <1>2, <2>2, <2>5 DEF Served, AllIn
<1>3. ASSUME NEW k \in Keys, Computed(k) PROVE AllIn(G)'
  <2>1. frames # <<>> /\ frames \in Seq(Frame) /\ m \in Nat
    BY <1>3 DEF Computed, Running, TypeOK
  <2> DEFINE s == Asked(frames, k, {})
  <2>2. /\ s \in Seq(Frame)
        /\ Len(s) = m
        /\ \A n \in 1..m : s[n].key = frames[n].key
        /\ \A n \in 1..m : s[n].read \subseteq frames[n].read \cup {}
    BY <2>1, AskedFacts
  <2> HIDE DEF s
  <2>3. /\ Len(frames') = m + 1
        /\ \A n \in 1..m : frames'[n] = s[n]
        /\ frames'[m + 1].read = {}
    BY <1>3, <2>2, PushFacts DEF Computed, s
  <2>4. ASSUME NEW n \in 1..(m + 1), NEW r \in frames'[n].read PROVE <<frames'[n].key[1], r>> \in G
    <3>1. CASE n \in 1..m
      BY <2>2, <2>3, <3>1 DEF AllIn
    <3>2. CASE n = m + 1
      BY <2>3, <3>2
    <3>3. QED
      BY <2>1, <3>1, <3>2
  <2>5. QED
    BY <1>3, <2>3, <2>4 DEF Computed, AllIn
<1>4. CASE Return
  <2>1. frames # <<>> /\ frames \in Seq(Frame) /\ Top.key \in Keys /\ Result(Top) \in SUBSET Reads
        /\ m \in Nat \ {0} /\ Top = frames[m]
    BY <1>4, TopFacts DEF Return, Running, TypeOK, Top
  <2>2. \A r \in Result(Top) : <<Top.key[1], r>> \in G
    BY <2>1 DEF Result, AllIn, InputInv
  <2>3. /\ Pop(frames) \in Seq(Frame)
        /\ Len(Pop(frames)) = m - 1
        /\ \A n \in 1..(m - 1) : Pop(frames)[n] = frames[n]
    BY <2>1, PopFacts
  <2>4. /\ Len(frames') = m - 1
        /\ \A n \in 1..(m - 1) : frames'[n].key = Pop(frames)[n].key
        /\ \A n \in 1..(m - 1) : n # m - 1 => frames'[n].read = Pop(frames)[n].read
        /\ \A n \in 1..(m - 1) : frames'[n].read \subseteq Pop(frames)[n].read \cup Result(Top)
    <3> DEFINE s == Pop(frames)
    <3>1. frames' = Handed(s, Result(Top))
      BY <1>4 DEF Return
    <3>2. Len(s) = m - 1 /\ s \in Seq(Frame)
      BY <2>3
    <3> HIDE DEF s
    <3>3. QED
      BY <2>1, <3>1, <3>2, HandedFacts DEF s
  <2>5. ASSUME NEW n \in 1..(m - 1), NEW r \in frames'[n].read PROVE <<frames'[n].key[1], r>> \in G
    <3>0. n \in 1..m /\ frames'[n].key = frames[n].key
      BY <2>1, <2>3, <2>4
    <3>1. CASE r \in frames[n].read
      BY <3>0, <3>1 DEF AllIn
    <3>2. CASE n = m - 1 /\ r \in Result(Top)
      <4>1. Top.key[1] \in Requires[frames[n].key[1]]
        <5>1. m \in 1..m /\ m > 1 /\ n = m - 1
          BY <2>1, <3>2
        <5>2. QED
          BY <2>1, <5>1 DEF StackInv
      <4>2. frames[n].key[1] \in Analyses
        <5>1. frames[n] \in Frame
          BY <2>1, <3>0
        <5>2. frames[n].key \in Keys
          BY <5>1 DEF Frame
        <5>3. QED
          BY <5>2, KeyFacts
      <4>3. QED
        BY <2>1, <2>2, <3>0, <3>2, <4>1, <4>2
    <3>3. QED
      BY <2>3, <2>4, <3>1, <3>2
  <2>6. \A k \in DOMAIN cache' : \A r \in cache'[k] : <<k[1], r>> \in G
    BY <1>4, <2>2 DEF Return, AllIn
  <2>7. QED
    BY <2>4, <2>5, <2>6 DEF AllIn
<1>5. CASE Raise
  BY <1>5 DEF Raise, AllIn
<1>6. CASE Unwind
  <2>1. /\ Len(frames') = m - 1 /\ m \in Nat
        /\ \A n \in 1..(m - 1) : frames'[n] = frames[n]
    BY <1>6, PopFacts DEF Unwind, TypeOK
  <2>2. QED
    BY <1>6, <2>1 DEF Unwind, AllIn
<1>7. QED
  BY <1>1, <1>2, <1>3, <1>4, <1>5, <1>6 DEF Evaluate

\* A frame after a step was there before, with the same key, or starts with it.
LEMMA FrameOrigin ==
    ASSUME TypeOK, StackInv, Evaluate, NEW n \in 1..Len(frames')
    PROVE  \/ n \in 1..Len(frames) /\ frames'[n].key = frames[n].key
           \/ \E k \in Keys : Computed(k) /\ n = Len(frames) + 1 /\ frames'[n].key = k
<1> DEFINE m == Len(frames)
<1>1. CASE \E k \in Keys : Refused(k)
  BY <1>1 DEF Refused
<1>2. CASE \E k \in Keys : Served(k)
  <2>1. PICK k \in Keys : Served(k)
    BY <1>2
  <2>2. frames # <<>> /\ frames \in Seq(Frame) /\ cache[k] \in SUBSET Reads
    BY <2>1 DEF Served, Running, TypeOK
  <2>3. QED
    BY <2>1, <2>2, AskedFacts DEF Served
<1>3. CASE \E k \in Keys : Computed(k)
  <2>1. PICK k \in Keys : Computed(k)
    BY <1>3
  <2>2. frames # <<>> /\ frames \in Seq(Frame) /\ m \in Nat
    BY <2>1 DEF Computed, Running, TypeOK
  <2> DEFINE s == Asked(frames, k, {})
  <2>3. s \in Seq(Frame) /\ Len(s) = m /\ \A j \in 1..m : s[j].key = frames[j].key
    BY <2>2, AskedFacts
  <2> HIDE DEF s
  <2>4. Len(frames') = m + 1 /\ frames'[m + 1].key = k /\ \A j \in 1..m : frames'[j] = s[j]
    BY <2>1, <2>3, PushFacts DEF Computed, s
  <2>5. QED
    BY <2>1, <2>2, <2>3, <2>4
<1>4. CASE Return
  <2>1. frames # <<>> /\ frames \in Seq(Frame) /\ Result(Top) \in SUBSET Reads /\ m \in Nat
    BY <1>4, TopFacts DEF Return, Running, TypeOK
  <2> DEFINE s == Pop(frames)
  <2>2. s \in Seq(Frame) /\ Len(s) = m - 1 /\ \A j \in 1..(m - 1) : s[j] = frames[j]
    BY <2>1, PopFacts
  <2> HIDE DEF s
  <2>3. Len(frames') = m - 1 /\ \A j \in 1..(m - 1) : frames'[j].key = s[j].key
    BY <1>4, <2>1, <2>2, HandedFacts DEF Return, s
  <2>4. QED
    BY <2>1, <2>2, <2>3
<1>5. CASE Raise
  BY <1>5 DEF Raise
<1>6. CASE Unwind
  <2>1. Len(frames') = m - 1 /\ m \in Nat /\ \A j \in 1..(m - 1) : frames'[j] = frames[j]
    BY <1>6, PopFacts DEF Unwind, TypeOK
  <2>2. QED
    BY <2>1
<1>7. QED
  BY <1>1, <1>2, <1>3, <1>4, <1>5, <1>6 DEF Evaluate

\* A step of an evaluation provides nothing, and caches at most the result on top.
LEMMA EvaluateCache ==
    ASSUME TypeOK, StackInv, Evaluate
    PROVE  /\ version' = version
           /\ DOMAIN cache \subseteq DOMAIN cache'
           /\ \A k \in DOMAIN cache' : k \in DOMAIN cache \/ \E n \in 1..Len(frames) : k = frames[n].key
<1>1. CASE Return
  <2>1. Top = frames[Len(frames)] /\ Len(frames) \in 1..Len(frames)
    BY <1>1, TopFacts DEF Return, Running, Top
  <2>2. QED
    BY <1>1, <2>1 DEF Return
<1>2. CASE ~Return
  BY <1>2 DEF Evaluate, Refused, Served, Computed, Raise, Unwind
<1>3. QED
  BY <1>1, <1>2

\* No step of an evaluation starts on an input that was provided.
LEMMA EvaluateInputs ==
    ASSUME TypeOK, StackInv, InputInv, Evaluate
    PROVE  InputInv'
<1>1. ASSUME NEW n \in 1..Len(frames'), frames'[n].key[1] \in Inputs
      PROVE  version[frames'[n].key[1]] = 0
  <2>1. CASE n \in 1..Len(frames) /\ frames'[n].key = frames[n].key
    BY <1>1, <2>1 DEF InputInv
  <2>2. CASE \E k \in Keys : Computed(k) /\ n = Len(frames) + 1 /\ frames'[n].key = k
    BY <1>1, <2>2, KeyFacts DEF InputInv, Computed
  <2>3. QED
    BY <2>1, <2>2, FrameOrigin
<1>2. QED
  BY <1>1, EvaluateCache DEF InputInv

\* An evaluation asked for in a closed set stays within it.
LEMMA EvaluateWithin ==
    ASSUME TypeOK, StackInv, Evaluate, NEW D \in SUBSET Analyses, Closed(D), Within(D)
    PROVE  Within(D)'
<1>1. ASSUME NEW n \in 1..Len(frames') PROVE frames'[n].key[1] \in D
  <2>1. CASE n \in 1..Len(frames) /\ frames'[n].key = frames[n].key
    BY <2>1 DEF Within
  <2>2. CASE \E k \in Keys : Computed(k) /\ n = Len(frames) + 1 /\ frames'[n].key = k
    <3>1. PICK k \in Keys : Computed(k) /\ frames'[n].key = k
      BY <2>2
    <3>2. frames # <<>>
      BY <3>1 DEF Computed, Running
    <3>3. k[1] \in Requires[Top.key[1]]
      BY <3>1, <3>2, TopFacts DEF Computed, Accepted
    <3>4. Top.key[1] \in D
      BY <3>2, TopFacts DEF Top, Within
    <3>5. QED
      BY <3>1, <3>3, <3>4 DEF Closed
  <2>3. QED
    BY <2>1, <2>2, FrameOrigin
<1>2. \A k \in DOMAIN cache' : k[1] \in D
  BY EvaluateCache DEF Within
<1>3. QED
  BY <1>1, <1>2 DEF Within

\* What is computed during an evaluation is computed from current inputs.
LEMMA EvaluateFresh ==
    ASSUME TypeOK, StackInv, InputInv, Fresh, Evaluate
    PROVE  Fresh'
<1>1. PICK G : G = {p \in Analyses \X Reads : p[2][2] = version[p[2][1]]}
  OBVIOUS
<1>2. \A a \in Analyses, r \in Reads : <<a, r>> \in G <=> r[2] = version[r[1]]
  BY <1>1
<1>3. \A k \in DOMAIN cache : k[1] \in Analyses /\ cache[k] \in SUBSET Reads
  BY KeyFacts DEF TypeOK
<1>4. \A n \in 1..Len(frames) : frames[n].key[1] \in Analyses /\ frames[n].read \in SUBSET Reads
  BY FrameFacts
<1>5. AllIn(G)
  BY <1>2, <1>3, <1>4 DEF Fresh, Current, AllIn
<1>6. \A i \in Inputs : version[i] = 0 => <<i, <<i, 0>>>> \in G
  BY <1>1, ManagerAssumption DEF Reads
<1>7. \A a \in Analyses : Requires[a] \subseteq Analyses
  BY ManagerAssumption
<1>8. AllIn(G)'
  BY <1>2, <1>5, <1>6, <1>7, EvaluateReads
<1>9. \A p \in G : p[2][2] = version[p[2][1]]
  BY <1>1
<1>10. QED
  BY <1>8, <1>9, EvaluateCache DEF Fresh, Current, AllIn

\* A closed set of analyses stays apart from the inputs outside it.
LEMMA EvaluateIsolated ==
    ASSUME TypeOK, StackInv, InputInv, Evaluate,
           NEW D \in SUBSET Analyses, NEW I \in SUBSET Inputs, Closed(D), D \cap I = {}, Isolated(D, I)
    PROVE  Isolated(D, I)'
<1> DEFINE G == {p \in Analyses \X Reads : p[1] \in D => p[2][1] \notin I}
<1>1. \A a \in Analyses, r \in Reads : <<a, r>> \in G <=> (a \in D => r[1] \notin I)
  OBVIOUS
<1>2. \A k \in DOMAIN cache : k[1] \in Analyses /\ cache[k] \in SUBSET Reads
  BY KeyFacts DEF TypeOK
<1>3. \A n \in 1..Len(frames) : frames[n].key[1] \in Analyses /\ frames[n].read \in SUBSET Reads
  BY FrameFacts
<1>4. \A i \in Inputs : <<i, <<i, 0>>>> \in G
  BY ManagerAssumption DEF Reads
<1>5. \A a \in Analyses : Requires[a] \subseteq Analyses
  BY ManagerAssumption
<1>6. \A p \in G : p[1] \in D => p[2][1] \notin I
  OBVIOUS
<1> HIDE DEF G
<1>7. AllIn(G)
  BY <1>1, <1>2, <1>3 DEF Isolated, AllIn
<1>8. AllIn(G)'
  BY <1>1, <1>4, <1>5, <1>7, EvaluateReads DEF Closed
<1>9. QED
  BY <1>6, <1>8 DEF Isolated, AllIn

-----------------------------------------------------------------------------
(* The engine's own steps.                                                 *)

\* A request from the engine starts the only frame, which has read nothing.
LEMMA CallFacts ==
    ASSUME TypeOK, NEW k \in Keys, Call(k)
    PROVE  /\ Len(frames) = 0
           /\ Len(frames') = 1
           /\ frames'[1].key = k
           /\ frames'[1].read = {}
           /\ cache' = cache /\ version' = version
           /\ \A n \in 1..Len(frames') : n = 1
<1>1. frames = <<>> /\ frames \in Seq(Frame) /\ Len(frames) = 0
  BY DEF Call, Idle, TypeOK
<1>2. frames' = Began(k, frames) /\ cache' = cache /\ version' = version
  BY DEF Call
<1>3. Len(frames') = 0 + 1 /\ frames'[0 + 1].key = k /\ frames'[0 + 1].read = {}
  BY <1>1, <1>2, PushFacts
<1>4. Len(frames') = 1 /\ 0 + 1 = 1
  BY <1>3
<1>5. \A n \in 1..Len(frames') : n = 1
  BY <1>4
<1>6. QED
  BY <1>1, <1>2, <1>3, <1>4, <1>5

LEMMA CallKeeps ==
    ASSUME TypeOK, InputInv, Fresh, NEW k \in Keys, Call(k)
    PROVE  InputInv' /\ Fresh'
<1>1. k[1] \in Inputs => version[k[1]] = 0
  BY KeyFacts DEF InputInv, Call
<1>2. \A n \in 1..Len(frames') : n = 1
  BY CallFacts
<1>3. InputInv'
  BY <1>1, <1>2, CallFacts DEF InputInv
<1>4. Fresh'
  BY <1>2, CallFacts DEF Fresh, Current
<1>5. QED
  BY <1>3, <1>4

LEMMA CallIsolated ==
    ASSUME TypeOK, NEW k \in Keys, Call(k), NEW D, NEW I, Isolated(D, I)
    PROVE  Isolated(D, I)'
<1>1. \A n \in 1..Len(frames') : n = 1
  BY CallFacts
<1>2. QED
  BY <1>1, CallFacts DEF Isolated

LEMMA CallWithin ==
    ASSUME TypeOK, NEW k \in Keys, Call(k), NEW D, k[1] \in D, \A c \in DOMAIN cache : c[1] \in D
    PROVE  Within(D)'
<1>1. \A n \in 1..Len(frames') : n = 1
  BY CallFacts
<1>2. QED
  BY <1>1, CallFacts DEF Within

\* Supplying an input that nothing kept has read, over results that keep every
\* input, leaves everything current and isolated.
LEMMA SupplyKeeps ==
    ASSUME TypeOK, StackInv, InputInv, Fresh, Idle,
           NEW i \in Inputs, version[i] < MaxVersion,
           NEW kept \in SUBSET DOMAIN cache,
           \A j \in Inputs : j # i /\ InputKey(j) \in DOMAIN cache => InputKey(j) \in kept,
           \A k \in kept : k # InputKey(i) => \A r \in cache[k] : r[1] # i,
           version' = [version EXCEPT ![i] = @ + 1],
           cache' = Supplied([k \in kept |-> cache[k]], i, version[i] + 1),
           UNCHANGED <<registry, computing, frames, raising, aborted>>
    PROVE  /\ TypeOK' /\ StackInv' /\ InputInv' /\ Fresh'
           /\ \A D \in SUBSET Analyses, I \in SUBSET Inputs :
                 D \cap I = {} /\ Isolated(D, I) => Isolated(D, I)'
           /\ DOMAIN cache' = kept \cup {InputKey(i)}
           /\ cache'[InputKey(i)] = {<<i, version[i] + 1>>}
           /\ \A k \in kept : k # InputKey(i) => cache'[k] = cache[k]
           /\ frames = <<>>
<1> DEFINE v == version[i] + 1
<1>1. /\ DOMAIN cache' = kept \cup {InputKey(i)}
      /\ cache'[InputKey(i)] = {<<i, v>>}
      /\ \A k \in kept : k # InputKey(i) => cache'[k] = cache[k]
  <2> DEFINE results == [k \in kept |-> cache[k]]
  <2>1. DOMAIN results = kept /\ \A k \in kept : results[k] = cache[k]
    OBVIOUS
  <2>2. cache' = Supplied(results, i, v)
    OBVIOUS
  <2> HIDE DEF results, v
  <2>3. /\ DOMAIN cache' = DOMAIN results \cup {InputKey(i)}
        /\ cache'[InputKey(i)] = {<<i, v>>}
        /\ \A k \in DOMAIN results : k # InputKey(i) => cache'[k] = results[k]
    BY <2>2 DEF Supplied
  <2>4. QED
    BY <2>1, <2>3
<1>2. version \in [Inputs -> 0..MaxVersion] /\ MaxVersion \in Nat /\ v \in 1..MaxVersion
  BY ManagerAssumption DEF TypeOK
<1>3. version' \in [Inputs -> 0..MaxVersion] /\ version'[i] = v
      /\ \A j \in Inputs : j # i => version'[j] = version[j]
  BY <1>2
<1>4. frames = <<>> /\ frames' = <<>> /\ Len(frames') = 0
  BY DEF Idle
<1>5. <<i, v>> \in Reads
  BY <1>2 DEF Reads
<1>6. cache' \in [DOMAIN cache' -> SUBSET Reads] /\ DOMAIN cache' \subseteq Keys
  <2>1. \A k \in DOMAIN cache' : cache'[k] \in SUBSET Reads
    BY <1>1, <1>5 DEF TypeOK
  <2>2. cache' = [k \in DOMAIN cache' |-> cache'[k]]
    BY DEF Supplied
  <2>3. QED
    BY <1>1, <2>1, <2>2, KeyFacts DEF TypeOK
<1>7. TypeOK' /\ StackInv'
  BY <1>3, <1>6 DEF TypeOK, StackInv
<1>8. InputInv'
  <2>1. \A j \in Inputs : j # i => InputKey(j) # InputKey(i)
    OBVIOUS
  <2>2. QED
    BY <1>1, <1>3, <1>4, <2>1 DEF InputInv
<1>9. Fresh'
  <2>1. ASSUME NEW k \in DOMAIN cache', NEW r \in cache'[k] PROVE r[2] = version'[r[1]]
    <3>1. CASE k = InputKey(i)
      BY <1>1, <1>3, <3>1
    <3>2. CASE k # InputKey(i)
      <4>1. k \in kept /\ r \in cache[k] /\ r[1] # i /\ r[2] = version[r[1]]
        BY <1>1, <3>2 DEF Fresh, Current
      <4>2. r[1] \in Inputs
        BY <4>1 DEF TypeOK, Reads
      <4>3. QED
        BY <1>3, <4>1, <4>2
    <3>3. QED
      BY <3>1, <3>2
  <2>2. QED
    BY <1>4, <2>1 DEF Fresh, Current
<1>10. ASSUME NEW D \in SUBSET Analyses, NEW I \in SUBSET Inputs, D \cap I = {}, Isolated(D, I)
       PROVE  Isolated(D, I)'
  <2>1. ASSUME NEW k \in DOMAIN cache', k[1] \in D, NEW r \in cache'[k] PROVE r[1] \notin I
    <3>1. CASE k = InputKey(i)
      BY <1>1, <1>10, <2>1, <3>1
    <3>2. CASE k # InputKey(i)
      BY <1>1, <1>10, <2>1, <3>2 DEF Isolated
    <3>3. QED
      BY <3>1, <3>2
  <2>2. QED
    BY <1>4, <2>1 DEF Isolated
<1>11. QED
  BY <1>1, <1>4, <1>7, <1>8, <1>9, <1>10

\* Provide() is such a supply: it keeps everything.
LEMMA ProvideKeeps ==
    ASSUME TypeOK, StackInv, InputInv, Fresh, NEW i \in Inputs, Provide(i),
           \A k \in DOMAIN cache : k # InputKey(i) => \A r \in cache[k] : r[1] # i
    PROVE  /\ TypeOK' /\ StackInv' /\ InputInv' /\ Fresh'
           /\ \A D \in SUBSET Analyses, I \in SUBSET Inputs :
                 D \cap I = {} /\ Isolated(D, I) => Isolated(D, I)'
           /\ DOMAIN cache' = DOMAIN cache \cup {InputKey(i)}
           /\ cache'[InputKey(i)] = {<<i, version[i] + 1>>}
           /\ \A k \in DOMAIN cache : k # InputKey(i) => cache'[k] = cache[k]
           /\ frames = <<>> /\ frames' = <<>>
<1>1. cache = [k \in DOMAIN cache |-> cache[k]]
  BY DEF TypeOK
<1>2. cache' = Supplied([k \in DOMAIN cache |-> cache[k]], i, version[i] + 1)
  BY <1>1 DEF Provide
<1>3. frames' = frames
  BY DEF Provide
<1>4. QED
  BY <1>2, <1>3, SupplyKeeps DEF Provide

\* The two closed sets the engine's order of work relies on.
LEMMA IsolatedSets ==
    /\ TableAnalyses \in SUBSET Analyses /\ LateInputs \in SUBSET Inputs /\ TableAnalyses \cap LateInputs = {}
    /\ Preserves[Updated] \in SUBSET Analyses /\ {ProjectSummaries} \in SUBSET Inputs
    /\ Preserves[Updated] \cap {ProjectSummaries} = {}
    /\ Closed(TableAnalyses) /\ Closed(Preserves[Updated])
BY ManagerAssumption, EngineAssumption, TablesAssumption DEF LateInputs

LEMMA EvaluateKernel ==
    ASSUME Kernel, Evaluate
    PROVE  Kernel'
BY EvaluateType, EvaluateInputs, EvaluateFresh, EvaluateIsolated, IsolatedSets DEF Kernel, LateInputs

LEMMA CallKernel ==
    ASSUME Kernel, NEW k \in Keys, Call(k)
    PROVE  Kernel'
BY CallType, CallKeeps, CallIsolated DEF Kernel, LateInputs

LEMMA ProvideKernel ==
    ASSUME Kernel, NEW i \in Inputs, Provide(i),
           \A k \in DOMAIN cache : k # InputKey(i) => \A r \in cache[k] : r[1] # i
    PROVE  Kernel'
BY ProvideKeeps, IsolatedSets DEF Kernel, LateInputs

LEMMA InitIInv == EngineInit => IInv
<1> SUFFICES ASSUME EngineInit PROVE IInv
  OBVIOUS
<1>1. DOMAIN cache = {} /\ frames = <<>> /\ Len(frames) = 0
  BY DEF EngineInit
<1>2. TypeOK
  <2>1. cache = [k \in {} |-> {}] /\ frames \in Seq(Frame) /\ computing \in Seq(Analyses)
    BY DEF EngineInit
  <2>2. cache \in [DOMAIN cache -> SUBSET Reads] /\ DOMAIN cache \subseteq Keys
    BY <1>1, <2>1
  <2>3. version \in [Inputs -> 0..MaxVersion]
    BY ManagerAssumption DEF EngineInit
  <2>4. QED
    BY <2>1, <2>2, <2>3 DEF EngineInit, TypeOK
<1>3. StackInv /\ InputInv /\ Fresh
  BY <1>1 DEF EngineInit, StackInv, InputInv, Fresh
<1>4. \A D, I : Isolated(D, I)
  BY <1>1 DEF Isolated
<1>5. PhaseInv
  BY <1>1 DEF EngineInit, PhaseInv
<1>6. QED
  BY <1>2, <1>3, <1>4, <1>5 DEF EngineInit, IInv, EngineTypeOK, Kernel

\* The steps of an evaluation, whatever they do to the phase.
LEMMA ContinueIInv ==
    ASSUME IInv, Continue
    PROVE  IInv'
<1>1. Kernel'
  BY EvaluateKernel DEF IInv, Continue
<1>2. frames # <<>>
  BY DEF Continue, Evaluate, Refused, Served, Computed, Return, Raise, Unwind, Running
<1>3. pc \notin {"inputs", "project"}
  BY <1>2 DEF IInv, PhaseInv
<1>4. /\ pc' \in {pc, "excluded", "failed"}
      /\ pc \in {"inputs", "tables", "project", "start", "iterate", "check", "evicted", "excluded", "failed"}
  BY DEF Continue, IInv, EngineTypeOK
<1>5. pc' = "tables" => Within(TableAnalyses)'
  BY <1>4, IsolatedSets, EvaluateWithin DEF IInv, Kernel, PhaseInv, Continue
<1>6. pc' = "start" => Within(Preserves[Updated])'
  BY <1>4, IsolatedSets, EvaluateWithin DEF IInv, Kernel, PhaseInv, Continue
<1>7. EngineTypeOK'
  BY <1>1, <1>4 DEF EngineTypeOK, Kernel
<1>8. QED
  BY <1>1, <1>3, <1>4, <1>5, <1>6, <1>7 DEF IInv, PhaseInv

\* The configuration is provided when nothing has read its defaults.
LEMMA ProvideConfigurationIInv ==
    ASSUME IInv, NEW i \in Inputs, ProvideConfiguration(i)
    PROVE  IInv'
<1>1. /\ pc = "inputs" /\ pc' = "inputs" /\ version[i] = 0 /\ Provide(i) /\ i \in ConfigurationInputs
      /\ Kernel
  BY DEF ProvideConfiguration, IInv
<1>2. \A k \in DOMAIN cache : k[1] \in ConfigurationInputs /\ \A r \in cache[k] : r[2] = 1
  BY <1>1 DEF IInv, PhaseInv
<1>3. \A k \in DOMAIN cache : \A r \in cache[k] : r[1] # i
  <2>1. \A k \in DOMAIN cache : \A r \in cache[k] : r[2] = version[r[1]]
    BY <1>1 DEF Kernel, Fresh, Current
  <2>2. QED
    BY <1>1, <1>2, <2>1
<1>4. Kernel'
  BY <1>1, <1>3, ProvideKernel
<1>5. /\ DOMAIN cache' = DOMAIN cache \cup {InputKey(i)}
      /\ cache'[InputKey(i)] = {<<i, version[i] + 1>>}
      /\ \A k \in DOMAIN cache : k # InputKey(i) => cache'[k] = cache[k]
      /\ frames' = <<>>
  BY <1>1, <1>3, ProvideKeeps DEF Kernel
<1>6. \A k \in DOMAIN cache' : k[1] \in ConfigurationInputs /\ \A r \in cache'[k] : r[2] = 1
  BY <1>1, <1>2, <1>5
<1>7. QED
  BY <1>1, <1>4, <1>5, <1>6 DEF IInv, EngineTypeOK, Kernel, PhaseInv

\* A project input is provided when only the tables, which cannot read it, and
\* other project inputs are cached.
LEMMA ProvideProjectIInv ==
    ASSUME IInv, NEW i \in Inputs, ProvideProject(i)
    PROVE  IInv'
<1>1. /\ pc \in {"tables", "project"} /\ pc' = "project" /\ version[i] = 0 /\ Provide(i)
      /\ i \in ProjectInputs /\ Kernel
  BY DEF ProvideProject, IInv
<1>2. \A k \in DOMAIN cache :
         \/ k[1] \in TableAnalyses
         \/ k[1] \in ProjectInputs /\ cache[k] = {<<k[1], 1>>}
  BY <1>1 DEF IInv, PhaseInv, Within
<1>3. ASSUME NEW k \in DOMAIN cache, k # InputKey(i), NEW r \in cache[k] PROVE r[1] # i
  <2>1. CASE k[1] \in TableAnalyses
    BY <1>1, <2>1 DEF Kernel, Isolated, LateInputs
  <2>2. CASE k[1] \in ProjectInputs /\ cache[k] = {<<k[1], 1>>}
    <3>1. k \in Keys /\ k[1] \in Inputs
      BY <1>1, <2>2, EngineAssumption DEF Kernel, TypeOK
    <3>2. k = InputKey(k[1])
      BY <3>1, KeyFacts
    <3>3. QED
      BY <1>3, <2>2, <3>2
  <2>3. QED
    BY <1>2, <2>1, <2>2
<1>4. Kernel'
  BY <1>1, <1>3, ProvideKernel
<1>5. /\ DOMAIN cache' = DOMAIN cache \cup {InputKey(i)}
      /\ cache'[InputKey(i)] = {<<i, version[i] + 1>>}
      /\ \A k \in DOMAIN cache : k # InputKey(i) => cache'[k] = cache[k]
      /\ frames' = <<>>
  BY <1>1, <1>3, ProvideKeeps DEF Kernel
<1>6. \A k \in DOMAIN cache' :
         \/ k[1] \in TableAnalyses
         \/ k[1] \in ProjectInputs /\ cache'[k] = {<<k[1], 1>>}
  BY <1>1, <1>2, <1>5
<1>7. QED
  BY <1>1, <1>4, <1>5, <1>6 DEF IInv, EngineTypeOK, Kernel, PhaseInv

\* The requests the engine makes, each of a result its phase allows.
LEMMA AskIInv ==
    ASSUME IInv, NEW k \in Keys, Call(k),
           pc' \in {"tables", "start", "iterate", "check", "evicted"},
           pc' = "tables" => pc \in {"inputs", "tables"} /\ k[1] \in TableAnalyses,
           pc' = "start" => pc = "project" /\ k[1] \in Preserves[Updated]
    PROVE  IInv'
<1>1. Kernel'
  BY CallKernel DEF IInv
<1>2. pc' = "tables" => Within(TableAnalyses)'
  <2>1. pc' = "tables" => \A c \in DOMAIN cache : c[1] \in TableAnalyses
    BY TablesAssumption DEF IInv, PhaseInv, Within
  <2>2. QED
    BY <2>1, CallWithin DEF IInv, Kernel
<1>3. pc' = "start" => Within(Preserves[Updated])'
  <2>1. pc' = "start" => \A c \in DOMAIN cache : c[1] \in Preserves[Updated]
    BY TablesAssumption DEF IInv, PhaseInv
  <2>2. QED
    BY <2>1, CallWithin DEF IInv, Kernel
<1>4. QED
  BY <1>1, <1>2, <1>3 DEF IInv, EngineTypeOK, Kernel, PhaseInv

\* The index is seeded when nothing cached can have read it.
LEMMA SeedIndexIInv ==
    ASSUME IInv, SeedIndex
    PROVE  IInv'
<1>1. pc = "start" /\ pc' = "iterate" /\ Provide(ProjectSummaries) /\ Kernel
  BY DEF SeedIndex, IInv
<1>2. \A k \in DOMAIN cache : k[1] \in Preserves[Updated]
  BY <1>1 DEF IInv, PhaseInv, Within
<1>3. \A k \in DOMAIN cache : \A r \in cache[k] : r[1] # ProjectSummaries
  BY <1>1, <1>2 DEF Kernel, Isolated
<1>4. Kernel'
  BY <1>1, <1>3, IsolatedSets, ProvideKernel
<1>5. QED
  BY <1>1, <1>4 DEF IInv, EngineTypeOK, Kernel, PhaseInv

\* The index is updated after everything that may have read it is dropped.
LEMMA UpdateIndexIInv ==
    ASSUME IInv, UpdateIndex
    PROVE  IInv'
<1> DEFINE kept == {c \in DOMAIN cache : c[1] \in Preserves[Updated]}
<1>1. /\ pc = "iterate" /\ pc' = "iterate" /\ Idle /\ Kernel
      /\ version[ProjectSummaries] < MaxVersion
      /\ version' = [version EXCEPT ![ProjectSummaries] = @ + 1]
      /\ cache' = Supplied([k \in kept |-> cache[k]], ProjectSummaries, version[ProjectSummaries] + 1)
      /\ UNCHANGED <<registry, computing, frames, raising, aborted>>
  BY DEF UpdateIndex, Kept, IInv
<1>2. \A k \in kept : \A r \in cache[k] : r[1] # ProjectSummaries
  BY <1>1 DEF Kernel, Isolated
<1>3. \A j \in Inputs : j # ProjectSummaries => j \in Preserves[Updated]
  BY EngineAssumption, TablesAssumption
<1>4. \A j \in Inputs : j # ProjectSummaries /\ InputKey(j) \in DOMAIN cache => InputKey(j) \in kept
  BY <1>3
<1>5. kept \in SUBSET DOMAIN cache /\ ProjectSummaries \in Inputs
  BY EngineAssumption
<1> HIDE DEF kept
<1>6. /\ TypeOK' /\ StackInv' /\ InputInv' /\ Fresh'
      /\ \A D \in SUBSET Analyses, I \in SUBSET Inputs :
            D \cap I = {} /\ Isolated(D, I) => Isolated(D, I)'
  BY <1>1, <1>2, <1>4, <1>5, SupplyKeeps DEF Kernel
<1>7. Kernel'
  BY <1>1, <1>6, IsolatedSets DEF Kernel, LateInputs
<1>8. QED
  BY <1>1, <1>7 DEF IInv, EngineTypeOK, Kernel, PhaseInv

\* Evicting results keeps every input.
LEMMA EvictIInv ==
    ASSUME IInv, Evict
    PROVE  IInv'
<1>1. /\ pc' = "evicted" /\ frames' = frames /\ computing' = computing /\ version' = version /\ Kernel
      /\ UNCHANGED <<registry, raising, aborted>>
      /\ DOMAIN cache' = {c \in DOMAIN cache : c[1] \in Preserves[Evicted]}
      /\ \A k \in DOMAIN cache' : cache'[k] = cache[k]
      /\ cache' = [k \in DOMAIN cache' |-> cache'[k]]
  BY DEF Evict, Run, Kept, IInv
<1>2. \A i \in Inputs : InputKey(i) \in DOMAIN cache => InputKey(i) \in DOMAIN cache'
  BY <1>1, TablesAssumption
<1>3. \A k \in DOMAIN cache' : cache'[k] \in SUBSET Reads
  BY <1>1 DEF Kernel, TypeOK
<1>4. TypeOK' /\ StackInv'
  BY <1>1, <1>3 DEF Kernel, TypeOK, StackInv
<1>5. InputInv' /\ Fresh'
  BY <1>1, <1>2 DEF Kernel, InputInv, Fresh, Current
<1>6. \A D, I : Isolated(D, I) => Isolated(D, I)'
  BY <1>1 DEF Isolated
<1>7. QED
  BY <1>1, <1>4, <1>5, <1>6 DEF IInv, EngineTypeOK, Kernel, PhaseInv

\* Steps that leave the manager alone and enter no phase with an obligation.
LEMMA IdleIInv ==
    ASSUME IInv, UNCHANGED vars, pc' \in {pc, "check", "failed"}
    PROVE  IInv'
<1>1. UNCHANGED <<cache, frames, computing, version, registry, raising, aborted>>
  BY DEF vars
<1>2. TypeOK' /\ StackInv' /\ InputInv' /\ Fresh'
  BY <1>1 DEF IInv, Kernel, TypeOK, StackInv, InputInv, Fresh, Current
<1>3. \A D, I : Isolated(D, I)' = Isolated(D, I)
  BY <1>1 DEF Isolated
<1>4. \A D : Within(D)' = Within(D)
  BY <1>1 DEF Within
<1>5. PhaseInv'
  BY <1>1, <1>4 DEF IInv, PhaseInv
<1>6. QED
  BY <1>2, <1>3, <1>5 DEF IInv, Kernel, EngineTypeOK

LEMMA NextIInv == IInv /\ [EngineNext]_engineVars => IInv'
<1> SUFFICES ASSUME IInv, [EngineNext]_engineVars PROVE IInv'
  OBVIOUS
<1>1. ASSUME NEW i \in Inputs, ProvideConfiguration(i) PROVE IInv'
  BY <1>1, ProvideConfigurationIInv
<1>2. ASSUME NEW i \in Inputs, ProvideProject(i) PROVE IInv'
  BY <1>2, ProvideProjectIInv
<1>3. ASSUME NEW k \in Keys, AskForTables(k) \/ AskForMoreTables(k) PROVE IInv'
  BY <1>3, AskIInv DEF AskForTables, AskForMoreTables
<1>4. ASSUME NEW k \in Keys, AskWhileChecking(k) \/ AskAfterwards(k) PROVE IInv'
  BY <1>4, AskIInv DEF AskWhileChecking, AskAfterwards
<1>5. CASE AskForCallGraph
  <2>1. <<CallGraph, NoFunction>> \in Keys
    BY EngineAssumption DEF Keys
  <2>2. QED
    BY <1>5, <2>1, AskIInv, TablesAssumption DEF AskForCallGraph
<1>6. CASE SeedIndex
  BY <1>6, SeedIndexIInv
<1>7. CASE AskForSummaries
  <2>1. <<Summary, NoFunction>> \in Keys
    BY EngineAssumption DEF Keys
  <2>2. QED
    BY <1>7, <2>1, AskIInv DEF AskForSummaries
<1>8. CASE UpdateIndex
  BY <1>8, UpdateIndexIInv
<1>9. CASE Settle \/ Fail
  BY <1>9, IdleIInv DEF Settle, Fail
<1>10. CASE Evict
  BY <1>10, EvictIInv
<1>11. CASE Continue
  BY <1>11, ContinueIInv
<1>12. CASE UNCHANGED engineVars
  BY <1>12, IdleIInv DEF engineVars, vars
<1>13. QED
  BY <1>1, <1>2, <1>3, <1>4, <1>5, <1>6, <1>7, <1>8, <1>9, <1>10, <1>11, <1>12 DEF EngineNext

-----------------------------------------------------------------------------
(* Theorems.                                                               *)

\* The invariant holds in every state of the engine's use of a manager.
THEOREM EngineInvariant == EngineSpec => []IInv
BY InitIInv, NextIInv, PTL DEF EngineSpec

\* The manager's state is well formed and the phase is one of the engine's.
THEOREM EngineTypeCorrect == EngineSpec => []EngineTypeOK
<1>1. IInv => EngineTypeOK
  BY DEF IInv
<1>2. QED
  BY <1>1, EngineInvariant, PTL

\* No cached result, and no computation in progress, has read an input that the
\* engine has provided anew since.
THEOREM EngineFresh == EngineSpec => []Fresh
<1>1. IInv => Fresh
  BY DEF IInv, Kernel
<1>2. QED
  BY <1>1, EngineInvariant, PTL

\* The list that get() checks dependencies against is the stack of computations.
THEOREM EngineStack == EngineSpec => []ComputingIsTheStack
<1>1. IInv => ComputingIsTheStack
  BY DEF IInv, Kernel, StackInv, ComputingIsTheStack
<1>2. QED
  BY <1>1, EngineInvariant, PTL

\* What is asked for after the summaries settled: while the module is checked they are
\* cached, so that no request computes them; when they are dropped, the requests are within
\* what cannot read the index.
Summaries == <<Summary, NoFunction>>
SettledInv ==
    /\ pc = "check" => Summaries \in DOMAIN cache /\ \A n \in 1..Len(frames) : frames[n].key # Summaries
    /\ pc = "evicted" => \A n \in 1..Len(frames) : frames[n].key[1] \in Preserves[Updated]

\* The summaries read the index, so that they do not survive an update of it.
LEMMA SummaryIsDropped == Summary \notin Preserves[Updated]
BY TablesAssumption, EngineAssumption DEF Closed

\* A step of an evaluation starts on no result that is cached, and on what the frame below
\* requires.
LEMMA EvaluateSettled ==
    ASSUME TypeOK, StackInv, SettledInv, Continue
    PROVE  SettledInv'
<1>1. Evaluate /\ (pc' = "check" => pc = "check") /\ (pc' = "evicted" => pc = "evicted")
  BY DEF Continue
<1>2. DOMAIN cache \subseteq DOMAIN cache'
  BY <1>1, EvaluateCache
<1>3. ASSUME pc = "check", NEW n \in 1..Len(frames') PROVE frames'[n].key # Summaries
  <2>1. CASE n \in 1..Len(frames) /\ frames'[n].key = frames[n].key
    BY <1>3, <2>1 DEF SettledInv
  <2>2. CASE \E k \in Keys : Computed(k) /\ n = Len(frames) + 1 /\ frames'[n].key = k
    BY <1>3, <2>2 DEF SettledInv, Computed
  <2>3. QED
    BY <1>1, <2>1, <2>2, FrameOrigin
<1>4. ASSUME pc = "evicted", NEW n \in 1..Len(frames') PROVE frames'[n].key[1] \in Preserves[Updated]
  <2>1. CASE n \in 1..Len(frames) /\ frames'[n].key = frames[n].key
    BY <1>4, <2>1 DEF SettledInv
  <2>2. CASE \E k \in Keys : Computed(k) /\ n = Len(frames) + 1 /\ frames'[n].key = k
    <3>1. PICK k \in Keys : Computed(k) /\ frames'[n].key = k
      BY <2>2
    <3>2. frames # <<>>
      BY <3>1 DEF Computed, Running
    <3>3. k[1] \in Requires[Top.key[1]]
      BY <3>1, <3>2, TopFacts DEF Computed, Accepted
    <3>4. Top.key[1] \in Preserves[Updated]
      BY <1>4, <3>2, TopFacts DEF Top, SettledInv
    <3>5. QED
      BY <3>1, <3>3, <3>4, TablesAssumption DEF Closed
  <2>3. QED
    BY <1>1, <2>1, <2>2, FrameOrigin
<1>5. QED
  BY <1>1, <1>2, <1>3, <1>4 DEF SettledInv

\* A request begins the only frame, and for nothing that is cached.
LEMMA CallSettled ==
    ASSUME TypeOK, SettledInv, NEW k \in Keys, Call(k), UNCHANGED pc,
           pc = "evicted" => k[1] \in Preserves[Updated]
    PROVE  SettledInv'
<1>1. /\ \A n \in 1..Len(frames') : n = 1
      /\ frames'[1].key = k /\ cache' = cache
  BY CallFacts
<1>2. pc = "check" => k # Summaries
  BY DEF SettledInv, Call
<1>3. QED
  BY <1>1, <1>2 DEF SettledInv

\* While a module is checked its plugins find the summaries its fixpoint ended with, which
\* read the index as it is; and nothing computes them again, while it is checked or after its
\* results are dropped, whatever is asked for, raised or caught.
THEOREM EngineSettled == EngineSpec => []SettledSummariesServe
<1>1. EngineInit => SettledInv
  BY DEF EngineInit, SettledInv
<1>2. ASSUME IInv, SettledInv, [EngineNext]_engineVars PROVE SettledInv'
  <2>1. TypeOK /\ StackInv
    BY <1>2 DEF IInv, Kernel
  <2>2. CASE Continue
    BY <1>2, <2>1, <2>2, EvaluateSettled
  <2>3. CASE Settle
    <3>1. frames = <<>> /\ Len(frames) = 0 /\ UNCHANGED <<frames, cache>> /\ Summaries \in DOMAIN cache /\ pc' = "check"
      BY <2>3 DEF Settle, vars, Idle, Summaries
    <3>2. QED
      BY <3>1 DEF SettledInv
  <2>4. ASSUME NEW k \in Keys, AskWhileChecking(k) PROVE SettledInv'
    BY <1>2, <2>1, <2>4, CallSettled DEF AskWhileChecking
  <2>5. ASSUME NEW k \in Keys, AskAfterwards(k) PROVE SettledInv'
    <3>1. k[1] \in Preserves[Updated]
      BY <2>5, TablesAssumption DEF AskAfterwards
    <3>2. QED
      BY <1>2, <2>1, <2>5, <3>1, CallSettled DEF AskAfterwards
  <2>6. CASE Evict
    <3>1. frames' = <<>> /\ Len(frames') = 0 /\ pc' = "evicted"
      BY <2>6 DEF Evict, Run, Idle
    <3>2. QED
      BY <3>1 DEF SettledInv
  <2>7. CASE UNCHANGED engineVars
    BY <1>2, <2>7 DEF engineVars, SettledInv
  <2>8. CASE pc' \notin {"check", "evicted"}
    BY <2>8 DEF SettledInv
  <2>9. QED
    BY <1>2, <2>2, <2>3, <2>4, <2>5, <2>6, <2>7, <2>8
       DEF EngineNext, ProvideConfiguration, ProvideProject, AskForTables, AskForMoreTables,
           AskForCallGraph, SeedIndex, AskForSummaries, UpdateIndex, Fail
<1>3. IInv /\ SettledInv => SettledSummariesServe
  <2> SUFFICES ASSUME IInv, SettledInv PROVE SettledSummariesServe OBVIOUS
  <2>1. pc = "check" => Current(cache[Summaries])
    BY DEF IInv, Kernel, Fresh, SettledInv
  <2>2. ASSUME pc = "evicted", NEW n \in 1..Len(frames) PROVE frames[n].key # Summaries
    BY <2>2, SummaryIsDropped DEF SettledInv, Summaries
  <2>3. QED
    BY <2>1, <2>2 DEF SettledInv, SettledSummariesServe, Summaries
<1>4. QED
  BY <1>1, <1>2, <1>3, EngineInvariant, PTL DEF EngineSpec

-----------------------------------------------------------------------------
(* The manager under any client, whatever it registers, asks for, provides *)
(* and runs, when the analyses can be ranked so that each requires only    *)
(* lower ones.  Along the stack the ranks descend, between any two frames  *)
(* and not only neighbours, so no key is there twice; and no key on the    *)
(* stack is cached, so a computation that returns overwrites nothing.      *)

Ranked(rank) ==
    /\ rank \in [Analyses -> Nat]
    /\ \A a \in Analyses : \A b \in Requires[a] : rank[b] < rank[a]

Descends(rank) ==
    \A n \in 1..Len(frames) : \A l \in 1..(n - 1) : rank[frames[n].key[1]] < rank[frames[l].key[1]]
Uncached == \A n \in 1..Len(frames) : frames[n].key \notin DOMAIN cache
ManagerInv(rank) == TypeOK /\ StackInv /\ Descends(rank) /\ Uncached

\* Frames with the keys of the lower part of the stack, and no result more.
LEMMA LowerKeeps ==
    ASSUME NEW rank, ManagerInv(rank), NEW m \in Nat, m <= Len(frames), Len(frames') = m,
           \A n \in 1..m : frames'[n].key = frames[n].key, DOMAIN cache' \subseteq DOMAIN cache
    PROVE  Descends(rank)' /\ Uncached'
<1>1. Len(frames) \in Nat
  BY DEF ManagerInv, TypeOK
<1>2. \A n \in 1..m : n \in 1..Len(frames) /\ \A l \in 1..(n - 1) : l \in 1..m /\ l \in 1..Len(frames)
  BY <1>1
<1>3. Descends(rank)'
  BY <1>2 DEF ManagerInv, Descends
<1>4. Uncached'
  BY <1>2 DEF ManagerInv, Uncached
<1>5. QED
  BY <1>3, <1>4

\* A request that is computed starts a frame below all others in rank.
LEMMA BeginKeeps ==
    ASSUME NEW rank, Ranked(rank), ManagerInv(rank), NEW k \in Keys, NEW s \in Seq(Frame),
           Len(s) = Len(frames), \A n \in 1..Len(s) : s[n].key = frames[n].key,
           Accepted(k), k \notin DOMAIN cache, frames' = Began(k, s), UNCHANGED cache
    PROVE  Descends(rank)' /\ Uncached'
<1> DEFINE m == Len(s)
<1>1. /\ m \in Nat
      /\ Len(frames') = m + 1
      /\ \A n \in 1..m : frames'[n].key = frames[n].key
      /\ frames'[m + 1].key = k
  <2>1. /\ Len(Began(k, s)) = m + 1
        /\ \A n \in 1..m : Began(k, s)[n] = s[n]
        /\ Began(k, s)[m + 1].key = k
    BY PushFacts
  <2>2. m \in Nat
    OBVIOUS
  <2>3. \A n \in 1..m : frames'[n].key = frames[n].key
    <3>1. ASSUME NEW n \in 1..m PROVE frames'[n].key = frames[n].key
      <4>1. frames'[n] = s[n]
        BY <2>1, <3>1
      <4>2. s[n].key = frames[n].key
        BY <3>1
      <4>3. QED
        BY <4>1, <4>2
    <3>2. QED
      BY <3>1
  <2>4. QED
    BY <2>1, <2>2, <2>3
<1>2. \A n \in 1..m : frames[n].key[1] \in Analyses
  BY FrameFacts DEF ManagerInv
<1>3. k[1] \in Analyses
  BY KeyFacts
<1>4. ASSUME NEW l \in 1..m PROVE rank[k[1]] < rank[frames[l].key[1]]
  <2>1. m \in 1..m /\ computing # <<>> /\ Len(computing) = m /\ computing[m] = frames[m].key[1]
    BY <1>1, <1>4 DEF ManagerInv, StackInv, TypeOK
  <2>2. k[1] \in Requires[frames[m].key[1]]
    BY <2>1 DEF Accepted
  <2>3. rank[k[1]] < rank[frames[m].key[1]]
    BY <1>2, <2>1, <2>2 DEF Ranked
  <2>4. l # m => rank[frames[m].key[1]] < rank[frames[l].key[1]]
    <3>1. l # m => l \in 1..(m - 1)
      BY <1>1, <1>4
    <3>2. QED
      BY <2>1, <3>1 DEF ManagerInv, Descends
  <2>5. rank[k[1]] \in Nat /\ rank[frames[m].key[1]] \in Nat /\ rank[frames[l].key[1]] \in Nat
    BY <1>2, <1>3, <1>4, <2>1 DEF Ranked
  <2>6. QED
    BY <2>3, <2>4, <2>5
<1>5. Descends(rank)'
  <2>1. ASSUME NEW n \in 1..(m + 1), NEW l \in 1..(n - 1)
        PROVE  rank[frames'[n].key[1]] < rank[frames'[l].key[1]]
    <3>1. l \in 1..m
      BY <1>1, <2>1
    <3>2. CASE n = m + 1
      BY <1>1, <1>4, <3>1, <3>2
    <3>3. CASE n \in 1..m
      <4>1. rank[frames[n].key[1]] < rank[frames[l].key[1]]
        BY <2>1, <3>3 DEF ManagerInv, Descends
      <4>2. frames'[n].key = frames[n].key /\ frames'[l].key = frames[l].key
        BY <1>1, <3>1, <3>3
      <4>3. QED
        BY <4>1, <4>2
    <3>4. n = m + 1 \/ n \in 1..m
      BY <1>1
    <3>5. QED
      BY <3>2, <3>3, <3>4
  <2>2. QED
    BY <1>1, <2>1 DEF Descends
<1>6. Uncached'
  <2>1. ASSUME NEW n \in 1..(m + 1) PROVE frames'[n].key \notin DOMAIN cache
    <3>1. CASE n = m + 1
      BY <1>1, <3>1
    <3>2. CASE n \in 1..m
      BY <1>1, <3>2 DEF ManagerInv, Uncached
    <3>3. QED
      BY <1>1, <3>1, <3>2
  <2>2. QED
    BY <1>1, <2>1 DEF Uncached
<1>7. QED
  BY <1>5, <1>6

\* What returns is cached under a key that no other frame has.
LEMMA ReturnKeeps ==
    ASSUME NEW rank, Ranked(rank), ManagerInv(rank), Return
    PROVE  /\ Descends(rank)' /\ Uncached'
           /\ Top.key \notin DOMAIN cache
<1> DEFINE m == Len(frames)
<1>1. frames # <<>> /\ frames \in Seq(Frame) /\ m \in Nat \ {0} /\ Top = frames[m] /\ Result(Top) \in SUBSET Reads
  BY TopFacts DEF ManagerInv, Return, Running, TypeOK, Top
<1>2. /\ Pop(frames) \in Seq(Frame)
      /\ Len(Pop(frames)) = m - 1
      /\ \A n \in 1..(m - 1) : Pop(frames)[n] = frames[n]
  BY <1>1, PopFacts
<1>3. /\ Len(frames') = m - 1
      /\ \A n \in 1..(m - 1) : frames'[n].key = frames[n].key
  <2> DEFINE s == Pop(frames)
  <2>1. frames' = Handed(s, Result(Top)) /\ Len(s) = m - 1 /\ s \in Seq(Frame)
    BY <1>2 DEF Return
  <2>2. \A n \in 1..(m - 1) : s[n] = frames[n]
    BY <1>2
  <2> HIDE DEF s
  <2>3. QED
    BY <1>1, <2>1, <2>2, HandedFacts
<1>4. ASSUME NEW n \in 1..(m - 1) PROVE frames[n].key # Top.key
  <2>1. m \in 1..m /\ n \in 1..m
    BY <1>1, <1>4
  <2>2. frames[n].key[1] \in Analyses
    BY <2>1, FrameFacts DEF ManagerInv
  <2>3. rank[Top.key[1]] < rank[frames[n].key[1]] /\ rank[frames[n].key[1]] \in Nat
    BY <1>1, <1>4, <2>1, <2>2 DEF ManagerInv, Descends, Ranked
  <2>4. QED
    BY <2>3
<1>5. Top.key \notin DOMAIN cache
  BY <1>1 DEF ManagerInv, Uncached
<1>6. Descends(rank)'
  <2>1. ASSUME NEW n \in 1..(m - 1), NEW l \in 1..(n - 1)
        PROVE  rank[frames'[n].key[1]] < rank[frames'[l].key[1]]
    <3>1. l \in 1..(m - 1) /\ n \in 1..m
      BY <1>1, <2>1
    <3>2. QED
      BY <1>3, <2>1, <3>1 DEF ManagerInv, Descends
  <2>2. QED
    BY <1>3, <2>1 DEF Descends
<1>7. Uncached'
  <2>1. DOMAIN cache' = DOMAIN cache \cup {Top.key}
    BY DEF Return
  <2>2. ASSUME NEW n \in 1..(m - 1) PROVE frames'[n].key \notin DOMAIN cache'
    <3>1. n \in 1..m
      BY <1>1, <2>2
    <3>2. QED
      BY <1>3, <1>4, <2>1, <3>1 DEF ManagerInv, Uncached
  <2>3. QED
    BY <1>3, <2>2 DEF Uncached
<1>8. QED
  BY <1>5, <1>6, <1>7

\* Every step of an evaluation, served, computed, returned, refused or failed, keeps it.
LEMMA EvaluateManager ==
    ASSUME NEW rank, Ranked(rank), ManagerInv(rank), Evaluate
    PROVE  ManagerInv(rank)'
<1> DEFINE m == Len(frames)
<1>1. TypeOK' /\ StackInv'
  BY EvaluateType DEF ManagerInv
<1>2. m \in Nat /\ frames \in Seq(Frame)
  BY DEF ManagerInv, TypeOK
<1>3. CASE Raise \/ \E k \in Keys : Refused(k)
  <2>1. UNCHANGED <<frames, cache>>
    BY <1>3 DEF Raise, Refused
  <2>2. QED
    BY <1>1, <2>1 DEF ManagerInv, Descends, Uncached
<1>4. ASSUME NEW k \in Keys, Served(k) PROVE ManagerInv(rank)'
  <2>1. frames # <<>> /\ cache[k] \in SUBSET Reads /\ UNCHANGED cache
    BY <1>4 DEF Served, Running, ManagerInv, TypeOK
  <2>2. Len(frames') = m /\ \A n \in 1..m : frames'[n].key = frames[n].key
    BY <1>2, <1>4, <2>1, AskedFacts DEF Served
  <2>3. QED
    BY <1>1, <1>2, <2>1, <2>2, LowerKeeps DEF ManagerInv
<1>5. ASSUME NEW k \in Keys, Computed(k) PROVE ManagerInv(rank)'
  <2>1. frames # <<>>
    BY <1>5 DEF Computed, Running
  <2>2. /\ Asked(frames, k, {}) \in Seq(Frame)
        /\ Len(Asked(frames, k, {})) = m
        /\ \A n \in 1..m : Asked(frames, k, {})[n].key = frames[n].key
    BY <1>2, <2>1, AskedFacts
  <2>3. Accepted(k) /\ k \notin DOMAIN cache /\ frames' = Began(k, Asked(frames, k, {})) /\ UNCHANGED cache
    BY <1>5 DEF Computed
  <2>4. Descends(rank)' /\ Uncached'
    <3> DEFINE s == Asked(frames, k, {})
    <3>1. s \in Seq(Frame) /\ Len(s) = m /\ \A n \in 1..m : s[n].key = frames[n].key
      BY <2>2
    <3>2. frames' = Began(k, s)
      BY <2>3
    <3> HIDE DEF s
    <3>3. QED
      BY <1>5, <2>3, <3>1, <3>2, BeginKeeps
  <2>5. QED
    BY <1>1, <2>4 DEF ManagerInv
<1>6. CASE Return
  BY <1>1, <1>6, ReturnKeeps DEF ManagerInv
<1>7. CASE Unwind
  <2>1. m # 0 /\ Len(frames') = m - 1 /\ (\A n \in 1..(m - 1) : frames'[n] = frames[n]) /\ UNCHANGED cache
    BY <1>2, <1>7, PopFacts DEF Unwind
  <2>2. Descends(rank)' /\ Uncached'
    <3> DEFINE l == m - 1
    <3>1. l \in Nat /\ l <= m /\ Len(frames') = l /\ \A n \in 1..l : frames'[n].key = frames[n].key
      BY <1>2, <2>1
    <3> HIDE DEF l
    <3>2. QED
      BY <2>1, <3>1, LowerKeeps
  <2>3. QED
    BY <1>1, <2>2 DEF ManagerInv
<1>8. QED
  BY <1>3, <1>4, <1>5, <1>6, <1>7 DEF Evaluate

\* What the client does between two evaluations.
LEMMA ClientManager ==
    ASSUME NEW rank, Ranked(rank), ManagerInv(rank),
           \/ \E a \in Analyses : Register(a)
           \/ \E k \in Keys : Call(k)
           \/ \E i \in Inputs : Provide(i)
           \/ \E p \in Passes : Run(p)
           \/ UNCHANGED vars
    PROVE  ManagerInv(rank)'
<1>1. ASSUME NEW k \in Keys, Call(k) PROVE ManagerInv(rank)'
  <2>1. frames \in Seq(Frame)
    BY DEF ManagerInv, TypeOK
  <2>2. QED
    BY <1>1, <2>1, CallType, BeginKeeps DEF Call, ManagerInv
<1>2. ASSUME NEW i \in Inputs, Provide(i) PROVE ManagerInv(rank)'
  <2>1. version[i] \in Nat /\ version[i] < MaxVersion /\ version[i] + 1 \in 0..MaxVersion
    BY <1>2, ManagerAssumption DEF Provide, ManagerInv, TypeOK
  <2>2. InputKey(i) \in Keys /\ <<i, version[i] + 1>> \in Reads
    BY <2>1, KeyFacts DEF Reads
  <2>3. cache' \in [DOMAIN cache' -> SUBSET Reads] /\ DOMAIN cache' \subseteq Keys
    BY <1>2, <2>2 DEF Provide, Supplied, ManagerInv, TypeOK
  <2>4. version' \in [Inputs -> 0..MaxVersion]
    BY <1>2, <2>1 DEF Provide, ManagerInv, TypeOK
  <2>5. frames = <<>> /\ UNCHANGED <<frames, computing, registry, raising, aborted>>
    BY <1>2 DEF Provide, Idle
  <2>6. QED
    BY <2>3, <2>4, <2>5 DEF ManagerInv, TypeOK, StackInv, Descends, Uncached
<1>3. ASSUME NEW p \in Passes, Run(p) PROVE ManagerInv(rank)'
  <2>1. cache' \in [DOMAIN cache' -> SUBSET Reads] /\ DOMAIN cache' \subseteq Keys
    BY <1>3 DEF Run, Kept, ManagerInv, TypeOK
  <2>2. frames = <<>> /\ UNCHANGED <<frames, computing, registry, raising, version, aborted>>
    BY <1>3 DEF Run, Idle
  <2>3. QED
    BY <2>1, <2>2 DEF ManagerInv, TypeOK, StackInv, Descends, Uncached
<1>4. ASSUME NEW a \in Analyses, Register(a) PROVE ManagerInv(rank)'
  BY <1>4 DEF Register, ManagerInv, TypeOK, StackInv, Descends, Uncached
<1>5. CASE UNCHANGED vars
  BY <1>5 DEF vars, ManagerInv, TypeOK, StackInv, Descends, Uncached
<1>6. QED
  BY <1>1, <1>2, <1>3, <1>4, <1>5

\* The invariant of the manager under any client.
THEOREM ManagerInvariant == ASSUME NEW rank, Ranked(rank) PROVE Spec => []ManagerInv(rank)
<1>1. Init => ManagerInv(rank)
  <2>1. SUFFICES ASSUME Init PROVE ManagerInv(rank)
    OBVIOUS
  <2>2. frames = <<>> /\ computing = <<>> /\ Len(frames) = 0 /\ Len(computing) = 0
    BY <2>1 DEF Init
  <2>3. StackInv /\ Descends(rank) /\ Uncached
    BY <2>2 DEF StackInv, Descends, Uncached
  <2>4. DOMAIN cache = {} /\ cache \in [DOMAIN cache -> SUBSET Reads]
    BY <2>1 DEF Init
  <2>5. version \in [Inputs -> 0..MaxVersion]
    BY <2>1, ManagerAssumption DEF Init
  <2>6. TypeOK
    <3>1. frames \in Seq(Frame) /\ computing \in Seq(Analyses) /\ DOMAIN cache \subseteq Keys
      BY <2>2, <2>4
    <3>2. registry = {} /\ raising = FALSE /\ aborted = FALSE
      BY <2>1 DEF Init
    <3>3. QED
      BY <2>4, <2>5, <3>1, <3>2 DEF TypeOK
  <2>7. QED
    BY <2>3, <2>6 DEF ManagerInv
<1>2. ManagerInv(rank) /\ [Next]_vars => ManagerInv(rank)'
  <2>1. ManagerInv(rank) /\ Evaluate => ManagerInv(rank)'
    BY EvaluateManager
  <2>2. ManagerInv(rank) /\ UNCHANGED vars => ManagerInv(rank)'
    BY ClientManager
  <2>3. ManagerInv(rank) /\ Next => ManagerInv(rank)'
    BY <2>1, ClientManager DEF Next
  <2>4. QED
    BY <2>2, <2>3
<1>3. QED
  BY <1>1, <1>2, PTL DEF Spec

\* Nothing is computed while it is being computed, for any dependencies without cycles.
THEOREM ManagerNeverReenters == ASSUME NEW rank, Ranked(rank) PROVE Spec => []NoReentry
<1>1. ManagerInv(rank) => NoReentry
  <2>1. ASSUME ManagerInv(rank), NEW m \in 1..Len(frames), NEW n \in 1..Len(frames),
               m < n, frames[m].key = frames[n].key
        PROVE  FALSE
    <3>1. m \in 1..(n - 1) /\ frames[m].key[1] \in Analyses
      BY <2>1, FrameFacts DEF ManagerInv
    <3>2. rank[frames[n].key[1]] < rank[frames[m].key[1]] /\ rank[frames[m].key[1]] \in Nat
      BY <2>1, <3>1 DEF ManagerInv, Descends, Ranked
    <3>3. QED
      BY <2>1, <3>2
  <2>2. \A m, n \in 1..Len(frames) : m < n \/ n < m \/ m = n
    OBVIOUS
  <2>3. SUFFICES ASSUME ManagerInv(rank), NEW m \in 1..Len(frames), NEW n \in 1..Len(frames),
                        frames[m].key = frames[n].key
                 PROVE  m = n
    BY DEF NoReentry
  <2>4. QED
    BY <2>1, <2>2, <2>3
<1>2. QED
  BY <1>1, ManagerInvariant, PTL

\* A result once cached is the one every reader is given, until a pass drops it or the
\* client provides the input anew.
THEOREM ManagerShares == ASSUME NEW rank, Ranked(rank) PROVE Spec => ResultsAreShared
<1> DEFINE Shared == \A k \in DOMAIN cache \cap DOMAIN cache' :
                        cache'[k] = cache[k] \/ \E i \in Inputs : k = InputKey(i) /\ version'[i] # version[i]
<1>1. ASSUME ManagerInv(rank), [Next]_vars PROVE Shared
  <2>1. CASE Return
    BY <1>1, <2>1, ReturnKeeps DEF Return
  <2>2. ASSUME NEW i \in Inputs, Provide(i) PROVE Shared
    <3>1. version[i] \in Nat /\ version \in [Inputs -> 0..MaxVersion]
      BY <1>1, ManagerAssumption DEF ManagerInv, TypeOK
    <3>2. version'[i] # version[i]
      BY <2>2, <3>1 DEF Provide
    <3>3. QED
      BY <2>2, <3>2 DEF Provide, Supplied
  <2>3. ASSUME NEW p \in Passes, Run(p) PROVE Shared
    BY <2>3 DEF Run, Kept
  <2>4. CASE UNCHANGED cache
    BY <2>4
  <2>5. QED
    BY <1>1, <2>1, <2>2, <2>3, <2>4
       DEF Next, Evaluate, vars, Register, Call, Refused, Served, Computed, Raise, Unwind
<1>2. QED
  BY <1>1, ManagerInvariant, PTL DEF Spec, ResultsAreShared
=============================================================================
