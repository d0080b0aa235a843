---------------------------- MODULE ScheduleProofs -----------------------------
(***************************************************************************)
(* Proofs about the schedule of a project, for any modules and imports:    *)
(* the components the search finds are the modules that import one         *)
(* another, and a wave imports nothing but earlier waves and itself.       *)
(* Then about the summaries its components iterate: what they settle on is *)
(* the least solution over the whole project.                              *)
(***************************************************************************)
EXTENDS ScheduledSummaries, Closures

Visited == DOMAIN visited
Stacked == Range(stack)
Component(n) == components[n]
Caller(i) == calls[i].module
InProgress(x) == \E i \in 1..Len(calls) : Caller(i) = x
Reached(m) == Schedule!Reached(m)

-----------------------------------------------------------------------------
(* The inductive invariant of the search.                                  *)

Typed ==
    /\ imports \in [Modules -> SUBSET Modules]
    /\ Visited \subseteq Modules
    /\ visited \in [Visited -> Nat] /\ low \in [Visited -> Nat]
    /\ stack \in Seq(Modules)
    /\ calls \in Seq([module : Modules, left : SUBSET Modules])
    /\ components \in Seq(SUBSET Modules)

\* Modules are numbered as they are visited, and the stack and the calls are in that order.
Numbered ==
    /\ \A x \in Visited : visited[x] < Cardinality(Visited)
    /\ \A x, y \in Visited : visited[x] = visited[y] => x = y
    /\ \A i, j \in 1..Len(stack) : i < j => visited[stack[i]] < visited[stack[j]]
    /\ \A i, j \in 1..Len(calls) : i < j => visited[Caller(i)] < visited[Caller(j)]

\* A module that has been visited is on the stack or in one component.
Held ==
    /\ Visited = Stacked \cup UNION Range(components)
    /\ \A n \in 1..Len(components) : components[n] \cap Stacked = {}
    /\ \A k, n \in 1..Len(components) : components[k] \cap components[n] # {} => k = n

\* The visits in progress are of modules on the stack, which lead to those above them.
Above ==
    /\ \A i \in 1..Len(calls) : Caller(i) \in Stacked /\ calls[i].left \subseteq imports[Caller(i)]
    /\ \A c, x \in Stacked : InProgress(c) /\ visited[c] <= visited[x] => x \in Reached(c)

Left(x, y) == \E i \in 1..Len(calls) : Caller(i) = x /\ y \in calls[i].left

\* What a visited module imports is visited, or will be looked at.
Followed == \A x \in Visited : \A y \in imports[x] : y \in Visited \/ Left(x, y)

\* A low link is the number of a module on the stack that is reached.  Only a visit in
\* progress may have found nothing lower than itself.
Linked ==
    \A x \in Stacked :
        /\ \E y \in Stacked : visited[y] = low[x] /\ y \in Reached(x)
        /\ low[x] <= visited[x]
        /\ ~InProgress(x) => low[x] < visited[x]

\* The modules above a visit and below the next are its own, and it has seen all they
\* import.
Owned(i, x) == visited[Caller(i)] <= visited[x] /\ (i < Len(calls) => visited[x] < visited[Caller(i + 1)])
Bounded ==
    \A i \in 1..Len(calls) : \A x \in Stacked : \A y \in imports[x] \cap Stacked :
        Owned(i, x) /\ ~Left(x, y) => low[Caller(i)] <= visited[y]

\* The modules of a component lead to one another, and to nothing but components found
\* before.
Closed ==
    \A n \in 1..Len(components) :
        /\ \A x, y \in components[n] : y \in Reached(x)
        /\ \A x \in components[n] : imports[x] \subseteq UNION {components[k] : k \in 1..n}

SearchInv == Typed /\ Numbered /\ Held /\ Above /\ Followed /\ Linked /\ Bounded /\ Closed

-----------------------------------------------------------------------------
(* What a module leads to.                                                 *)

Graph == imports \in [Modules -> SUBSET Modules]

\* Reached(m) is the least set that holds m and what its members import.
LEMMA ReachedFacts ==
    ASSUME Graph, NEW m \in Modules
    PROVE  /\ m \in Reached(m)
           /\ Reached(m) \subseteq Modules
           /\ \A x \in Reached(m) : imports[x] \subseteq Reached(m)
           /\ \A C : m \in C /\ (\A x \in C \cap Modules : imports[x] \subseteq C) => Reached(m) \subseteq C
<1> DEFINE N == Cardinality(Modules)
           reached == CHOOSE g : Stepping(g, N, imports, {m})
<1>1. IsFiniteSet(Modules) /\ N \in Nat /\ N <= N
  BY FixpointAssumption, FS_CardinalityType
<1>0. imports \in [Modules -> SUBSET Modules] /\ {m} \in SUBSET Modules
  BY DEF Graph
<1>2. Reached(m) = reached[N]
  BY DEF Reached, Schedule!Reached, Stepping, Schedule!Cardinality, Cardinality
<1>3. Iteration(reached, N, Modules, imports, {m})
  <2> HIDE DEF N
  <2>1. QED
    BY <1>1, SteppingIterates DEF Graph
<1> HIDE DEF reached
<1>4. m \in reached[N]
  <2> HIDE DEF N
  <2>1. \A n \in 0..N : {m} \subseteq reached[n]
    BY <1>0, <1>1, <1>3, IterationGrows
  <2>2. QED
    BY <1>1, <2>1
<1>5. reached[N] \subseteq Modules
  BY <1>1, <1>3 DEF Iteration
<1>6. ClosedUnder(reached[N], imports)
  BY <1>0, <1>1, <1>3, IterationCloses
<1>7. ASSUME NEW C, m \in C, \A x \in C \cap Modules : imports[x] \subseteq C PROVE reached[N] \subseteq C
  <2> DEFINE S == {m}
  <2>1. ClosedUnder(C \cap Modules, imports)
    BY <1>0, <1>7 DEF ClosedUnder
  <2>2. S \in SUBSET Modules /\ S \subseteq C /\ Iteration(reached, N, Modules, imports, S)
    BY <1>0, <1>3, <1>7
  <2> HIDE DEF N, S
  <2>3. \A n \in 0..N : reached[n] \subseteq C
    BY <1>0, <1>1, <2>1, <2>2, IterationIsLeast
  <2>4. QED
    BY <1>1, <2>3
<1>8. QED
  BY <1>2, <1>4, <1>5, <1>6, <1>7 DEF ClosedUnder

\* It is transitive.
LEMMA ReachedOn ==
    ASSUME Graph, NEW x \in Modules, NEW y \in Reached(x)
    PROVE  y \in Modules /\ Reached(y) \subseteq Reached(x)
<1>1. y \in Modules
  BY ReachedFacts
<1>2. y \in Reached(x) /\ \A z \in Reached(x) \cap Modules : imports[z] \subseteq Reached(x)
  BY ReachedFacts
<1> HIDE DEF Reached
<1>3. QED
  BY <1>1, <1>2, ReachedFacts

-----------------------------------------------------------------------------
(* The steps of the search, in terms of its state.                         *)

LEMMA ReachedStays ==
    ASSUME imports' = imports, NEW m PROVE Reached(m)' = Reached(m)
BY DEF Reached, Schedule!Reached

\* What is above another on the stack has a higher number, and so on the list of calls.
LEMMA Positions ==
    ASSUME SearchInv
    PROVE  /\ Stacked = {stack[i] : i \in 1..Len(stack)} /\ Stacked \subseteq Visited
           /\ \A i \in 1..Len(calls) : Caller(i) \in Stacked /\ Caller(i) \in Modules
           /\ \A x \in Stacked : visited[x] \in Nat /\ low[x] \in Nat /\ x \in Modules
           /\ UNION Range(components) = UNION {components[n] : n \in 1..Len(components)}
<1> USE DEF SearchInv
<1>1. stack \in Seq(Modules) /\ DOMAIN stack = 1..Len(stack) /\ components \in Seq(SUBSET Modules) /\ DOMAIN components = 1..Len(components)
  BY DEF Typed
<1>2. Stacked = {stack[i] : i \in 1..Len(stack)}
  BY <1>1 DEF Stacked, Range
<1>3. Stacked \subseteq Visited
  BY DEF Held
<1>4. \A i \in 1..Len(calls) : Caller(i) \in Stacked /\ Caller(i) \in Modules
  BY <1>3 DEF Above, Typed
<1>5. \A x \in Stacked : visited[x] \in Nat /\ low[x] \in Nat /\ x \in Modules
  BY <1>3 DEF Typed
<1>6. UNION Range(components) = UNION {components[n] : n \in 1..Len(components)}
  BY <1>1 DEF Range
<1>7. QED
  BY <1>2, <1>3, <1>4, <1>5, <1>6

\* A visit begins, called by the visit on top if there is one.
Begins(m, below) ==
    /\ m \in Modules \ Visited
    /\ below \in Seq([module : Modules, left : SUBSET Modules])
    /\ Len(below) = Len(calls)
    /\ \A i \in 1..Len(calls) :
          /\ below[i].module = calls[i].module
          /\ below[i].left = IF i = Len(calls) THEN calls[i].left \ {m} ELSE calls[i].left
    /\ Len(calls) > 0 => m \in calls[Len(calls)].left
    /\ Schedule!Visit(m, below)
    /\ UNCHANGED <<imports, components>>

LEMMA BeginsFacts ==
    ASSUME SearchInv, NEW m, NEW below, Begins(m, below)
    PROVE  LET N == Cardinality(Visited)
               k == Len(calls)
           IN  /\ N \in Nat
               /\ Visited' = Visited \cup {m} /\ Cardinality(Visited') = N + 1
               /\ visited' \in [Visited' -> Nat] /\ visited'[m] = N /\ \A x \in Visited : visited'[x] = visited[x]
               /\ low' \in [Visited' -> Nat] /\ low'[m] = N /\ \A x \in Visited : low'[x] = low[x]
               /\ stack' \in Seq(Modules) /\ Len(stack') = Len(stack) + 1 /\ stack'[Len(stack) + 1] = m
               /\ \A i \in 1..Len(stack) : stack'[i] = stack[i]
               /\ Stacked' = Stacked \cup {m}
               /\ calls' \in Seq([module : Modules, left : SUBSET Modules])
               /\ Len(calls') = k + 1 /\ calls'[k + 1] = [module |-> m, left |-> imports[m]]
               /\ \A i \in 1..k : Caller(i)' = Caller(i)
               /\ \A i \in 1..k : calls'[i].left = IF i = k THEN calls[i].left \ {m} ELSE calls[i].left
<1> DEFINE N == Cardinality(Visited)
           k == Len(calls)
<1> USE DEF Caller
<1>1. IsFiniteSet(Visited) /\ m \notin Visited /\ m \in Modules
  BY FixpointAssumption, FS_Subset DEF SearchInv, Typed, Begins
<1>2. N \in Nat /\ Cardinality(Visited \cup {m}) = N + 1
  BY <1>1, FS_AddElement, FS_CardinalityType
<1>3. Cardinality(DOMAIN visited) = Schedule!Cardinality(Schedule!Visited)
  BY DEF Schedule!Cardinality, Cardinality, Schedule!Visited
<1>4. /\ visited' = [x \in Visited \cup {m} |-> IF x = m THEN N ELSE visited[x]]
      /\ low' = [x \in DOMAIN low \cup {m} |-> IF x = m THEN N ELSE low[x]]
      /\ stack' = Append(stack, m)
      /\ calls' = Append(below, [module |-> m, left |-> imports[m]])
  BY <1>3 DEF Begins, Schedule!Visit, Schedule!Assigned, Visited
<1>5. visited \in [Visited -> Nat] /\ low \in [Visited -> Nat] /\ stack \in Seq(Modules) /\ imports \in [Modules -> SUBSET Modules]
      /\ calls \in Seq([module : Modules, left : SUBSET Modules])
  BY DEF SearchInv, Typed
<1> HIDE DEF N
<1>6. Visited' = Visited \cup {m} /\ Cardinality(Visited') = N + 1
  BY <1>2, <1>4 DEF Visited
<1>7. visited' \in [Visited' -> Nat] /\ visited'[m] = N /\ \A x \in Visited : visited'[x] = visited[x]
  BY <1>1, <1>2, <1>4, <1>5, <1>6
<1>8. low' \in [Visited' -> Nat] /\ low'[m] = N /\ \A x \in Visited : low'[x] = low[x]
  BY <1>1, <1>2, <1>4, <1>5, <1>6
<1>9. /\ stack' \in Seq(Modules) /\ Len(stack') = Len(stack) + 1 /\ stack'[Len(stack) + 1] = m
      /\ \A i \in 1..Len(stack) : stack'[i] = stack[i]
  BY <1>1, <1>4, <1>5
<1>10. Stacked' = Stacked \cup {m}
  <2>1. Stacked = {stack[i] : i \in 1..Len(stack)} /\ Stacked' = {stack'[i] : i \in 1..Len(stack) + 1}
    <3>1. DOMAIN stack = 1..Len(stack) /\ DOMAIN stack' = 1..Len(stack) + 1
      BY <1>5, <1>9
    <3>2. Stacked = {stack[i] : i \in DOMAIN stack} /\ Stacked' = {stack'[i] : i \in DOMAIN stack'}
      BY DEF Stacked, Range
    <3>3. QED
      BY <3>1, <3>2
  <2>2. \A i : i \in 1..Len(stack) + 1 <=> i \in 1..Len(stack) \/ i = Len(stack) + 1
    <3>1. Len(stack) \in Nat
      BY <1>5
    <3>2. QED
      BY <3>1
  <2>3. ASSUME NEW x \in Stacked' PROVE x \in Stacked \cup {m}
    <3>1. PICK i \in 1..Len(stack) + 1 : x = stack'[i]
      BY <2>1, <2>3
    <3>2. CASE i \in 1..Len(stack)
      BY <1>9, <2>1, <3>1, <3>2
    <3>3. CASE i = Len(stack) + 1
      BY <1>9, <3>1, <3>3
    <3>4. QED
      BY <2>2, <3>1, <3>2, <3>3
  <2>4. ASSUME NEW x \in Stacked PROVE x \in Stacked'
    BY <1>9, <2>1, <2>2
  <2>5. m \in Stacked'
    BY <1>5, <1>9, <2>1, <2>2
  <2>6. QED
    BY <2>3, <2>4, <2>5
<1>11. [module |-> m, left |-> imports[m]] \in [module : Modules, left : SUBSET Modules]
  BY <1>1, <1>5
<1>12. /\ calls' \in Seq([module : Modules, left : SUBSET Modules])
       /\ Len(calls') = k + 1 /\ calls'[k + 1] = [module |-> m, left |-> imports[m]]
       /\ \A i \in 1..k : calls'[i] = below[i]
  BY <1>4, <1>5, <1>11 DEF Begins
<1>13. \A i \in 1..k : calls'[i].module = calls[i].module
  BY <1>12 DEF Begins
<1>14. \A i \in 1..k : calls'[i].left = IF i = k THEN calls[i].left \ {m} ELSE calls[i].left
  BY <1>12 DEF Begins
<1>15. QED
  BY <1>2, <1>6, <1>7, <1>8, <1>9, <1>10, <1>12, <1>13, <1>14 DEF N

LEMMA BeginsKeeps ==
    ASSUME SearchInv, NEW m, NEW below, Begins(m, below)
    PROVE  SearchInv'
<1> DEFINE N == Cardinality(Visited)
           k == Len(calls)
<1>1. /\ m \in Modules /\ m \notin Visited
      /\ imports' = imports /\ components' = components
      /\ k > 0 => m \in calls[k].left
  BY DEF Begins
<1>2. N \in Nat /\ k \in Nat /\ Len(stack) \in Nat
  <2>1. N \in Nat
    BY BeginsFacts
  <2>2. QED
    BY <2>1 DEF SearchInv, Typed
<1>3. Visited' = Visited \cup {m} /\ Cardinality(Visited') = N + 1
  BY BeginsFacts
<1>4. visited' \in [Visited' -> Nat] /\ visited'[m] = N /\ \A x \in Visited : visited'[x] = visited[x]
  BY BeginsFacts
<1>5. low' \in [Visited' -> Nat] /\ low'[m] = N /\ \A x \in Visited : low'[x] = low[x]
  BY BeginsFacts
<1>6. /\ stack' \in Seq(Modules) /\ Len(stack') = Len(stack) + 1 /\ stack'[Len(stack) + 1] = m
      /\ \A i \in 1..Len(stack) : stack'[i] = stack[i]
  BY BeginsFacts
<1>7. Stacked' = Stacked \cup {m}
  BY BeginsFacts
<1>8. /\ calls' \in Seq([module : Modules, left : SUBSET Modules])
      /\ Len(calls') = k + 1 /\ calls'[k + 1] = [module |-> m, left |-> imports[m]]
      /\ \A i \in 1..k : Caller(i)' = Caller(i)
      /\ \A i \in 1..k : calls'[i].left = IF i = k THEN calls[i].left \ {m} ELSE calls[i].left
  BY BeginsFacts
<1>9. /\ \A x \in Visited : visited[x] \in Nat /\ visited[x] < N
      /\ \A x \in Stacked : x \in Visited /\ x \in Modules
      /\ \A i \in 1..k : Caller(i) \in Stacked
  BY Positions DEF SearchInv, Typed, Numbered
<1>10. \A i \in 1..k + 1 : IF i = k + 1 THEN Caller(i)' = m /\ calls'[i].left = imports[m] ELSE i \in 1..k /\ Caller(i)' = Caller(i)
  BY <1>2, <1>8 DEF Caller
<1>11. \A i \in 1..k : i \in 1..k + 1 /\ i # k + 1
  BY <1>2
<1>12. Graph /\ \A x : Reached(x)' = Reached(x)
  BY <1>1, ReachedStays DEF SearchInv, Typed, Graph
<1> HIDE DEF N, k
<1>20. Typed'
  BY <1>1, <1>3, <1>4, <1>5, <1>6, <1>8 DEF SearchInv, Typed
<1>21. Numbered'
  <2>1. \A x \in Visited' : visited'[x] < Cardinality(Visited')
    BY <1>2, <1>3, <1>4, <1>9
  <2>2. \A x, y \in Visited' : visited'[x] = visited'[y] => x = y
    BY <1>2, <1>3, <1>4, <1>9 DEF SearchInv, Numbered
  <2>3. ASSUME NEW i \in 1..Len(stack'), NEW j \in 1..Len(stack'), i < j PROVE visited'[stack'[i]] < visited'[stack'[j]]
    <3>1. i \in 1..Len(stack) /\ stack'[i] = stack[i] /\ stack[i] \in Visited
      BY <1>2, <1>6, <1>9, <2>3, Positions
    <3>2. CASE j \in 1..Len(stack)
      <4>1. stack'[j] = stack[j] /\ stack[j] \in Visited
        BY <1>6, <1>9, <3>2, Positions
      <4>2. QED
        BY <1>4, <2>3, <3>1, <3>2, <4>1 DEF SearchInv, Numbered
    <3>3. CASE j \notin 1..Len(stack)
      BY <1>2, <1>4, <1>6, <1>9, <2>3, <3>1, <3>3
    <3>4. QED
      BY <3>2, <3>3
  <2>4. ASSUME NEW i \in 1..Len(calls'), NEW j \in 1..Len(calls'), i < j PROVE visited'[Caller(i)'] < visited'[Caller(j)']
    <3>1. i \in 1..k /\ Caller(i)' = Caller(i) /\ Caller(i) \in Visited
      BY <1>2, <1>8, <1>9, <2>4
    <3>2. CASE j \in 1..k
      BY <1>4, <1>8, <1>9, <2>4, <3>1, <3>2 DEF SearchInv, Numbered, k
    <3>3. CASE j \notin 1..k
      BY <1>2, <1>4, <1>8, <1>9, <1>10, <2>4, <3>1, <3>3
    <3>4. QED
      BY <3>2, <3>3
  <2>5. QED
    BY <2>1, <2>2, <2>3, <2>4 DEF Numbered
<1>22. Held'
  <2>1. m \notin UNION Range(components) /\ \A n \in 1..Len(components) : m \notin components[n]
    BY <1>1, Positions DEF SearchInv, Held
  <2>2. Visited' = Stacked' \cup UNION Range(components)
    BY <1>3, <1>7 DEF SearchInv, Held
  <2>3. \A n \in 1..Len(components) : components[n] \cap Stacked' = {}
    BY <1>7, <2>1 DEF SearchInv, Held
  <2>4. QED
    BY <1>1, <2>2, <2>3 DEF SearchInv, Held
<1>23. Above'
  <2>1. ASSUME NEW i \in 1..k + 1 PROVE calls'[i].module \in Stacked' /\ calls'[i].left \subseteq imports[calls'[i].module]
    <3>1. CASE i = k + 1
      BY <1>7, <1>10, <3>1 DEF Caller
    <3>2. CASE i # k + 1
      <4>1. i \in 1..k /\ calls'[i].module = Caller(i) /\ Caller(i) \in Stacked
        BY <1>9, <1>10, <3>2 DEF Caller
      <4>2. calls'[i].left \subseteq imports[Caller(i)]
        BY <1>8, <4>1 DEF SearchInv, Above, k
      <4>3. QED
        BY <1>7, <4>1, <4>2
    <3>3. QED
      BY <3>1, <3>2
  <2>2. ASSUME NEW c \in Stacked', NEW x \in Stacked', InProgress(c)', visited'[c] <= visited'[x] PROVE x \in Reached(c)
    <3>1. CASE c = m
      <4>1. x = m
        BY <1>2, <1>4, <1>7, <1>9, <2>2, <3>1
      <4>2. QED
        BY <1>1, <1>12, <3>1, <4>1, ReachedFacts
    <3>2. CASE c # m
      <4>1. PICK i \in 1..k : Caller(i) = c
        BY <1>8, <1>10, <2>2, <3>2 DEF InProgress, Caller
      <4>2. c \in Stacked /\ visited'[c] = visited[c] /\ InProgress(c)
        BY <1>4, <1>9, <4>1 DEF InProgress, k
      <4>3. CASE x # m
        BY <1>4, <1>7, <1>9, <2>2, <4>2, <4>3 DEF SearchInv, Above
      <4>4. CASE x = m
        <5>1. k \in 1..k /\ (i = k \/ i < k)
          BY <1>2
        <5>2. Caller(k) \in Stacked /\ visited[c] <= visited[Caller(k)]
          BY <1>9, <4>1, <5>1 DEF SearchInv, Numbered, k
        <5>3. m \in imports[Caller(k)] /\ Caller(k) \in Reached(c)
          BY <1>1, <1>2, <4>2, <5>1, <5>2 DEF SearchInv, Above, k
        <5>4. QED
          BY <1>9, <1>12, <4>2, <4>4, <5>3, ReachedFacts
      <4>5. QED
        BY <4>3, <4>4
    <3>3. QED
      BY <3>1, <3>2
  <2>3. QED
    BY <1>1, <1>8, <1>12, <2>1, <2>2 DEF Above, Caller
<1>24. Followed'
  <2> SUFFICES ASSUME NEW x \in Visited', NEW y \in imports[x], y \notin Visited' PROVE Left(x, y)'
    BY <1>1 DEF Followed
  <2>1. CASE x = m
    <3>1. k + 1 \in 1..Len(calls') /\ calls'[k + 1].module = m /\ y \in calls'[k + 1].left
      BY <1>2, <1>8, <2>1
    <3>2. QED
      BY <2>1, <3>1 DEF Left, Caller
  <2>2. CASE x # m
    <3>1. PICK i \in 1..k : Caller(i) = x /\ y \in calls[i].left
      BY <1>3, <2>2 DEF SearchInv, Followed, Left, k
    <3>2. i \in 1..Len(calls') /\ calls'[i].module = x /\ y \in calls'[i].left
      <4>1. i \in 1..Len(calls')
        BY <1>2, <1>8
      <4>2. calls'[i].module = x
        BY <1>8, <3>1 DEF Caller
      <4>3. y # m /\ calls'[i].left = IF i = k THEN calls[i].left \ {m} ELSE calls[i].left
        BY <1>3, <1>8
      <4>4. QED
        BY <3>1, <4>1, <4>2, <4>3
    <3>3. QED
      BY <3>2 DEF Left, Caller
  <2>3. QED
    BY <2>1, <2>2
<1>25. Linked'
  <2> SUFFICES ASSUME NEW x \in Stacked'
               PROVE  /\ \E y \in Stacked' : visited'[y] = low'[x] /\ y \in Reached(x)
                      /\ low'[x] <= visited'[x]
                      /\ ~InProgress(x)' => low'[x] < visited'[x]
    BY <1>12 DEF Linked
  <2>1. CASE x = m
    <3>1. m \in Reached(m)
      BY <1>1, <1>12, ReachedFacts
    <3>2. InProgress(x)'
      <4>1. k + 1 \in 1..Len(calls') /\ calls'[k + 1].module = m
        BY <1>2, <1>8
      <4>2. QED
        BY <2>1, <4>1 DEF InProgress, Caller
    <3>3. QED
      BY <1>2, <1>4, <1>5, <1>7, <2>1, <3>1, <3>2
  <2>2. CASE x # m
    <3>1. x \in Stacked /\ visited'[x] = visited[x] /\ low'[x] = low[x]
      BY <1>4, <1>5, <1>7, <1>9, <2>2
    <3>2. PICK y \in Stacked : visited[y] = low[x] /\ y \in Reached(x)
      BY <3>1 DEF SearchInv, Linked
    <3>3. y \in Stacked' /\ visited'[y] = visited[y]
      BY <1>4, <1>7, <1>9
    <3>4. ~InProgress(x)' => ~InProgress(x)
      <4>1. \A i \in 1..k : i \in 1..Len(calls') /\ calls'[i].module = Caller(i)
        BY <1>2, <1>8 DEF Caller
      <4>2. QED
        BY <4>1 DEF InProgress, Caller, k
    <3>5. low[x] <= visited[x] /\ (~InProgress(x) => low[x] < visited[x])
      BY <3>1 DEF SearchInv, Linked
    <3>6. QED
      BY <3>1, <3>2, <3>3, <3>4, <3>5
  <2>3. QED
    BY <2>1, <2>2
<1>26. Bounded'
  <2> SUFFICES ASSUME NEW i \in 1..k + 1, NEW x \in Stacked', NEW y \in imports[x] \cap Stacked',
                      Owned(i, x)', ~Left(x, y)'
               PROVE  low'[Caller(i)'] <= visited'[y]
    BY <1>1, <1>8 DEF Bounded
  <2>1. i # k + 1
    <3>1. SUFFICES ASSUME i = k + 1 PROVE FALSE
      OBVIOUS
    <3>2. N <= visited'[x]
      BY <1>4, <1>10, <3>1 DEF Owned
    <3>3. x = m
      BY <1>2, <1>4, <1>7, <1>9, <3>2
    <3>4. k + 1 \in 1..Len(calls') /\ calls'[k + 1].module = x /\ y \in calls'[k + 1].left
      BY <1>2, <1>8, <3>3
    <3>5. QED
      BY <3>4 DEF Left, Caller
  <2>2. i \in 1..k /\ Caller(i)' = Caller(i) /\ Caller(i) \in Stacked
    BY <1>9, <1>10, <2>1
  <2>3. i + 1 \in 1..k + 1 /\ i < Len(calls') /\ visited'[x] < visited'[Caller(i + 1)']
    BY <1>2, <1>8, <2>2 DEF Owned
  <2>4. visited'[Caller(i + 1)'] \in Nat /\ visited'[Caller(i + 1)'] <= N
    BY <1>2, <1>4, <1>9, <1>10, <2>3
  <2>5. x # m
    BY <1>2, <1>3, <1>4, <1>7, <1>9, <2>3, <2>4
  <2>6. x \in Stacked /\ visited'[x] = visited[x] /\ low'[Caller(i)'] = low[Caller(i)] /\ low[Caller(i)] \in Nat /\ visited[Caller(i)] \in Nat
    BY <1>4, <1>5, <1>7, <1>9, <2>2, <2>5, Positions
  <2>7. CASE y = m
    <3>1. low[Caller(i)] <= visited[Caller(i)] /\ visited[Caller(i)] < N
      BY <1>9, <2>2 DEF SearchInv, Linked
    <3>2. QED
      BY <1>2, <1>4, <2>6, <2>7, <3>1
  <2>8. CASE y # m
    <3>1. y \in Stacked /\ visited'[y] = visited[y]
      BY <1>4, <1>7, <1>9, <2>8
    <3>2. ~Left(x, y)
      <4>1. SUFFICES ASSUME NEW j \in 1..k, Caller(j) = x, y \in calls[j].left PROVE FALSE
        BY DEF Left, k
      <4>2. j \in 1..Len(calls') /\ calls'[j].module = x /\ y \in calls'[j].left
        <5>1. j \in 1..Len(calls')
          BY <1>2, <1>8
        <5>2. calls'[j].module = x
          BY <1>8, <4>1 DEF Caller
        <5>3. y # m /\ calls'[j].left = IF j = k THEN calls[j].left \ {m} ELSE calls[j].left
          BY <1>8, <2>8
        <5>4. QED
          BY <4>1, <5>1, <5>2, <5>3
      <4>3. QED
        BY <4>2 DEF Left, Caller
    <3>3. Owned(i, x)
      <4>1. visited[Caller(i)] <= visited[x]
        BY <1>4, <1>9, <2>2, <2>6 DEF Owned
      <4>2. i < k => i + 1 \in 1..k /\ Caller(i + 1)' = Caller(i + 1) /\ Caller(i + 1) \in Visited
        BY <1>2, <1>8, <1>9, <2>2
      <4>3. i < k => visited[x] < visited[Caller(i + 1)]
        BY <1>4, <2>3, <2>6, <4>2
      <4>4. QED
        BY <4>1, <4>3 DEF Owned, k
    <3>4. low[Caller(i)] <= visited[y]
      BY <2>2, <2>6, <3>1, <3>2, <3>3 DEF SearchInv, Bounded, k
    <3>5. QED
      BY <2>6, <3>1, <3>4
  <2>9. QED
    BY <2>7, <2>8
<1>27. Closed'
  BY <1>1, <1>12 DEF SearchInv, Closed
<1>30. QED
  BY <1>20, <1>21, <1>22, <1>23, <1>24, <1>25, <1>26, <1>27 DEF SearchInv

\* The visit on top looks at an import.
Looked(visits, m) == [visits EXCEPT ![Len(visits)].left = @ \ {m}]

LEMMA WithLeft ==
    ASSUME NEW c \in [module : Modules, left : SUBSET Modules], NEW S
    PROVE  [c EXCEPT !.left = S] = [module |-> c.module, left |-> S]
OBVIOUS

LEMMA LookedFacts ==
    ASSUME NEW visits \in Seq([module : Modules, left : SUBSET Modules]), Len(visits) > 0, NEW m
    PROVE  /\ Looked(visits, m) \in Seq([module : Modules, left : SUBSET Modules])
           /\ Len(Looked(visits, m)) = Len(visits)
           /\ \A i \in 1..Len(visits) :
                 /\ Looked(visits, m)[i].module = visits[i].module
                 /\ Looked(visits, m)[i].left = IF i = Len(visits) THEN visits[i].left \ {m} ELSE visits[i].left
<1> DEFINE k == Len(visits)
           R == [module : Modules, left : SUBSET Modules]
           last == [module |-> visits[k].module, left |-> visits[k].left \ {m}]
<1>1. k \in Nat /\ k \in 1..k
  OBVIOUS
<1>2. visits[k] \in R
  <2>1. visits \in Seq(R)
    OBVIOUS
  <2> HIDE DEF R
  <2>2. QED
    BY <1>1, <2>1
<1>3. [visits[k] EXCEPT !.left = @ \ {m}] = last
  BY <1>2, WithLeft
<1>4. last \in R
  BY <1>2
<1>5. Looked(visits, m) = [visits EXCEPT ![k] = last]
  BY <1>3 DEF Looked
<1>6. visits \in Seq(R)
  OBVIOUS
<1> HIDE DEF R, last, k
<1>7. Looked(visits, m) \in Seq(R) /\ Len(Looked(visits, m)) = k
  BY <1>1, <1>4, <1>5, <1>6 DEF k
<1>8. \A i \in 1..k : Looked(visits, m)[i] = IF i = k THEN last ELSE visits[i]
  BY <1>1, <1>5, <1>6 DEF k
<1>9. ASSUME NEW i \in 1..k
      PROVE  /\ Looked(visits, m)[i].module = visits[i].module
             /\ Looked(visits, m)[i].left = IF i = k THEN visits[i].left \ {m} ELSE visits[i].left
  <2>1. CASE i = k
    BY <1>8, <2>1 DEF last
  <2>2. CASE i # k
    BY <1>8, <2>2
  <2>3. QED
    BY <2>1, <2>2
<1>10. QED
  BY <1>7, <1>9 DEF R, k

\* The visit on top looks at an import that has been visited.
Sees(m) ==
    LET k == Len(calls)
    IN  /\ k > 0 /\ m \in calls[k].left /\ m \in Visited
        /\ calls' = Looked(calls, m)
        /\ low' = IF m \in Stacked THEN [low EXCEPT ![Caller(k)] = IF visited[m] < @ THEN visited[m] ELSE @] ELSE low
        /\ UNCHANGED <<imports, visited, stack, components>>

LEMMA SeesKeeps ==
    ASSUME SearchInv, NEW m, Sees(m)
    PROVE  SearchInv'
<1> DEFINE k == Len(calls)
           top == Caller(k)
<1>1. /\ imports' = imports /\ components' = components /\ stack' = stack /\ visited' = visited
      /\ Visited' = Visited /\ Stacked' = Stacked
      /\ m \in calls[k].left /\ m \in Visited
  BY DEF Sees, Visited, Stacked
<1>2. k \in Nat /\ k > 0 /\ k \in 1..k
  BY DEF SearchInv, Typed, Sees
<1>3. /\ calls' \in Seq([module : Modules, left : SUBSET Modules])
      /\ Len(calls') = k
      /\ \A i \in 1..k : calls'[i].module = Caller(i) /\ calls'[i].left = IF i = k THEN calls[i].left \ {m} ELSE calls[i].left
  <2>1. calls \in Seq([module : Modules, left : SUBSET Modules])
    BY DEF SearchInv, Typed
  <2>2. calls' = Looked(calls, m)
    BY DEF Sees
  <2> DEFINE v == Looked(calls, m)
  <2>3. /\ v \in Seq([module : Modules, left : SUBSET Modules]) /\ Len(v) = Len(calls)
        /\ \A i \in 1..Len(calls) :
              /\ v[i].module = calls[i].module
              /\ v[i].left = IF i = Len(calls) THEN calls[i].left \ {m} ELSE calls[i].left
    BY <1>2, <2>1, LookedFacts
  <2> HIDE DEF v
  <2>4. calls' = v
    BY <2>2 DEF v
  <2>5. QED
    BY <2>3, <2>4 DEF Caller
<1>4. /\ top \in Stacked /\ top \in Modules /\ top \in Visited /\ m \in imports[top] /\ InProgress(top)
      /\ \A x \in Visited : visited[x] \in Nat /\ low[x] \in Nat
      /\ \A x \in Stacked : x \in Visited
  BY <1>1, <1>2, Positions DEF SearchInv, Typed, Above, InProgress
<1>5. Graph /\ \A x : Reached(x)' = Reached(x)
  BY <1>1, ReachedStays DEF SearchInv, Typed, Graph
<1>6. /\ low' \in [Visited -> Nat] /\ \A x \in Visited : low'[x] <= low[x]
      /\ \A x \in Visited : low'[x] = low[x] \/ (x = top /\ m \in Stacked /\ low'[x] = visited[m])
      /\ m \in Stacked => low'[top] <= visited[m]
  <2>1. CASE m \in Stacked
    <3>1. low' = [low EXCEPT ![top] = IF visited[m] < @ THEN visited[m] ELSE @]
      BY <2>1 DEF Sees
    <3>2. low \in [Visited -> Nat] /\ visited[m] \in Nat
      BY <1>1, <1>4 DEF SearchInv, Typed
    <3> HIDE DEF top
    <3>3. QED
      BY <1>4, <2>1, <3>1, <3>2
  <2>2. CASE m \notin Stacked
    BY <1>4, <2>2 DEF Sees, SearchInv, Typed
  <2>3. QED
    BY <2>1, <2>2
<1>7. \A x : InProgress(x)' <=> InProgress(x)
  BY <1>3 DEF InProgress, Caller
<1>8. \A x, y : Left(x, y) => Left(x, y)' \/ (x = top /\ y = m)
  <2> SUFFICES ASSUME NEW x, NEW y, NEW i \in 1..k, Caller(i) = x, y \in calls[i].left, ~(x = top /\ y = m)
               PROVE  \E j \in 1..Len(calls') : calls'[j].module = x /\ y \in calls'[j].left
    BY DEF Left, Caller
  <2>1. calls'[i].module = x /\ y \in calls'[i].left
    BY <1>3
  <2>2. QED
    BY <1>3, <2>1
<1> HIDE DEF k, top
<1>20. Typed'
  BY <1>1, <1>3, <1>6 DEF SearchInv, Typed
<1>21. Numbered'
  <2>1. \A i, j \in 1..k : i < j => visited[calls'[i].module] < visited[calls'[j].module]
    BY <1>3 DEF SearchInv, Numbered, k
  <2>2. QED
    BY <1>1, <1>3, <2>1 DEF SearchInv, Numbered, Caller
<1>22. Held'
  BY <1>1 DEF SearchInv, Held
<1>23. Above'
  <2>1. \A i \in 1..k : calls'[i].module \in Stacked /\ calls'[i].left \subseteq imports[calls'[i].module]
    BY <1>3 DEF SearchInv, Above, k
  <2>2. \A c, x \in Stacked : InProgress(c)' /\ visited[c] <= visited[x] => x \in Reached(c)
    BY <1>7 DEF SearchInv, Above
  <2>3. QED
    BY <1>1, <1>3, <1>5, <2>1, <2>2 DEF Above, Caller
<1>24. Followed'
  BY <1>1, <1>8 DEF SearchInv, Followed
<1>25. Linked'
  <2> SUFFICES ASSUME NEW x \in Stacked
               PROVE  /\ \E y \in Stacked : visited[y] = low'[x] /\ y \in Reached(x)
                      /\ low'[x] <= visited[x]
                      /\ ~InProgress(x) => low'[x] < visited[x]
    BY <1>1, <1>5, <1>7 DEF Linked
  <2>1. \E y \in Stacked : visited[y] = low'[x] /\ y \in Reached(x)
    <3>1. CASE low'[x] = low[x]
      BY <3>1 DEF SearchInv, Linked
    <3>2. CASE x = top /\ m \in Stacked /\ low'[x] = visited[m]
      BY <1>4, <1>5, <3>2, ReachedFacts
    <3>3. QED
      BY <1>4, <1>6, <3>1, <3>2
  <2>2. low'[x] \in Nat /\ low[x] \in Nat /\ visited[x] \in Nat /\ low'[x] <= low[x]
    BY <1>4, <1>6
  <2>3. low[x] <= visited[x] /\ (~InProgress(x) => low[x] < visited[x])
    BY DEF SearchInv, Linked
  <2>4. QED
    BY <2>1, <2>2, <2>3
<1>26. Bounded'
  <2> SUFFICES ASSUME NEW i \in 1..k, NEW x \in Stacked, NEW y \in imports[x] \cap Stacked,
                      Owned(i, x)', ~Left(x, y)'
               PROVE  low'[Caller(i)'] <= visited'[y]
    BY <1>1, <1>3 DEF Bounded
  <2>1. Caller(i)' = Caller(i) /\ Caller(i) \in Stacked /\ Caller(i) \in Visited
    BY <1>3, <1>4 DEF SearchInv, Above, Caller, k
  <2>2. Owned(i, x)
    <3>1. i < k => calls'[i + 1].module = Caller(i + 1)
      <4>1. i < k => i + 1 \in 1..k
        BY <1>2
      <4>2. QED
        BY <1>3, <4>1
    <3>2. QED
      BY <1>1, <1>3, <2>1, <3>1 DEF Owned, Caller, k
  <2>3. CASE Left(x, y)
    <3>1. x = top /\ y = m
      BY <1>8, <2>3
    <3>2. i = k
      <4>1. SUFFICES ASSUME i < k PROVE FALSE
        BY <1>2
      <4>2. visited[top] < visited[Caller(i + 1)]
        BY <2>2, <3>1, <4>1 DEF Owned, k
      <4>3. i + 1 \in 1..k /\ (i + 1 = k \/ i + 1 < k)
        BY <1>2, <4>1
      <4>4. Caller(i + 1) \in Visited
        BY <1>4, <4>3 DEF SearchInv, Above, k
      <4>5. i + 1 < k => visited[Caller(i + 1)] < visited[top]
        BY <1>2, <4>3 DEF SearchInv, Numbered, k, top
      <4>6. QED
        BY <1>4, <4>2, <4>3, <4>4, <4>5 DEF top
    <3>3. QED
      BY <1>1, <1>6, <2>1, <3>1, <3>2 DEF top
  <2>4. CASE ~Left(x, y)
    <3>1. low[Caller(i)] <= visited[y]
      BY <2>2, <2>4 DEF SearchInv, Bounded, k
    <3>2. QED
      BY <1>1, <1>4, <1>6, <2>1, <3>1
  <2>5. QED
    BY <2>3, <2>4
<1>27. Closed'
  BY <1>1, <1>5 DEF SearchInv, Closed
<1>30. QED
  BY <1>20, <1>21, <1>22, <1>23, <1>24, <1>25, <1>26, <1>27 DEF SearchInv

\* What comes before the n-th element of a sequence.
LEMMA Before ==
    ASSUME NEW S, NEW s \in Seq(S), NEW n \in 1..Len(s)
    PROVE  /\ SubSeq(s, 1, n - 1) \in Seq(S)
           /\ Len(SubSeq(s, 1, n - 1)) = n - 1
           /\ \A i \in 1..(n - 1) : i \in 1..Len(s) /\ SubSeq(s, 1, n - 1)[i] = s[i]
OBVIOUS

\* The visit on top has looked at all the imports of its module, and returns.
Returns ==
    LET k == Len(calls)
    IN  /\ k > 0 /\ calls[k].left = {}
        /\ calls' = SubSeq(calls, 1, k - 1)
        /\ low' = IF k = 1 THEN low
                  ELSE [low EXCEPT ![Caller(k - 1)] = IF low[Caller(k)] < @ THEN low[Caller(k)] ELSE @]
        /\ UNCHANGED <<imports, visited>>

\* Its callers, and what becomes of the low links: those of its caller take its own.
LEMMA ReturnsFacts ==
    ASSUME SearchInv, Returns
    PROVE  LET k == Len(calls)
               m == Caller(k)
           IN  /\ k \in Nat /\ k > 0
               /\ m \in Stacked /\ m \in Modules /\ m \in Visited /\ InProgress(m)
               /\ calls' \in Seq([module : Modules, left : SUBSET Modules]) /\ Len(calls') = k - 1
               /\ \A i \in 1..(k - 1) : i \in 1..k /\ calls'[i] = calls[i]
               /\ \A i \in 1..(k - 1) : Caller(i) \in Stacked /\ visited[Caller(i)] < visited[m]
               /\ \A x : InProgress(x) => x = m \/ InProgress(x)'
               /\ \A x, y : Left(x, y) <=> Left(x, y)'
               /\ \A x : InProgress(x)' => InProgress(x) /\ x # m
               /\ \A x \in Visited : visited[x] \in Nat /\ low[x] \in Nat
               /\ low' \in [Visited -> Nat]
               /\ \A x \in Visited : low'[x] <= low[x]
               /\ \A x \in Visited : low'[x] = low[x] \/ (k > 1 /\ x = Caller(k - 1) /\ low'[x] = low[m] /\ low[m] < low[x])
               /\ k > 1 => low'[Caller(k - 1)] <= low[m]
<1> DEFINE k == Len(calls)
           m == Caller(k)
           R == [module : Modules, left : SUBSET Modules]
<1>1. k \in Nat /\ k > 0 /\ k \in 1..k /\ calls \in Seq(R)
  BY DEF SearchInv, Typed, Returns
<1>2. calls' = SubSeq(calls, 1, k - 1) /\ calls[k].left = {} /\ Visited' = Visited
  BY DEF Returns, Visited
<1>3. calls' \in Seq(R) /\ Len(calls') = k - 1 /\ \A i \in 1..(k - 1) : i \in 1..k /\ calls'[i] = calls[i]
  <2>1. k \in Nat /\ k > 0 /\ calls \in Seq(R) /\ k = Len(calls) /\ calls' = SubSeq(calls, 1, k - 1)
    BY <1>1, <1>2
  <2> HIDE DEF R, k
  <2>2. QED
    BY <2>1, Before
<1>4. m \in Stacked /\ m \in Modules /\ m \in Visited
  BY <1>1, Positions
<1>5. InProgress(m)
  BY <1>1 DEF InProgress
<1> HIDE DEF k, m
<1>6. \A i \in 1..(k - 1) : Caller(i) \in Stacked /\ visited[Caller(i)] < visited[m]
  <2> SUFFICES ASSUME NEW i \in 1..(k - 1) PROVE Caller(i) \in Stacked /\ visited[Caller(i)] < visited[m]
    OBVIOUS
  <2>1. i \in 1..k /\ i < k
    BY <1>1
  <2>2. QED
    BY <1>1, <2>1 DEF SearchInv, Numbered, Above, k, m
<1>7. ASSUME NEW x, InProgress(x) PROVE x = m \/ InProgress(x)'
  <2>1. PICK i \in 1..k : Caller(i) = x
    BY <1>7 DEF InProgress, k
  <2>2. i = k \/ i \in 1..(k - 1)
    BY <1>1
  <2>3. QED
    BY <1>3, <2>1, <2>2 DEF InProgress, Caller, m
<1>8. ASSUME NEW x, NEW y, Left(x, y) PROVE Left(x, y)'
  <2>1. PICK i \in 1..k : Caller(i) = x /\ y \in calls[i].left
    BY <1>8 DEF Left, k
  <2>2. i \in 1..(k - 1)
    BY <1>1, <1>2, <2>1
  <2>3. QED
    BY <1>3, <2>1, <2>2 DEF Left, Caller
<1>9. ASSUME NEW x, NEW y, Left(x, y)' PROVE Left(x, y)
  <2>1. PICK i \in 1..(k - 1) : calls'[i].module = x /\ y \in calls'[i].left
    BY <1>3, <1>9 DEF Left, Caller
  <2>2. QED
    BY <1>3, <2>1 DEF Left, Caller, k
<1>10. ASSUME NEW x, InProgress(x)' PROVE InProgress(x) /\ x # m
  <2>1. PICK i \in 1..(k - 1) : calls'[i].module = x
    BY <1>3, <1>10 DEF InProgress, Caller
  <2>2. i \in 1..k /\ Caller(i) = x /\ visited[x] < visited[m]
    BY <1>3, <1>6, <2>1 DEF Caller
  <2>3. visited[m] \in Nat
    BY <1>4, Positions
  <2>4. QED
    BY <2>2, <2>3 DEF InProgress, k
<1>11. \A x \in Visited : visited[x] \in Nat /\ low[x] \in Nat
  BY DEF SearchInv, Typed
<1>12. /\ low' \in [Visited -> Nat]
       /\ \A x \in Visited : low'[x] <= low[x]
       /\ \A x \in Visited : low'[x] = low[x] \/ (k > 1 /\ x = Caller(k - 1) /\ low'[x] = low[m] /\ low[m] < low[x])
       /\ k > 1 => low'[Caller(k - 1)] <= low[m]
  <2>1. low \in [Visited -> Nat]
    BY DEF SearchInv, Typed
  <2>2. CASE k = 1
    <3>1. low' = low
      BY <2>2 DEF Returns, k
    <3>2. QED
      BY <1>11, <2>1, <2>2, <3>1
  <2>3. CASE k # 1
    <3> DEFINE c == Caller(k - 1)
    <3>1. low' = [low EXCEPT ![c] = IF low[m] < @ THEN low[m] ELSE @]
      BY <2>3 DEF Returns, k, m
    <3>2. k - 1 \in 1..(k - 1)
      BY <1>1, <2>3
    <3>3. c \in Visited
      BY <1>6, <3>2, Positions
    <3> HIDE DEF c
    <3>4. /\ low' \in [Visited -> Nat]
          /\ \A x \in Visited : low'[x] <= low[x]
          /\ \A x \in Visited : low'[x] = low[x] \/ (x = c /\ low'[x] = low[m] /\ low[m] < low[x])
          /\ low'[c] <= low[m]
      BY <1>4, <1>11, <2>1, <3>1, <3>3
    <3>5. k > 1
      BY <1>1, <2>3
    <3>6. QED
      BY <3>4, <3>5 DEF c
  <2>4. QED
    BY <2>2, <2>3
<1>13. QED
  BY <1>1, <1>3, <1>4, <1>5, <1>6, <1>7, <1>8, <1>9, <1>10, <1>11, <1>12 DEF k, m

\* Every module on the stack leads back to a visit in progress.
LEMMA LeadsBack ==
    ASSUME SearchInv
    PROVE  \A x \in Stacked : \E c \in Stacked : InProgress(c) /\ c \in Reached(x)
<1> DEFINE Back(x) == \E c \in Stacked : InProgress(c) /\ c \in Reached(x)
           T == {visited[x] : x \in {y \in Stacked : ~Back(y)}}
<1>1. Graph /\ \A x \in Stacked : visited[x] \in Nat /\ x \in Modules
  BY Positions DEF SearchInv, Typed, Graph
<1>2. SUFFICES ASSUME T # {} PROVE FALSE
  OBVIOUS
<1>3. T \in SUBSET Nat
  BY <1>1
<1>4. PICK n \in T : \A m \in T : n <= m
  <2> HIDE DEF T
  <2>1. QED
    BY <1>2, <1>3, LeastNumber
<1>5. PICK x \in Stacked : ~Back(x) /\ n = visited[x]
  BY <1>4
<1>6. ~InProgress(x)
  BY <1>1, <1>5, ReachedFacts
<1>7. PICK y \in Stacked : visited[y] = low[x] /\ y \in Reached(x) /\ low[x] < visited[x]
  BY <1>6 DEF SearchInv, Linked
<1>8. Back(y)
  <2>1. SUFFICES ASSUME ~Back(y) PROVE FALSE
    OBVIOUS
  <2>2. visited[y] \in T
    BY <2>1
  <2> HIDE DEF T, Back
  <2>3. n <= visited[y] /\ visited[y] < n /\ n \in Nat /\ visited[y] \in Nat
    BY <1>1, <1>3, <1>4, <1>5, <1>7, <2>2
  <2>4. QED
    BY <2>3
<1>9. PICK c \in Stacked : InProgress(c) /\ c \in Reached(y)
  BY <1>8
<1>10. c \in Reached(x)
  BY <1>1, <1>5, <1>7, <1>9, ReachedOn
<1>11. QED
  BY <1>5, <1>9, <1>10

\* A module that leads back below itself stays on the stack, and its caller takes what it owned.
LEMMA StaysKeeps ==
    ASSUME SearchInv, Returns, low[Caller(Len(calls))] # visited[Caller(Len(calls))], UNCHANGED <<stack, components>>
    PROVE  SearchInv'
<1> DEFINE k == Len(calls)
           m == Caller(k)
           caller == Caller(k - 1)
<1>1. /\ imports' = imports /\ components' = components /\ stack' = stack /\ visited' = visited
      /\ Visited' = Visited /\ Stacked' = Stacked /\ low[m] # visited[m]
  BY DEF Returns, Visited, Stacked
<1>2. /\ k \in Nat /\ k > 0
      /\ m \in Stacked /\ m \in Modules /\ m \in Visited /\ InProgress(m)
  BY ReturnsFacts
<1>3. /\ calls' \in Seq([module : Modules, left : SUBSET Modules]) /\ Len(calls') = k - 1
      /\ \A i \in 1..(k - 1) : i \in 1..k /\ calls'[i] = calls[i]
      /\ \A i \in 1..(k - 1) : Caller(i) \in Stacked /\ visited[Caller(i)] < visited[m]
  BY ReturnsFacts
<1>4. /\ \A x : InProgress(x) => x = m \/ InProgress(x)'
      /\ \A x, y : Left(x, y) <=> Left(x, y)'
      /\ \A x : InProgress(x)' => InProgress(x) /\ x # m
  BY ReturnsFacts
<1>5. /\ \A x \in Visited : visited[x] \in Nat /\ low[x] \in Nat
      /\ low' \in [Visited -> Nat]
      /\ \A x \in Visited : low'[x] <= low[x]
      /\ \A x \in Visited : low'[x] = low[x] \/ (k > 1 /\ x = caller /\ low'[x] = low[m] /\ low[m] < low[x])
      /\ k > 1 => low'[caller] <= low[m]
  BY ReturnsFacts
<1>6. Graph /\ \A x : Reached(x)' = Reached(x)
  BY <1>1, ReachedStays DEF SearchInv, Typed, Graph
<1>7. k > 1 => k - 1 \in 1..(k - 1) /\ InProgress(caller) /\ caller \in Stacked /\ visited[caller] < visited[m]
  <2>1. k > 1 => k - 1 \in 1..(k - 1) /\ k - 1 \in 1..k
    BY <1>2
  <2>2. QED
    BY <1>3, <2>1 DEF InProgress
<1>8. \A x \in Stacked : x \in Visited /\ x \in Modules
  BY Positions
<1> HIDE DEF k, m, caller
<1>20. Typed'
  BY <1>1, <1>3, <1>5 DEF SearchInv, Typed
<1>21. Numbered'
  <2>1. \A i, j \in 1..(k - 1) : i < j => visited[calls'[i].module] < visited[calls'[j].module]
    BY <1>3 DEF SearchInv, Numbered, Caller, k
  <2>2. QED
    BY <1>1, <1>3, <2>1 DEF SearchInv, Numbered, Caller
<1>22. Held'
  BY <1>1 DEF SearchInv, Held
<1>23. Above'
  <2>1. \A i \in 1..(k - 1) : calls'[i].module \in Stacked /\ calls'[i].left \subseteq imports[calls'[i].module]
    BY <1>3 DEF SearchInv, Above, Caller, k
  <2>2. \A c, x \in Stacked : InProgress(c)' /\ visited[c] <= visited[x] => x \in Reached(c)
    BY <1>4 DEF SearchInv, Above
  <2>3. QED
    BY <1>1, <1>3, <1>6, <2>1, <2>2 DEF Above, Caller
<1>24. Followed'
  BY <1>1, <1>4 DEF SearchInv, Followed
<1>25. Linked'
  <2> SUFFICES ASSUME NEW x \in Stacked
               PROVE  /\ \E y \in Stacked : visited[y] = low'[x] /\ y \in Reached(x)
                      /\ low'[x] <= visited[x]
                      /\ ~InProgress(x)' => low'[x] < visited[x]
    BY <1>1, <1>6 DEF Linked
  <2>1. \E y \in Stacked : visited[y] = low'[x] /\ y \in Reached(x)
    <3>1. CASE low'[x] = low[x]
      BY <3>1 DEF SearchInv, Linked
    <3>2. CASE k > 1 /\ x = caller /\ low'[x] = low[m]
      <4>1. PICK y \in Stacked : visited[y] = low[m] /\ y \in Reached(m)
        BY <1>2 DEF SearchInv, Linked
      <4>2. m \in Reached(x)
        BY <1>2, <1>5, <1>7, <1>8, <3>2 DEF SearchInv, Above
      <4>3. y \in Reached(x)
        BY <1>6, <1>8, <4>1, <4>2, ReachedOn
      <4>4. QED
        BY <3>2, <4>1, <4>3
    <3>3. QED
      BY <1>5, <1>8, <3>1, <3>2
  <2>2. low'[x] \in Nat /\ low[x] \in Nat /\ visited[x] \in Nat /\ low'[x] <= low[x]
    BY <1>5, <1>8
  <2>3. low[x] <= visited[x] /\ (~InProgress(x) => low[x] < visited[x])
    BY DEF SearchInv, Linked
  <2>4. x = m => low[x] < visited[x]
    BY <1>1, <2>2, <2>3
  <2>5. QED
    BY <1>4, <2>1, <2>2, <2>3, <2>4
<1>26. Bounded'
  <2> SUFFICES ASSUME NEW i \in 1..(k - 1), NEW x \in Stacked, NEW y \in imports[x] \cap Stacked,
                      Owned(i, x)', ~Left(x, y)
               PROVE  low'[Caller(i)] <= visited[y]
    BY <1>1, <1>3, <1>4 DEF Bounded, Caller
  <2>1. Caller(i)' = Caller(i) /\ Caller(i) \in Visited /\ i \in 1..k
    BY <1>3, <1>8 DEF Caller
  <2>2. visited[Caller(i)] <= visited[x] /\ (i < k - 1 => visited[x] < visited[calls'[i + 1].module])
    BY <1>1, <1>3, <2>1 DEF Owned, Caller
  <2>3. CASE i < k - 1
    <3>1. i + 1 \in 1..(k - 1)
      BY <1>2, <2>3
    <3>2. calls'[i + 1].module = Caller(i + 1)
      BY <1>3, <3>1 DEF Caller
    <3>3. Owned(i, x)
      BY <2>2, <2>3, <3>2 DEF Owned
    <3>4. low[Caller(i)] <= visited[y]
      BY <2>1, <3>3 DEF SearchInv, Bounded, k
    <3>5. QED
      BY <1>5, <1>8, <2>1, <3>4
  <2>4. CASE i = k - 1 /\ visited[x] < visited[m]
    <3>1. Owned(i, x)
      BY <1>2, <2>2, <2>4 DEF Owned, m, k
    <3>2. low[Caller(i)] <= visited[y]
      BY <2>1, <3>1 DEF SearchInv, Bounded, k
    <3>3. QED
      BY <1>5, <1>8, <2>1, <3>2
  <2>5. CASE i = k - 1 /\ ~(visited[x] < visited[m])
    <3>1. k \in 1..k /\ visited[m] <= visited[x]
      BY <1>2, <1>5, <1>8, <2>5
    <3>2. Owned(k, x)
      BY <3>1 DEF Owned, m, k
    <3>3. low[m] <= visited[y]
      BY <3>1, <3>2 DEF SearchInv, Bounded, k, m
    <3>4. k > 1 /\ low'[Caller(i)] <= low[m]
      BY <1>2, <1>5, <2>5 DEF caller
    <3>5. QED
      BY <1>2, <1>5, <1>8, <2>1, <3>3, <3>4
  <2>6. QED
    BY <1>2, <2>3, <2>4, <2>5
<1>27. Closed'
  BY <1>1, <1>6 DEF SearchInv, Closed
<1>30. QED
  BY <1>20, <1>21, <1>22, <1>23, <1>24, <1>25, <1>26, <1>27 DEF SearchInv

\* What is on the stack from m on: what is numbered from it on.
LEMMA MembersFacts ==
    ASSUME SearchInv, NEW m \in Stacked
    PROVE  /\ Schedule!Place(m) \in 1..Len(stack) /\ stack[Schedule!Place(m)] = m
           /\ Schedule!Members(m) = {x \in Stacked : visited[m] <= visited[x]}
           /\ {stack[i] : i \in 1..(Schedule!Place(m) - 1)} = {x \in Stacked : visited[x] < visited[m]}
<1> DEFINE p == Schedule!Place(m)
           L == Len(stack)
<1>1. p \in 1..L /\ stack[p] = m
  <2>1. \E n \in 1..L : stack[n] = m
    BY Positions
  <2>2. QED
    BY <2>1 DEF Schedule!Place
<1>2. L \in Nat
  BY DEF SearchInv, Typed
<1>3. \A i \in 1..L : stack[i] \in Stacked /\ visited[stack[i]] \in Nat
  BY Positions
<1>4. \A i, j \in 1..L : i < j => visited[stack[i]] < visited[stack[j]]
  BY DEF SearchInv, Numbered
<1>5. \A x \in Stacked : \E i \in 1..L : x = stack[i]
  BY Positions
<1>6. Schedule!Members(m) = {stack[i] : i \in p..L}
  BY DEF Schedule!Members
<1> HIDE DEF p, L
<1>7. \A i \in 1..L : (i < p => visited[stack[i]] < visited[m]) /\ (p <= i => visited[m] <= visited[stack[i]])
  <2> SUFFICES ASSUME NEW i \in 1..L
               PROVE  (i < p => visited[stack[i]] < visited[m]) /\ (p <= i => visited[m] <= visited[stack[i]])
    OBVIOUS
  <2>1. i < p \/ i = p \/ p < i
    BY <1>1, <1>2
  <2>2. i < p => visited[stack[i]] < visited[m]
    BY <1>1, <1>4
  <2>3. p < i => visited[m] < visited[stack[i]]
    BY <1>1, <1>4
  <2>4. QED
    BY <1>1, <1>2, <1>3, <2>1, <2>2, <2>3
<1>8. {stack[i] : i \in p..L} = {x \in Stacked : visited[m] <= visited[x]}
  <2>1. ASSUME NEW i \in p..L PROVE stack[i] \in Stacked /\ visited[m] <= visited[stack[i]]
    <3>1. i \in 1..L /\ p <= i
      BY <1>1, <1>2
    <3>2. QED
      BY <1>3, <1>7, <3>1
  <2>2. ASSUME NEW x \in Stacked, visited[m] <= visited[x] PROVE x \in {stack[i] : i \in p..L}
    <3>1. PICK i \in 1..L : x = stack[i]
      BY <1>5
    <3>2. i \in p..L
      BY <1>1, <1>2, <1>3, <1>7, <2>2, <3>1
    <3>3. QED
      BY <3>1, <3>2
  <2>3. QED
    BY <2>1, <2>2
<1>9. {stack[i] : i \in 1..(p - 1)} = {x \in Stacked : visited[x] < visited[m]}
  <2>1. ASSUME NEW i \in 1..(p - 1) PROVE stack[i] \in Stacked /\ visited[stack[i]] < visited[m]
    <3>1. i \in 1..L /\ i < p
      BY <1>1, <1>2
    <3>2. QED
      BY <1>3, <1>7, <3>1
  <2>2. ASSUME NEW x \in Stacked, visited[x] < visited[m] PROVE x \in {stack[i] : i \in 1..(p - 1)}
    <3>1. PICK i \in 1..L : x = stack[i]
      BY <1>5
    <3>2. i \in 1..(p - 1)
      BY <1>1, <1>2, <1>3, <1>7, <2>2, <3>1
    <3>3. QED
      BY <3>1, <3>2
  <2>3. QED
    BY <2>1, <2>2
<1>10. QED
  BY <1>1, <1>6, <1>8, <1>9 DEF p, L

\* A module that leads back to nothing below itself makes a component with all above it.
LEMMA PopsKeeps ==
    ASSUME SearchInv, Returns,
           low[Caller(Len(calls))] = visited[Caller(Len(calls))],
           components' = Append(components, Schedule!Members(Caller(Len(calls)))),
           stack' = SubSeq(stack, 1, Schedule!Place(Caller(Len(calls))) - 1)
    PROVE  SearchInv'
<1> DEFINE k == Len(calls)
           m == Caller(k)
           p == Schedule!Place(m)
           C == {x \in Stacked : visited[m] <= visited[x]}
           N == Len(components)
<1>1. /\ imports' = imports /\ visited' = visited /\ Visited' = Visited /\ low[m] = visited[m]
      /\ stack' = SubSeq(stack, 1, p - 1)
  BY DEF Returns, Visited
<1>2. /\ k \in Nat /\ k > 0 /\ calls[k].left = {}
      /\ m \in Stacked /\ m \in Modules /\ m \in Visited /\ InProgress(m)
  BY ReturnsFacts DEF Returns
<1>3. /\ calls' \in Seq([module : Modules, left : SUBSET Modules]) /\ Len(calls') = k - 1
      /\ \A i \in 1..(k - 1) : i \in 1..k /\ calls'[i] = calls[i]
      /\ \A i \in 1..(k - 1) : Caller(i) \in Stacked /\ visited[Caller(i)] < visited[m]
  BY ReturnsFacts
<1>4. /\ \A x : InProgress(x) => x = m \/ InProgress(x)'
      /\ \A x, y : Left(x, y) <=> Left(x, y)'
      /\ \A x : InProgress(x)' => InProgress(x) /\ x # m
  BY ReturnsFacts
<1>5. /\ \A x \in Visited : visited[x] \in Nat /\ low[x] \in Nat
      /\ low' \in [Visited -> Nat]
      /\ \A x \in Visited : low'[x] = low[x]
  <2>1. /\ \A x \in Visited : visited[x] \in Nat /\ low[x] \in Nat
        /\ low' \in [Visited -> Nat]
        /\ \A x \in Visited : low'[x] = low[x] \/ (k > 1 /\ x = Caller(k - 1) /\ low'[x] = low[m] /\ low[m] < low[x])
    BY ReturnsFacts
  <2>2. k > 1 => visited[Caller(k - 1)] < visited[m] /\ low[Caller(k - 1)] <= visited[Caller(k - 1)] /\ Caller(k - 1) \in Visited
    <3>1. k > 1 => k - 1 \in 1..(k - 1)
      BY <1>2
    <3>2. QED
      BY <1>3, <3>1, Positions DEF SearchInv, Linked
  <2> HIDE DEF k, m
  <2>3. QED
    BY <1>1, <1>2, <2>1, <2>2
<1>6. Graph /\ \A x : Reached(x)' = Reached(x)
  BY <1>1, ReachedStays DEF SearchInv, Typed, Graph
<1>7. /\ p \in 1..Len(stack) /\ stack[p] = m /\ Schedule!Members(m) = C
      /\ {stack[i] : i \in 1..(p - 1)} = {x \in Stacked : visited[x] < visited[m]}
  BY <1>2, MembersFacts
<1>8. \A x \in Stacked : x \in Visited /\ x \in Modules /\ visited[x] \in Nat
  BY Positions
<1>9. N \in Nat /\ Len(stack) \in Nat /\ stack \in Seq(Modules) /\ components \in Seq(SUBSET Modules)
  BY DEF SearchInv, Typed
<1>10. components' = Append(components, C)
  BY <1>7
<1>11. C \in SUBSET Modules
  BY <1>8
<1> HIDE DEF k, m, p, C, N
<1>12. /\ components' \in Seq(SUBSET Modules) /\ Len(components') = N + 1 /\ components'[N + 1] = C
       /\ \A n \in 1..N : n \in 1..N + 1 /\ components'[n] = components[n]
  <2> DEFINE S == SUBSET Modules
  <2>1. C \in S /\ components \in Seq(S) /\ N = Len(components)
    BY <1>9, <1>11 DEF N
  <2> HIDE DEF S
  <2>2. components' \in Seq(S) /\ Len(components') = N + 1 /\ components'[N + 1] = C
    BY <1>10, <2>1
  <2>3. \A n \in 1..N : n \in 1..N + 1 /\ components'[n] = components[n]
    BY <1>9, <1>10, <2>1
  <2>4. QED
    BY <2>2, <2>3 DEF S
<1>13. /\ stack' \in Seq(Modules) /\ Len(stack') = p - 1
       /\ \A i \in 1..(p - 1) : i \in 1..Len(stack) /\ stack'[i] = stack[i]
  <2>1. stack \in Seq(Modules) /\ p \in 1..Len(stack) /\ stack' = SubSeq(stack, 1, p - 1)
    BY <1>1, <1>7, <1>9
  <2>2. /\ SubSeq(stack, 1, p - 1) \in Seq(Modules)
        /\ Len(SubSeq(stack, 1, p - 1)) = p - 1
        /\ \A i \in 1..(p - 1) : i \in 1..Len(stack) /\ SubSeq(stack, 1, p - 1)[i] = stack[i]
    BY <2>1, Before
  <2>3. QED
    BY <2>1, <2>2
<1>14. Stacked' = {x \in Stacked : visited[x] < visited[m]}
  <2>1. DOMAIN stack' = 1..(p - 1)
    BY <1>7, <1>9, <1>13
  <2>2. Stacked' = {stack'[i] : i \in DOMAIN stack'}
    BY DEF Stacked, Range
  <2>3. {stack'[i] : i \in 1..(p - 1)} = {stack[i] : i \in 1..(p - 1)}
    BY <1>13
  <2>4. QED
    BY <1>7, <2>1, <2>2, <2>3
<1>15. Stacked = Stacked' \cup C /\ Stacked' \cap C = {} /\ m \in C
  BY <1>2, <1>8, <1>14 DEF C
<1>16. UNION Range(components') = (UNION Range(components)) \cup C
  <2>1. DOMAIN components' = 1..N + 1 /\ DOMAIN components = 1..N
    BY <1>9, <1>12 DEF N
  <2>2. \A n : n \in 1..N + 1 <=> n \in 1..N \/ n = N + 1
    BY <1>9
  <2>3. \A x : x \in UNION Range(components') <=> \E n \in 1..N + 1 : x \in components'[n]
    BY <2>1 DEF Range
  <2>4. \A x : x \in UNION Range(components) <=> \E n \in 1..N : x \in components[n]
    BY <2>1 DEF Range
  <2>5. \A x : x \in UNION Range(components') <=> x \in UNION Range(components) \/ x \in C
    BY <1>12, <2>2, <2>3, <2>4
  <2> DEFINE after == UNION Range(components')
             before == UNION Range(components)
  <2>6. \A x : x \in after <=> x \in before \/ x \in C
    BY <2>5
  <2> HIDE DEF after, before
  <2>7. after = before \cup C
    BY <2>6
  <2>8. QED
    BY <2>7 DEF after, before
<1>17. \A n \in 1..N + 1 : (n \in 1..N /\ components'[n] = components[n]) \/ (n = N + 1 /\ components'[n] = C)
  BY <1>9, <1>12
<1>20. Typed'
  BY <1>1, <1>3, <1>5, <1>12, <1>13 DEF SearchInv, Typed
<1>21. Numbered'
  <2>1. \A i, j \in 1..(k - 1) : i < j => visited[calls'[i].module] < visited[calls'[j].module]
    BY <1>3 DEF SearchInv, Numbered, Caller, k
  <2>2. \A i, j \in 1..(p - 1) : i < j => visited[stack'[i]] < visited[stack'[j]]
    BY <1>13 DEF SearchInv, Numbered
  <2>3. QED
    BY <1>1, <1>3, <1>13, <2>1, <2>2 DEF SearchInv, Numbered, Caller
<1>22. Held'
  <2>1. Visited = Stacked' \cup UNION Range(components')
    <3>1. Visited = Stacked \cup UNION Range(components)
      BY DEF SearchInv, Held
    <3>2. QED
      BY <1>15, <1>16, <3>1
  <2>2. \A n \in 1..N : components[n] \cap Stacked = {}
    BY DEF SearchInv, Held, N
  <2>3. \A n \in 1..N + 1 : components'[n] \cap Stacked' = {}
    BY <1>15, <1>17, <2>2
  <2>4. \A n \in 1..N : components[n] \cap C = {}
    BY <1>15, <2>2
  <2>5. \A j, n \in 1..N : components[j] \cap components[n] # {} => j = n
    BY DEF SearchInv, Held, N
  <2>6. ASSUME NEW j \in 1..N + 1, NEW n \in 1..N + 1, components'[j] \cap components'[n] # {} PROVE j = n
    BY <1>17, <2>4, <2>5, <2>6
  <2>7. QED
    BY <1>1, <1>12, <2>1, <2>3, <2>6 DEF Held
<1>23. Above'
  <2>1. \A i \in 1..(k - 1) : calls'[i].module \in Stacked' /\ calls'[i].left \subseteq imports[calls'[i].module]
    BY <1>3, <1>14 DEF SearchInv, Above, Caller, k
  <2>2. \A c, x \in Stacked' : InProgress(c)' /\ visited[c] <= visited[x] => x \in Reached(c)
    BY <1>4, <1>14 DEF SearchInv, Above
  <2>3. QED
    BY <1>1, <1>3, <1>6, <2>1, <2>2 DEF Above, Caller
<1>24. Followed'
  BY <1>1, <1>4 DEF SearchInv, Followed
<1>25. Linked'
  <2> SUFFICES ASSUME NEW x \in Stacked'
               PROVE  /\ \E y \in Stacked' : visited[y] = low[x] /\ y \in Reached(x)
                      /\ low[x] <= visited[x]
                      /\ ~InProgress(x)' => low[x] < visited[x]
    BY <1>1, <1>5, <1>6, <1>8, <1>14 DEF Linked
  <2>1. x \in Stacked /\ visited[x] < visited[m] /\ x # m
    BY <1>2, <1>14, <1>15
  <2>2. PICK y \in Stacked : visited[y] = low[x] /\ y \in Reached(x)
    BY <2>1 DEF SearchInv, Linked
  <2>3. low[x] <= visited[x] /\ (~InProgress(x) => low[x] < visited[x])
    BY <2>1 DEF SearchInv, Linked
  <2>4. y \in Stacked'
    BY <1>2, <1>8, <1>14, <2>1, <2>2, <2>3
  <2>5. ~InProgress(x)' => ~InProgress(x)
    BY <1>4, <2>1
  <2>6. QED
    BY <2>2, <2>3, <2>4, <2>5
<1>26. Bounded'
  <2> SUFFICES ASSUME NEW i \in 1..(k - 1), NEW x \in Stacked', NEW y \in imports[x] \cap Stacked',
                      Owned(i, x)', ~Left(x, y)
               PROVE  low'[Caller(i)] <= visited[y]
    BY <1>1, <1>3, <1>4 DEF Bounded, Caller
  <2>1. Caller(i)' = Caller(i) /\ Caller(i) \in Visited /\ i \in 1..k
    BY <1>3, <1>8 DEF Caller
  <2>2. visited[Caller(i)] <= visited[x] /\ (i < k - 1 => visited[x] < visited[calls'[i + 1].module])
    BY <1>1, <1>3, <2>1 DEF Owned, Caller
  <2>3. x \in Stacked /\ y \in Stacked /\ visited[x] < visited[m]
    BY <1>14
  <2>4. Owned(i, x)
    <3>1. CASE i < k - 1
      <4>1. i + 1 \in 1..(k - 1)
        BY <1>2, <3>1
      <4>2. calls'[i + 1].module = Caller(i + 1)
        BY <1>3, <4>1 DEF Caller
      <4>3. QED
        BY <2>2, <3>1, <4>2 DEF Owned
    <3>2. CASE ~(i < k - 1)
      <4>1. i + 1 = k
        BY <1>2, <3>2
      <4>2. QED
        BY <2>2, <2>3, <4>1 DEF Owned, m
    <3>3. QED
      BY <3>1, <3>2
  <2>5. low[Caller(i)] <= visited[y]
    BY <2>1, <2>3, <2>4 DEF SearchInv, Bounded, k
  <2>6. QED
    BY <1>5, <2>1, <2>5
<1>27. Closed'
  <2>1. \A x \in C : x \in Reached(m)
    BY <1>2 DEF SearchInv, Above, C
  <2>2. ASSUME NEW x \in C PROVE m \in Reached(x)
    <3>1. x \in Stacked /\ x \in Modules
      BY <1>8 DEF C
    <3>2. PICK c \in Stacked : InProgress(c) /\ c \in Reached(x)
      BY <3>1, LeadsBack
    <3>3. c = m \/ visited[c] < visited[m]
      <4>1. PICK i \in 1..k : Caller(i) = c
        BY <3>2 DEF InProgress, k
      <4>2. i = k \/ i \in 1..(k - 1)
        BY <1>2
      <4>3. QED
        BY <1>3, <4>1, <4>2 DEF m
    <3>4. m \in Reached(c)
      BY <1>2, <1>8, <3>2, <3>3 DEF SearchInv, Above
    <3>5. QED
      BY <1>6, <3>1, <3>2, <3>4, ReachedOn
  <2>3. ASSUME NEW x \in C, NEW y \in C PROVE y \in Reached(x)
    BY <1>6, <1>8, <2>1, <2>2, ReachedOn DEF C
  <2>4. ASSUME NEW x \in C, NEW y \in imports[x] PROVE y \in C \cup UNION Range(components)
    <3>1. x \in Stacked /\ x \in Visited /\ visited[m] <= visited[x]
      BY <1>8 DEF C
    <3>2. ~Left(x, y)
      <4>1. SUFFICES ASSUME NEW i \in 1..k, Caller(i) = x, y \in calls[i].left PROVE FALSE
        BY DEF Left, k
      <4>2. i \in 1..(k - 1)
        BY <1>2, <4>1
      <4>3. visited[x] < visited[m]
        BY <1>3, <4>1, <4>2
      <4>4. QED
        BY <1>2, <1>8, <3>1, <4>3
    <3>3. y \in Visited
      BY <3>1, <3>2 DEF SearchInv, Followed
    <3>4. CASE y \in Stacked
      <4>1. k \in 1..k /\ Owned(k, x)
        BY <1>2, <3>1 DEF Owned, m, k
      <4>2. low[m] <= visited[y]
        BY <3>1, <3>2, <3>4, <4>1 DEF SearchInv, Bounded, k, m
      <4>3. QED
        BY <1>1, <3>4, <4>2 DEF C
    <3>5. CASE y \notin Stacked
      BY <3>3, <3>5 DEF SearchInv, Held
    <3>6. QED
      BY <3>4, <3>5
  <2>5. UNION Range(components) = UNION {components[n] : n \in 1..N}
    BY Positions DEF N
  <2>6. \A n \in 1..N + 1 : \A x, y \in components'[n] : y \in Reached(x)
    BY <1>17, <2>3 DEF SearchInv, Closed, N
  <2>7. ASSUME NEW n \in 1..N + 1, NEW x \in components'[n], NEW y \in imports[x]
        PROVE  \E j \in 1..n : y \in components'[j]
    <3>1. CASE n \in 1..N
      <4>1. components'[n] = components[n]
        BY <1>12, <3>1
      <4>2. PICK j \in 1..n : y \in components[j]
        BY <2>7, <3>1, <4>1 DEF SearchInv, Closed, N
      <4>3. j \in 1..N
        BY <1>9, <3>1
      <4>4. QED
        BY <1>12, <4>2, <4>3
    <3>2. CASE n = N + 1 /\ components'[n] = C
      <4>1. N + 1 \in 1..N + 1 /\ \A j \in 1..N : j \in 1..N + 1
        BY <1>9
      <4>2. CASE y \in C
        BY <3>2, <4>1, <4>2
      <4>3. CASE y \notin C
        <5>1. PICK j \in 1..N : y \in components[j]
          BY <2>4, <2>5, <2>7, <3>2, <4>3
        <5>2. QED
          BY <1>12, <3>2, <4>1, <5>1
      <4>4. QED
        BY <4>2, <4>3
    <3>3. QED
      BY <1>17, <3>1, <3>2
  <2>8. \A n \in 1..N + 1 : \A x \in components'[n] : imports[x] \subseteq UNION {components'[j] : j \in 1..n}
    <3> SUFFICES ASSUME NEW n \in 1..N + 1, NEW x \in components'[n], NEW y \in imports[x]
                 PROVE  y \in UNION {components'[j] : j \in 1..n}
      OBVIOUS
    <3>1. PICK j \in 1..n : y \in components'[j]
      BY <2>7
    <3>2. QED
      BY <3>1
  <2>9. QED
    BY <1>1, <1>6, <1>12, <2>6, <2>8 DEF Closed
<1>30. QED
  BY <1>20, <1>21, <1>22, <1>23, <1>24, <1>25, <1>26, <1>27 DEF SearchInv

-----------------------------------------------------------------------------
(* The search.                                                             *)

\* Every project starts without visits.
LEMMA SearchStarts ==
    ASSUME Init PROVE SearchInv
<1>1. imports \in [Modules -> SUBSET Modules]
  <2>1. ASSUME NEW m \in Modules, NEW x \in Imported(m) PROVE x \in Modules
    <3>1. PICK g \in UNION {Callees(f) : f \in FunctionsOf({m})} : x = ModuleOf[g]
      BY DEF Imported
    <3>2. g \in Functions
      BY DEF Callees
    <3>3. QED
      BY <3>1, <3>2, FixpointAssumption
  <2>2. QED
    BY <2>1 DEF Init
<1>2. visited = <<>> /\ low = <<>> /\ stack = <<>> /\ calls = <<>> /\ components = <<>>
  BY DEF Init, Schedule!Unvisited
<1>3. Visited = {} /\ Stacked = {} /\ DOMAIN low = {} /\ Len(stack) = 0 /\ Len(calls) = 0 /\ Len(components) = 0 /\ Range(components) = {}
  BY <1>2 DEF Visited, Stacked, Range
<1>4. Typed
  <2>1. <<>> \in [{} -> Nat]
    OBVIOUS
  <2>2. QED
    BY <1>1, <1>2, <1>3, <2>1 DEF Typed
<1>5. \A i : i \notin 1..0
  OBVIOUS
<1>6. QED
  BY <1>3, <1>4, <1>5 DEF SearchInv, Numbered, Held, Above, Followed, Linked, Bounded, Closed, InProgress

\* Some module comes first.
LEMMA FirstExists ==
    ASSUME NEW S \in SUBSET Modules, S # {} PROVE Schedule!Min(S) \in S
<1>1. S \in SUBSET Nat
  BY FixpointAssumption
<1>2. \E n \in S : \A m \in S : n <= m
  BY <1>1, LeastNumber
<1>3. QED
  BY <1>2 DEF Schedule!Min

LEMMA SearchKeeps ==
    ASSUME SearchInv, Schedule!Search, imports' = imports
    PROVE  SearchInv'
<1> DEFINE k == Len(calls)
<1>1. /\ calls \in Seq([module : Modules, left : SUBSET Modules]) /\ k \in Nat
      /\ (calls = <<>> <=> k = 0)
      /\ Schedule!Visited = Visited
  BY DEF SearchInv, Typed, Schedule!Visited, Visited
<1>2. CASE Schedule!VisitNext
  <2> DEFINE m == Schedule!Min(Modules \ Visited)
  <2>1. m \in Modules \ Visited
    BY <1>1, <1>2, FirstExists DEF Schedule!VisitNext
  <2>2. Begins(m, <<>>)
    BY <1>1, <1>2, <2>1 DEF Schedule!VisitNext, Begins
  <2>3. QED
    BY <2>2, BeginsKeeps
<1>3. \A m : calls # <<>> => Schedule!Looked(m) = Looked(calls, m) /\ Schedule!Top = calls[k]
  BY DEF Schedule!Looked, Looked, Schedule!Top
<1>4. calls # <<>> => k > 0 /\ k \in 1..k /\ calls[k].left \in SUBSET Modules
  <2>1. calls # <<>> => k > 0 /\ k \in 1..k
    BY <1>1
  <2>2. calls # <<>> => calls[k].left \subseteq imports[Caller(k)] /\ Caller(k) \in Modules
    BY <2>1, Positions DEF SearchInv, Above
  <2>3. QED
    BY <2>1, <2>2 DEF SearchInv, Typed
<1>5. CASE Schedule!FollowImport
  <2> DEFINE m == Schedule!Min(calls[k].left)
  <2>1. calls # <<>> /\ calls[k].left # {} /\ m \notin Visited /\ Schedule!Visit(m, Looked(calls, m)) /\ components' = components
    BY <1>1, <1>3, <1>5 DEF Schedule!FollowImport
  <2>2. m \in calls[k].left /\ m \in Modules
    BY <1>4, <2>1, FirstExists
  <2> HIDE DEF m
  <2>3. Begins(m, Looked(calls, m))
    BY <1>1, <1>4, <2>1, <2>2, LookedFacts DEF Begins
  <2>4. QED
    BY <2>3, BeginsKeeps
<1>6. CASE Schedule!SeeImport
  <2> DEFINE m == Schedule!Min(calls[k].left)
  <2>1. /\ calls # <<>> /\ calls[k].left # {} /\ m \in Visited /\ calls' = Looked(calls, m)
        /\ low' = IF m \in Schedule!Range(stack) THEN Schedule!Lowered(calls[k].module, visited[m]) ELSE low
        /\ UNCHANGED <<visited, stack, components>>
    BY <1>1, <1>3, <1>6 DEF Schedule!SeeImport
  <2>2. m \in calls[k].left
    BY <1>4, <2>1, FirstExists
  <2> HIDE DEF m
  <2>3. Sees(m)
    BY <1>4, <2>1, <2>2 DEF Sees, Schedule!Range, Range, Stacked, Schedule!Lowered, Caller
  <2>4. QED
    BY <2>3, SeesKeeps
<1>7. CASE Schedule!Leave
  <2> DEFINE m == Caller(k)
  <2>1. Schedule!Top = calls[k] /\ calls # <<>>
    BY <1>3, <1>7 DEF Schedule!Leave
  <2>2. Returns
    BY <1>4, <1>7, <2>1 DEF Returns, Schedule!Leave, Schedule!Returned, Schedule!Front, Schedule!Lowered, Schedule!Caller, Caller
  <2>3. CASE low[m] = visited[m]
    <3>1. components' = Append(components, Schedule!Members(m)) /\ stack' = SubSeq(stack, 1, Schedule!Place(m) - 1)
      BY <1>7, <2>1, <2>3 DEF Schedule!Leave, Caller
    <3>2. QED
      BY <2>2, <2>3, <3>1, PopsKeeps
  <2>4. CASE low[m] # visited[m]
    <3>1. UNCHANGED <<stack, components>>
      BY <1>7, <2>1, <2>4 DEF Schedule!Leave, Caller
    <3>2. QED
      BY <2>2, <2>4, <3>1, StaysKeeps
  <2>5. QED
    BY <2>3, <2>4
<1>8. QED
  BY <1>2, <1>5, <1>6, <1>7 DEF Schedule!Search

LEMMA OthersKeep ==
    ASSUME SearchInv, UNCHANGED <<imports, search>> PROVE SearchInv'
<1>1. /\ imports' = imports /\ visited' = visited /\ low' = low /\ stack' = stack /\ calls' = calls /\ components' = components
      /\ Visited' = Visited /\ Stacked' = Stacked
  BY DEF search, Visited, Stacked
<1>2. \A x : Reached(x)' = Reached(x)
  BY <1>1, ReachedStays
<1>3. \A x, y : (InProgress(x)' <=> InProgress(x)) /\ (Left(x, y)' <=> Left(x, y))
  BY <1>1 DEF InProgress, Left, Caller
<1>4. Typed' /\ Numbered' /\ Held' /\ Followed'
  BY <1>1, <1>3 DEF SearchInv, Typed, Numbered, Held, Followed, Caller
<1>5. Above' /\ Linked'
  BY <1>1, <1>2, <1>3 DEF SearchInv, Above, Linked, Caller
<1>6. Bounded'
  BY <1>1, <1>3 DEF SearchInv, Bounded, Owned, Caller
<1>7. Closed'
  BY <1>1, <1>2 DEF SearchInv, Closed
<1>8. QED
  BY <1>4, <1>5, <1>6, <1>7 DEF SearchInv

\* Every state of the search satisfies the invariant.
THEOREM SearchInvariant == Spec => []SearchInv
<1>1. Init => SearchInv
  BY SearchStarts
<1>2. SearchInv /\ [Next]_vars => SearchInv'
  <2> SUFFICES ASSUME SearchInv, [Next]_vars PROVE SearchInv'
    OBVIOUS
  <2>1. CASE Search
    BY <2>1, SearchKeeps DEF Search
  <2>2. CASE Analyse \/ Continue \/ Keep \/ UNCHANGED vars
    BY <2>2, OthersKeep DEF Analyse, Continue, Keep, vars
  <2>3. QED
    BY <2>1, <2>2 DEF Next
<1>3. QED
  BY <1>1, <1>2, PTL DEF Spec

-----------------------------------------------------------------------------
(* What it says of the components.                                         *)

LEMMA WhenDone ==
    ASSUME SearchInv, Schedule!Done
    PROVE  /\ Graph /\ Stacked = {}
           /\ UNION {components[n] : n \in 1..Len(components)} = Modules
           /\ \A n \in 1..Len(components) : components[n] \subseteq Modules
           /\ \A j, n \in 1..Len(components) : components[j] \cap components[n] # {} => j = n
           /\ Len(components) \in Nat
<1>1. Len(calls) = 0 /\ Visited = Modules
  BY DEF Schedule!Done, Schedule!Visited, Visited
<1>2. \A x : ~InProgress(x)
  BY <1>1 DEF InProgress
<1>3. Stacked = {}
  BY <1>2, LeadsBack
<1>4. UNION {components[n] : n \in 1..Len(components)} = Modules
  BY <1>1, <1>3, Positions DEF SearchInv, Held
<1>5. QED
  BY <1>3, <1>4 DEF SearchInv, Typed, Held, Graph

\* What a component leads to was found before it, or is in it.
LEMMA ComponentReaches ==
    ASSUME SearchInv, NEW n \in 1..Len(components), NEW x \in components[n], NEW y \in Reached(x)
    PROVE  \E j \in 1..n : y \in components[j]
<1> DEFINE C == UNION {components[j] : j \in 1..n}
<1>1. n \in Nat /\ \A j \in 1..n : j \in 1..Len(components) /\ \A i \in 1..j : i \in 1..n
  BY DEF SearchInv, Typed
<1>2. x \in C
  <2>1. n \in 1..n
    BY <1>1
  <2>2. QED
    BY <2>1
<1>3. ASSUME NEW z \in C PROVE imports[z] \subseteq C
  <2>1. PICK j \in 1..n : z \in components[j]
    BY <1>3
  <2>2. imports[z] \subseteq UNION {components[i] : i \in 1..j}
    BY <1>1, <2>1 DEF SearchInv, Closed
  <2>3. UNION {components[i] : i \in 1..j} \subseteq C
    BY <1>1, <2>1
  <2>4. QED
    BY <2>2, <2>3
<1>4. Graph /\ x \in Modules
  BY DEF SearchInv, Typed, Graph
<1> HIDE DEF C
<1>5. Reached(x) \subseteq C
  BY <1>2, <1>3, <1>4, ReachedFacts
<1>6. QED
  BY <1>5 DEF C

\* The components are the cycles of imports, and every module is in one.
THEOREM ComponentsAreTheCycles == Spec => []ComponentsAreCycles
<1>1. ASSUME SearchInv, Schedule!Done PROVE Schedule!ComponentsAreCycles
  <2> DEFINE N == Len(components)
  <2>1. Graph /\ N \in Nat /\ \A n \in 1..N : components[n] \subseteq Modules
    BY <1>1, WhenDone
  <2>2. \A j, n \in 1..N : components[j] \cap components[n] # {} => j = n
    BY <1>1, WhenDone
  <2>3. UNION Schedule!Range(components) = Modules
    <3>1. Schedule!Range(components) = Range(components)
      BY DEF Schedule!Range, Range
    <3>2. QED
      BY <1>1, <3>1, WhenDone, Positions
  <2>4. ASSUME NEW n \in 1..N, NEW m \in components[n]
        PROVE  components[n] = {x \in Modules : x \in Reached(m) /\ m \in Reached(x)}
    <3>1. ASSUME NEW x \in components[n] PROVE x \in Modules /\ x \in Reached(m) /\ m \in Reached(x)
      BY <1>1, <2>1, <2>4, <3>1 DEF SearchInv, Closed
    <3>2. ASSUME NEW x \in Reached(m), m \in Reached(x) PROVE x \in components[n]
      <4>1. PICK j \in 1..n : x \in components[j]
        BY <1>1, <2>4, <3>2, ComponentReaches
      <4>2. j \in 1..N
        BY <2>1
      <4>3. PICK i \in 1..j : m \in components[i]
        BY <1>1, <3>2, <4>1, <4>2, ComponentReaches
      <4>4. i \in 1..N /\ i = n
        BY <2>1, <2>2, <2>4, <4>2, <4>3
      <4>5. j = n
        BY <2>1, <4>1, <4>3, <4>4
      <4>6. QED
        BY <4>1, <4>5
    <3>3. QED
      BY <3>1, <3>2
  <2>5. QED
    BY <2>2, <2>3, <2>4 DEF Schedule!ComponentsAreCycles, Reached
<1>2. SearchInv => ComponentsAreCycles
  BY <1>1 DEF ComponentsAreCycles, Schedule!ComponentsAreCycles
<1>3. QED
  BY <1>2, SearchInvariant, PTL

-----------------------------------------------------------------------------
(* Levels.                                                                 *)

LEMMA MaxFacts ==
    ASSUME NEW T \in SUBSET Nat, T # {}, NEW bound \in Nat, \A t \in T : t <= bound
    PROVE  Schedule!Max(T) \in T /\ \A t \in T : t <= Schedule!Max(T)
<1> DEFINE U == {n \in Nat : \A t \in T : t <= n}
<1>1. PICK n \in U : \A u \in U : n <= u
  <2>1. U \in SUBSET Nat /\ U # {}
    OBVIOUS
  <2> HIDE DEF U
  <2>2. QED
    BY <2>1, LeastNumber
<1>2. n \in T
  <2>1. SUFFICES ASSUME n \notin T PROVE FALSE
    OBVIOUS
  <2>2. \A t \in T : t \in Nat /\ t < n
    BY <1>1, <2>1
  <2>3. n \in Nat
    BY <1>1
  <2>4. PICK s \in T : TRUE
    OBVIOUS
  <2>5. n - 1 \in Nat
    BY <2>2, <2>3, <2>4
  <2>6. \A t \in T : t <= n - 1
    BY <2>2, <2>3
  <2>7. n - 1 \in U
    BY <2>5, <2>6
  <2>8. QED
    BY <1>1, <2>3, <2>7
<1>3. n \in T /\ \A t \in T : n >= t
  BY <1>1, <1>2
<1>4. Schedule!Max(T) \in T /\ \A t \in T : Schedule!Max(T) >= t
  BY <1>3 DEF Schedule!Max
<1>5. QED
  BY <1>4

\* The components that the k-th one imports, and levels as the recursion defines them.
Below(k) == {Schedule!Number(m) : m \in Schedule!ImportsOf(components[k])}
LevelAt(g, k) == IF Below(k) = {} THEN 0 ELSE 1 + Schedule!Max({g[b] : b \in Below(k)})
Levelled(g) == g = [k \in 1..Len(components) |-> LevelAt(g, k)]

\* Components import those found before them, where a module's number is its component's.
LEMMA BelowFacts ==
    ASSUME SearchInv, Schedule!Done, NEW k \in 1..Len(components)
    PROVE  /\ \A b \in Below(k) : b \in 1..(k - 1)
           /\ \A m \in Schedule!ImportsOf(components[k]) :
                 Schedule!Number(m) \in 1..Len(components) /\ m \in components[Schedule!Number(m)]
<1> DEFINE N == Len(components)
<1>1. N \in Nat /\ \A j, n \in 1..N : components[j] \cap components[n] # {} => j = n
  BY WhenDone
<1>2. ASSUME NEW m \in Schedule!ImportsOf(components[k])
      PROVE  Schedule!Number(m) \in 1..(k - 1) /\ m \in components[Schedule!Number(m)]
  <2>1. PICK x \in components[k] : m \in imports[x]
    BY <1>2 DEF Schedule!ImportsOf
  <2>2. m \notin components[k]
    BY <1>2 DEF Schedule!ImportsOf
  <2>3. PICK j \in 1..k : m \in components[j]
    BY <2>1 DEF SearchInv, Closed
  <2>4. j \in 1..N /\ j \in 1..(k - 1)
    BY <1>1, <2>2, <2>3
  <2>5. Schedule!Number(m) \in 1..N /\ m \in components[Schedule!Number(m)]
    BY <2>3, <2>4 DEF Schedule!Number
  <2>6. Schedule!Number(m) = j
    BY <1>1, <2>3, <2>4, <2>5
  <2>7. QED
    BY <2>4, <2>5, <2>6
<1>3. \A b \in Below(k) : b \in 1..(k - 1)
  BY <1>2 DEF Below
<1>4. \A n \in 1..(k - 1) : n \in 1..N
  BY <1>1
<1>5. QED
  BY <1>2, <1>3, <1>4

\* A level is one more than the highest below it.
LEMMA LevelAtFacts ==
    ASSUME SearchInv, Schedule!Done, NEW k \in 1..Len(components),
           NEW g, \A b \in 1..(k - 1) : g[b] \in Nat /\ g[b] < b
    PROVE  /\ LevelAt(g, k) \in Nat /\ LevelAt(g, k) < k
           /\ \A b \in Below(k) : g[b] < LevelAt(g, k)
           /\ LevelAt(g, k) > 0 => \E b \in Below(k) : LevelAt(g, k) = g[b] + 1
<1> DEFINE T == {g[b] : b \in Below(k)}
<1>1. k \in Nat /\ k > 0 /\ k - 1 \in Nat
  BY WhenDone
<1>2. \A b \in Below(k) : b \in 1..(k - 1) /\ b < k /\ g[b] \in Nat /\ g[b] < b /\ g[b] + 1 < k
  BY <1>1, BelowFacts
<1>3. CASE Below(k) = {}
  BY <1>1, <1>3 DEF LevelAt
<1>4. CASE Below(k) # {}
  <2>1. T \in SUBSET Nat /\ T # {} /\ \A t \in T : t <= k
    BY <1>1, <1>2, <1>4
  <2> HIDE DEF T
  <2>2. Schedule!Max(T) \in T /\ \A t \in T : t <= Schedule!Max(T)
    BY <1>1, <2>1, MaxFacts
  <2>3. LevelAt(g, k) = 1 + Schedule!Max(T)
    BY <1>4 DEF LevelAt, T
  <2>4. PICK b \in Below(k) : g[b] = Schedule!Max(T)
    BY <2>2 DEF T
  <2>5. \A c \in Below(k) : g[c] <= Schedule!Max(T)
    BY <2>2 DEF T
  <2>6. LevelAt(g, k) \in Nat /\ LevelAt(g, k) = g[b] + 1 /\ LevelAt(g, k) < k
    BY <1>2, <2>3, <2>4
  <2>7. \A c \in Below(k) : g[c] < LevelAt(g, k)
    BY <1>2, <2>3, <2>4, <2>5
  <2>8. QED
    BY <2>6, <2>7
<1>5. QED
  BY <1>3, <1>4

\* What the recursion defines for k it defines from what it defined before.
LEMMA LevelAtSame ==
    ASSUME SearchInv, Schedule!Done, NEW k \in 1..Len(components),
           NEW g, NEW h, \A b \in 1..(k - 1) : g[b] = h[b]
    PROVE  LevelAt(g, k) = LevelAt(h, k)
<1>1. {g[b] : b \in Below(k)} = {h[b] : b \in Below(k)}
  BY BelowFacts
<1>2. QED
  BY <1>1 DEF LevelAt

\* The recursion defines a level for every component.
LEMMA LevelsExist ==
    ASSUME SearchInv, Schedule!Done PROVE \E g : Levelled(g)
<1> DEFINE N == Len(components)
           Partly(g, n) == g = [k \in 1..n |-> g[k]] /\ \A k \in 1..n : k <= N => g[k] = LevelAt(g, k)
           H == {n \in Nat : n <= N => \E g : Partly(g, n)}
<1>1. N \in Nat
  BY WhenDone
<1>2. 0 \in H
  <2>1. Partly([k \in 1..0 |-> 0], 0)
    OBVIOUS
  <2>2. QED
    BY <2>1
<1>3. ASSUME NEW n \in 1..N, n - 1 \in H PROVE n \in H
  <2>1. n \in Nat /\ n - 1 \in Nat /\ n <= N
    BY <1>1
  <2>2. PICK g : Partly(g, n - 1)
    BY <1>3, <2>1
  <2> DEFINE h == [k \in 1..n |-> IF k = n THEN LevelAt(g, n) ELSE g[k]]
  <2>3. \A k \in 1..n : k \in 1..N /\ \A b \in 1..(k - 1) : b \in 1..n /\ b # n /\ h[b] = g[b]
    BY <2>1
  <2>4. ASSUME NEW k \in 1..n PROVE h[k] = LevelAt(h, k)
    <3>1. LevelAt(h, k) = LevelAt(g, k)
      <4> HIDE DEF h
      <4>1. QED
        BY <2>3, LevelAtSame
    <3>2. h[k] = LevelAt(g, k)
      <4>1. CASE k = n
        BY <4>1
      <4>2. CASE k # n
        BY <1>1, <2>1, <2>2, <4>2
      <4>3. QED
        BY <4>1, <4>2
    <3>3. QED
      BY <3>1, <3>2
  <2>5. h = [k \in 1..n |-> h[k]]
    OBVIOUS
  <2> HIDE DEF h
  <2>6. Partly(h, n)
    BY <2>4, <2>5
  <2>7. QED
    BY <2>1, <2>6
<1> HIDE DEF H
<1>4. N \in H
  <2> HIDE DEF N
  <2>1. \A n \in 0..N : n \in H
    BY <1>1, <1>2, <1>3, UpTo
  <2>2. N \in 0..N
    BY <1>1
  <2>3. QED
    BY <2>1, <2>2
<1> USE DEF H
<1>5. PICK g : Partly(g, N)
  BY <1>1, <1>4
<1>6. Levelled(g)
  BY <1>1, <1>5 DEF Levelled
<1>7. QED
  BY <1>6

\* Levels increase along imports, and by one along some.
LEMMA LevelFacts ==
    ASSUME SearchInv, Schedule!Done, NEW k \in 1..Len(components)
    PROVE  /\ Schedule!Level(k) \in Nat
           /\ \A b \in Below(k) : Schedule!Level(b) < Schedule!Level(k)
           /\ Schedule!Level(k) > 0 => \E b \in Below(k) : Schedule!Level(k) = Schedule!Level(b) + 1
<1> DEFINE N == Len(components)
           g == CHOOSE f : Levelled(f)
           H == {n \in Nat : \A j \in 1..n : j <= N => g[j] \in Nat /\ g[j] < j}
<1>1. N \in Nat
  BY WhenDone
<1>2. \A n : Schedule!Level(n) = g[n]
  BY DEF Schedule!Level, Levelled, LevelAt, Below
<1>3. Levelled(g)
  BY LevelsExist
<1> HIDE DEF g
<1>4. \A j \in 1..N : g[j] = LevelAt(g, j)
  BY <1>3 DEF Levelled
<1>5. 0 \in H
  OBVIOUS
<1>6. ASSUME NEW n \in 1..N, n - 1 \in H PROVE n \in H
  <2>1. \A b \in 1..(n - 1) : g[b] \in Nat /\ g[b] < b
    BY <1>1, <1>6
  <2>2. g[n] \in Nat /\ g[n] < n
    BY <1>4, <2>1, LevelAtFacts
  <2>3. \A j \in 1..n : j \in 1..(n - 1) \/ j = n
    BY <1>1
  <2>4. QED
    BY <2>1, <2>2, <2>3
<1> HIDE DEF H
<1>7. N \in H
  <2> HIDE DEF N
  <2>1. \A n \in 0..N : n \in H
    BY <1>1, <1>5, <1>6, UpTo
  <2>2. N \in 0..N
    BY <1>1
  <2>3. QED
    BY <2>1, <2>2
<1>8. \A j \in 1..N : g[j] \in Nat /\ g[j] < j
  BY <1>1, <1>7 DEF H
<1>9. \A b \in 1..(k - 1) : g[b] \in Nat /\ g[b] < b
  BY <1>1, <1>8
<1>10. QED
  BY <1>2, <1>4, <1>9, LevelAtFacts

\* A component is in the first wave after all those that it imports.
THEOREM WavesFollowTheImports == Spec => []WavesFollowImports
<1>1. ASSUME SearchInv, Schedule!Done PROVE Schedule!WavesFollowImports
  <2> DEFINE N == Len(components)
             L(n) == Schedule!Level(n)
             W == Schedule!Waves
             earlier(w) == UNION {UNION W[v] : v \in {u \in DOMAIN W : u < w}}
             sooner(w) == UNION {UNION W[v] : v \in {u \in DOMAIN W : u + 1 < w}}
  <2>1. W = [w \in {L(n) : n \in 1..N} |-> {components[n] : n \in {k \in 1..N : L(k) = w}}]
    BY DEF Schedule!Waves
  <2>2. \A n \in 1..N : L(n) \in Nat /\ L(n) \in DOMAIN W /\ components[n] \in W[L(n)]
    BY <1>1, <2>1, LevelFacts
  <2>3. \A w \in DOMAIN W : \A c \in W[w] : \E n \in 1..N : c = components[n] /\ L(n) = w
    BY <2>1
  <2>4. N \in Nat /\ \A j, n \in 1..N : components[j] \cap components[n] # {} => j = n
    BY <1>1, WhenDone
  <2> SUFFICES ASSUME NEW w \in DOMAIN W, NEW c \in W[w]
               PROVE  /\ Schedule!ImportsOf(c) \subseteq earlier(w)
                      /\ w > 0 => ~ (Schedule!ImportsOf(c) \subseteq sooner(w))
    BY DEF Schedule!WavesFollowImports
  <2> HIDE DEF W, L
  <2>5. PICK n \in 1..N : c = components[n] /\ L(n) = w
    BY <2>3
  <2>6. \A b \in Below(n) : b \in 1..N /\ L(b) < L(n)
    <3>1. \A b \in 1..(n - 1) : b \in 1..N
      BY <2>4
    <3>2. QED
      BY <1>1, <3>1, BelowFacts, LevelFacts DEF L
  <2>7. \A m \in Schedule!ImportsOf(c) : Schedule!Number(m) \in Below(n) /\ m \in components[Schedule!Number(m)]
    BY <1>1, <2>5, BelowFacts DEF Below
  <2>8. ASSUME NEW m \in Schedule!ImportsOf(c) PROVE m \in earlier(w)
    <3> DEFINE b == Schedule!Number(m)
    <3>1. b \in 1..N /\ L(b) < w /\ m \in components[b]
      BY <2>5, <2>6, <2>7
    <3> HIDE DEF b
    <3>2. L(b) \in DOMAIN W /\ m \in UNION W[L(b)]
      BY <2>2, <3>1
    <3>3. QED
      BY <3>1, <3>2
  <2>9. ASSUME w > 0, Schedule!ImportsOf(c) \subseteq sooner(w) PROVE FALSE
    <3>1. PICK b \in Below(n) : w = L(b) + 1
      BY <1>1, <2>5, <2>9, LevelFacts DEF L
    <3>2. PICK m \in Schedule!ImportsOf(c) : b = Schedule!Number(m)
      BY <2>5, <3>1 DEF Below
    <3>3. PICK v \in DOMAIN W : v + 1 < w /\ m \in UNION W[v]
      BY <2>9, <3>2
    <3>4. PICK j \in 1..N : m \in components[j] /\ L(j) = v
      BY <2>3, <3>3
    <3>5. j = b
      BY <2>4, <2>6, <2>7, <3>1, <3>2, <3>4
    <3>6. v \in Nat /\ L(b) = v
      BY <2>2, <3>4, <3>5
    <3>7. QED
      BY <3>1, <3>3, <3>6
  <2>10. QED
    BY <2>8, <2>9
<1>2. SearchInv => WavesFollowImports
  BY <1>1 DEF WavesFollowImports, Schedule!WavesFollowImports
<1>3. QED
  BY <1>2, SearchInvariant, PTL

-----------------------------------------------------------------------------
(* Dependencies, and what one of them has that another misses.             *)

Deps ==
    {d \in [parameter : BOOLEAN, cleared : SUBSET Kinds, externals : SUBSET Externals] :
        ~d.parameter => d.cleared = {}}

\* e misses nothing that d depends on: neither symbols, nor kinds that reach it.
Within(d, e) ==
    /\ d.parameter => e.parameter /\ e.cleared \subseteq d.cleared
    /\ d.externals \subseteq e.externals

\* What depends on any of ds.
Join(ds) ==
    LET through == {d \in ds : d.parameter}
    IN  [parameter |-> through # {},
         cleared |-> {k \in Kinds : through # {} /\ \A d \in through : k \in d.cleared},
         externals |-> UNION {d.externals : d \in ds}]

\* Within is an order on dependencies, and nothing is below no dependency.
LEMMA WithinOrder ==
    /\ \A d \in Deps : Within(d, d) /\ Within(Nothing, d)
    /\ \A d, e \in Deps : Within(d, e) /\ Within(e, d) => d = e
    /\ \A d, e, f \in Deps : Within(d, e) /\ Within(e, f) => Within(d, f)
    /\ Nothing \in Deps /\ Parameter \in Deps
<1>1. \A d \in Deps : Within(d, d) /\ Within(Nothing, d)
  BY DEF Deps, Within, Nothing
<1>2. ASSUME NEW d \in Deps, NEW e \in Deps, Within(d, e), Within(e, d) PROVE d = e
  <2>1. d.parameter = e.parameter
    BY <1>2 DEF Deps, Within
  <2>2. d.externals = e.externals
    BY <1>2 DEF Deps, Within
  <2>3. d.cleared = e.cleared
    BY <1>2, <2>1 DEF Deps, Within
  <2>4. QED
    BY <2>1, <2>2, <2>3 DEF Deps
<1>3. \A d, e, f \in Deps : Within(d, e) /\ Within(e, f) => Within(d, f)
  BY DEF Deps, Within
<1>4. Nothing \in Deps /\ Parameter \in Deps
  BY DEF Deps, Nothing, Parameter
<1>5. QED
  BY <1>1, <1>2, <1>3, <1>4

\* The code's operations give dependencies, and more for more.
LEMMA OrGrows ==
    ASSUME NEW d \in Deps, NEW e \in Deps, NEW d2 \in Deps, NEW e2 \in Deps
    PROVE  /\ Or(d, e) \in Deps
           /\ Within(d, d2) /\ Within(e, e2) => Within(Or(d, e), Or(d2, e2))
<1>1. Or(d, e) \in Deps
  BY DEF Deps, Or
<1>2. ASSUME Within(d, d2), Within(e, e2) PROVE Within(Or(d, e), Or(d2, e2))
  BY <1>2 DEF Deps, Or, Within
<1>3. QED
  BY <1>1, <1>2

\* Clearing gives a dependency: fewer kinds cleared of more leaves more.
LEMMA ClearingGrows ==
    ASSUME NEW d \in Deps, NEW e \in Deps, NEW K \in SUBSET Kinds, NEW L \in SUBSET Kinds
    PROVE  /\ Clearing(d, K) \in Deps
           /\ Within(d, e) /\ L \subseteq K => Within(Clearing(d, K), Clearing(e, L))
<1>1. Clearing(d, K) \in Deps
  BY DEF Deps, Clearing
<1>2. ASSUME Within(d, e), L \subseteq K PROVE Within(Clearing(d, K), Clearing(e, L))
  BY <1>2 DEF Deps, Clearing, Within
<1>3. QED
  BY <1>1, <1>2

\* A dependency on symbols only is one, and more symbols are more of it.
LEMMA SymbolsAreDeps ==
    ASSUME NEW E \in SUBSET Externals, NEW G \in SUBSET Externals
    PROVE  /\ [Nothing EXCEPT !.externals = E] \in Deps
           /\ E \subseteq G => Within([Nothing EXCEPT !.externals = E], [Nothing EXCEPT !.externals = G])
BY DEF Deps, Nothing, Within

\* What a call of a summarized function returns: more for a summary or an argument with more.
LEMMA KnownGrows ==
    ASSUME NEW s \in Deps, NEW d \in Deps, NEW t \in Deps, NEW e \in Deps
    PROVE  /\ Known(s, d) \in Deps
           /\ Within(s, t) /\ Within(d, e) => Within(Known(s, d), Known(t, e))
<1> DEFINE through(x, y) == IF x.parameter THEN Clearing(y, x.cleared) ELSE Nothing
           symbols(x) == [Nothing EXCEPT !.externals = x.externals]
<1>1. /\ s.cleared \in SUBSET Kinds /\ s.externals \in SUBSET Externals
      /\ t.cleared \in SUBSET Kinds /\ t.externals \in SUBSET Externals
  BY DEF Deps
<1>2. through(s, d) \in Deps /\ through(t, e) \in Deps
  BY <1>1, ClearingGrows, WithinOrder
<1>3. symbols(s) \in Deps /\ symbols(t) \in Deps
  BY <1>1, SymbolsAreDeps
<1>4. ASSUME Within(s, t), Within(d, e)
      PROVE  Within(through(s, d), through(t, e)) /\ Within(symbols(s), symbols(t))
  <2>1. s.externals \subseteq t.externals
    BY <1>4 DEF Within
  <2>2. Within(symbols(s), symbols(t))
    BY <1>1, <2>1, SymbolsAreDeps
  <2>3. CASE s.parameter
    <3>1. t.parameter /\ t.cleared \subseteq s.cleared
      BY <1>4, <2>3 DEF Within
    <3>2. Within(Clearing(d, s.cleared), Clearing(e, t.cleared))
      BY <1>1, <1>4, <3>1, ClearingGrows
    <3>3. QED
      BY <2>2, <2>3, <3>1, <3>2
  <2>4. CASE ~s.parameter
    BY <1>2, <2>2, <2>4, WithinOrder
  <2>5. QED
    BY <2>3, <2>4
<1>5. Known(s, d) = Or(through(s, d), symbols(s)) /\ Known(t, e) = Or(through(t, e), symbols(t))
  BY DEF Known
<1> HIDE DEF through, symbols
<1>6. QED
  BY <1>2, <1>3, <1>4, <1>5, OrGrows

\* What a call of an external symbol returns: more for an argument with more.
LEMMA ExternalGrows ==
    ASSUME NEW symbol \in Externals, NEW d \in Deps, NEW e \in Deps, NEW K \in SUBSET Kinds
    PROVE  /\ External(symbol, d, K) \in Deps
           /\ Within(d, e) => Within(External(symbol, d, K), External(symbol, e, K))
<1> DEFINE symbols == [Nothing EXCEPT !.externals = {symbol}]
<1>1. symbols \in Deps /\ Within(symbols, symbols)
  BY SymbolsAreDeps, WithinOrder
<1>2. Clearing(d, K) \in Deps /\ Clearing(e, K) \in Deps
  BY ClearingGrows
<1>3. Within(d, e) => Within(Clearing(d, K), Clearing(e, K))
  BY ClearingGrows
<1>4. \A x : External(symbol, x, K) = Or(Clearing(x, K), symbols)
  BY DEF External
<1> HIDE DEF symbols
<1>5. QED
  BY <1>1, <1>2, <1>3, <1>4, OrGrows

-----------------------------------------------------------------------------
(* Folding Or over a set is joining it.                                    *)

\* The join of some dependencies is one of them joined to the others.
LEMMA JoinFacts ==
    ASSUME NEW ds \in SUBSET Deps
    PROVE  /\ Join(ds) \in Deps
           /\ Join({}) = Nothing
           /\ \A d \in ds : Join(ds) = Or(d, Join(ds \ {d}))
<1>1. Join(ds) \in Deps
  BY DEF Deps, Join
<1>2. Join({}) = Nothing
  BY DEF Join, Nothing
<1>3. ASSUME NEW d \in ds PROVE Join(ds) = Or(d, Join(ds \ {d}))
  <2> DEFINE e == Join(ds \ {d})
  <2>1. Join(ds).parameter = Or(d, e).parameter
    BY DEF Deps, Join, Or
  <2>2. Join(ds).externals = Or(d, e).externals
    BY DEF Deps, Join, Or
  <2>3. Join(ds).cleared = Or(d, e).cleared
    <3>1. d.cleared \in SUBSET Kinds /\ (~d.parameter => d.cleared = {})
      BY DEF Deps
    <3>2. CASE ~d.parameter
      BY <3>1, <3>2 DEF Join, Or
    <3>3. CASE d.parameter /\ ~e.parameter
      <4>1. \A x \in ds : x.parameter <=> x = d
        BY <3>3 DEF Join
      <4>2. Join(ds).cleared = d.cleared
        BY <3>1, <3>3, <4>1 DEF Join
      <4>3. e.cleared = {}
        BY <3>3 DEF Join
      <4>4. QED
        BY <3>3, <4>2, <4>3 DEF Or
    <3>4. CASE d.parameter /\ e.parameter
      BY <3>1, <3>4 DEF Join, Or
    <3>5. d.parameter \in BOOLEAN /\ e.parameter \in BOOLEAN
      BY DEF Deps, Join
    <3>6. QED
      BY <3>2, <3>3, <3>4, <3>5
  <2>4. Join(ds) = [parameter |-> Join(ds).parameter, cleared |-> Join(ds).cleared,
                    externals |-> Join(ds).externals]
    BY DEF Join
  <2>5. Or(d, e) = [parameter |-> Or(d, e).parameter, cleared |-> Or(d, e).cleared,
                    externals |-> Or(d, e).externals]
    BY DEF Or
  <2> HIDE DEF e
  <2>6. Join(ds) = Or(d, e)
    BY <2>1, <2>2, <2>3, <2>4, <2>5
  <2>7. QED
    BY <2>6 DEF e
<1>4. QED
  BY <1>1, <1>2, <1>3

\* Folding Or over a finite set of dependencies, in whatever order, gives their join.
LEMMA FoldIsJoin ==
    ASSUME NEW ds \in SUBSET Deps, IsFiniteSet(ds)
    PROVE  FoldSet(Or, Nothing, ds) = Join(ds)
<1> DEFINE Folds(g) == g = [s \in SUBSET ds |-> IF s = {} THEN Nothing
                                                ELSE LET d == CHOOSE x \in s : TRUE IN Or(d, g[s \ {d}])]
           g == CHOOSE h : Folds(h)
           N == Cardinality(ds)
           H == {n \in Nat : \A s \in SUBSET ds : Cardinality(s) = n => g[s] = Join(s)}
<1>1. FoldSet(Or, Nothing, ds) = g[ds]
  BY DEF FoldSet, MapThenFoldSet
<1>2. Folds(g)
  <2> DEFINE j == [s \in SUBSET ds |-> Join(s)]
  <2>1. ASSUME NEW s \in SUBSET ds
        PROVE  j[s] = IF s = {} THEN Nothing ELSE LET d == CHOOSE x \in s : TRUE IN Or(d, j[s \ {d}])
    <3>1. CASE s = {}
      BY <3>1, JoinFacts
    <3>2. CASE s # {}
      <4> DEFINE d == CHOOSE x \in s : TRUE
      <4>1. d \in s
        BY <3>2
      <4> HIDE DEF d
      <4>2. s \ {d} \in SUBSET ds /\ s \in SUBSET Deps
        OBVIOUS
      <4>3. Join(s) = Or(d, Join(s \ {d}))
        BY <4>1, <4>2, JoinFacts
      <4>4. j[s] = Or(d, j[s \ {d}])
        BY <4>2, <4>3
      <4>5. QED
        BY <3>2, <4>4 DEF d
    <3>3. QED
      BY <3>1, <3>2
  <2>2. Folds(j)
    BY <2>1
  <2>3. QED
    BY <2>2
<1> HIDE DEF g
<1>3. ASSUME NEW s \in SUBSET ds, s # {} PROVE \E d \in s : g[s] = Or(d, g[s \ {d}])
  BY <1>2, <1>3
<1>4. g[{}] = Nothing
  BY <1>2
<1>5. \A s \in SUBSET ds : IsFiniteSet(s) /\ Cardinality(s) \in Nat
  BY FS_Subset, FS_CardinalityType
<1>6. 0 \in H
  <2>1. ASSUME NEW s \in SUBSET ds, Cardinality(s) = 0 PROVE s = {}
    BY <1>5, <2>1, FS_EmptySet
  <2>2. QED
    BY <1>4, <2>1, JoinFacts
<1>7. ASSUME NEW n \in 1..N, n - 1 \in H PROVE n \in H
  <2>1. ASSUME NEW s \in SUBSET ds, Cardinality(s) = n PROVE g[s] = Join(s)
    <3>1. s # {}
      BY <2>1, FS_EmptySet
    <3>2. PICK d \in s : g[s] = Or(d, g[s \ {d}])
      BY <1>3, <3>1
    <3>3. Cardinality(s \ {d}) = n - 1
      BY <1>5, <2>1, FS_RemoveElement
    <3>4. g[s \ {d}] = Join(s \ {d})
      BY <1>7, <3>3
    <3>5. Join(s) = Or(d, Join(s \ {d}))
      BY JoinFacts
    <3>6. QED
      BY <3>2, <3>4, <3>5
  <2>2. n \in Nat
    OBVIOUS
  <2>3. QED
    BY <2>1, <2>2
<1>8. N \in H
  <2>1. N \in Nat
    BY FS_CardinalityType
  <2> HIDE DEF H, N
  <2>2. \A n \in 0..N : n \in H
    BY <1>6, <1>7, <2>1, UpTo
  <2>3. QED
    BY <2>1, <2>2
<1>9. QED
  BY <1>1, <1>8

\* A set that has more in it joins to more.
LEMMA JoinGrows ==
    ASSUME NEW ds \in SUBSET Deps, NEW es \in SUBSET Deps, \A d \in ds : \E e \in es : Within(d, e)
    PROVE  Within(Join(ds), Join(es))
<1>1. Join(ds).parameter => Join(es).parameter /\ Join(es).cleared \subseteq Join(ds).cleared
  <2>1. SUFFICES ASSUME Join(ds).parameter PROVE Join(es).parameter /\ Join(es).cleared \subseteq Join(ds).cleared
    OBVIOUS
  <2>2. ASSUME NEW d \in ds, d.parameter PROVE \E e \in es : e.parameter /\ e.cleared \subseteq d.cleared
    BY <2>2 DEF Within
  <2>3. PICK d \in ds : d.parameter
    BY <2>1 DEF Join
  <2>4. Join(es).parameter
    BY <2>2, <2>3 DEF Join
  <2>5. ASSUME NEW k \in Join(es).cleared, NEW c \in ds, c.parameter PROVE k \in c.cleared
    BY <2>2, <2>5 DEF Join
  <2>6. QED
    BY <2>1, <2>4, <2>5 DEF Join
<1>2. Join(ds).externals \subseteq Join(es).externals
  BY DEF Join, Within
<1>3. QED
  BY <1>1, <1>2 DEF Within

-----------------------------------------------------------------------------
(* Summaries.                                                              *)

\* The summary of a function and the functions it calls, in some code.
SummaryIn(code, f, tables, indexed) ==
    FoldSet(Or, Nothing, {Along(path, f, tables, indexed) : path \in code[f]})
CalleesIn(code, f) == (UNION {Range(path.calls) : path \in code[f]}) \cap Functions

\* What f reads for g.
Read(f, g, tables, indexed) == IF ModuleOf[g] = ModuleOf[f] THEN tables[g] ELSE indexed[g]
Readable(f, gs, tables, indexed) ==
    \A g \in gs \ Unsupported :
        /\ ModuleOf[g] # ModuleOf[f] => g \in DOMAIN indexed
        /\ Read(f, g, tables, indexed) \in Deps
ReadsMore(f, gs, tables, indexed, tables2, indexed2) ==
    \A g \in gs \ Unsupported : Within(Read(f, g, tables, indexed), Read(f, g, tables2, indexed2))

\* The module's summary and callees are those of the bodies.
LEMMA SummaryIs == \A f, t, i : Summary(f, t, i) = SummaryIn(bodies, f, t, i)
BY DEF Summary, SummaryIn

\* The functions it calls are those its body in the code calls.
LEMMA CalleesAre == \A f : Callees(f) = CalleesIn(bodies, f)
BY DEF Callees, CalleesIn

\* One call on a path: a dependency, with more in it for tables that have more.
LEMMA CalledGrows ==
    ASSUME NEW f \in Functions, NEW callee \in Externals \cup Functions, NEW gs, callee \in Functions => callee \in gs,
           NEW t, NEW i, NEW u, NEW j, Readable(f, gs, t, i), Readable(f, gs, u, j),
           NEW d \in Deps, NEW e \in Deps
    PROVE  /\ Called(callee, f, t, i, d) \in Deps
           /\ ReadsMore(f, gs, t, i, u, j) /\ Within(d, e) =>
                  Within(Called(callee, f, t, i, d), Called(callee, f, u, j, e))
<1>1. CASE callee \in Externals
  <2>1. Clears[callee] \in SUBSET Kinds
    BY <1>1, FixpointAssumption
  <2>2. Called(callee, f, t, i, d) = External(callee, d, Clears[callee])
    BY <1>1 DEF Called
  <2>3. Called(callee, f, u, j, e) = External(callee, e, Clears[callee])
    BY <1>1 DEF Called
  <2>4. QED
    BY <1>1, <2>1, <2>2, <2>3, ExternalGrows
<1>2. CASE callee \in Unsupported
  <2>1. callee \notin Externals
    BY <1>2, FixpointAssumption
  <2>2. Called(callee, f, t, i, d) = d /\ Called(callee, f, u, j, e) = e
    BY <1>2, <2>1 DEF Called
  <2>3. QED
    BY <2>2
<1>3. CASE callee \in Functions \ Unsupported
  <2>1. callee \notin Externals /\ callee \in gs \ Unsupported
    BY <1>3, FixpointAssumption
  <2> DEFINE r == Read(f, callee, t, i)
             s == Read(f, callee, u, j)
  <2>2. r \in Deps /\ s \in Deps
    BY <2>1 DEF Readable
  <2>3. Called(callee, f, t, i, d) = Known(r, d)
    BY <1>3, <2>1 DEF Called, Readable, Read
  <2>4. Called(callee, f, u, j, e) = Known(s, e)
    BY <1>3, <2>1 DEF Called, Readable, Read
  <2>5. ReadsMore(f, gs, t, i, u, j) => Within(r, s)
    BY <2>1 DEF ReadsMore
  <2> HIDE DEF r, s
  <2>6. QED
    BY <2>2, <2>3, <2>4, <2>5, KnownGrows
<1>4. QED
  BY <1>1, <1>2, <1>3

\* What a path depends on, as the recursion over its calls defines it.
Beginning(path) == IF path.parameter THEN Parameter ELSE Nothing
Walks(h, path, f, t, i) ==
    h = [n \in 0..Len(path.calls) |->
            IF n = 0 THEN IF path.parameter THEN Parameter ELSE Nothing
            ELSE Called(path.calls[n], f, t, i, h[n - 1])]

\* What a path returns is found call by call.
LEMMA WalksFacts ==
    ASSUME NEW f \in Functions, NEW path \in Paths, NEW gs, Range(path.calls) \cap Functions \subseteq gs,
           NEW t, NEW i, Readable(f, gs, t, i)
    PROVE  \E h \in [0..Len(path.calls) -> Deps] :
              /\ Along(path, f, t, i) = h[Len(path.calls)]
              /\ h[0] = Beginning(path)
              /\ \A n \in 1..Len(path.calls) : h[n] = Called(path.calls[n], f, t, i, h[n - 1])
<1> DEFINE L == Len(path.calls)
           step == [n \in 1..L |-> [d \in Deps |-> Called(path.calls[n], f, t, i, d)]]
           h == CHOOSE g : Walks(g, path, f, t, i)
           H == {n \in Nat : n <= L => h[n] \in Deps}
<1>1. L \in Nat /\ path.calls \in Seq(Externals \cup Functions) /\ path.parameter \in BOOLEAN
  BY DEF Paths
<1>2. \A n \in 1..L : path.calls[n] \in Externals \cup Functions /\ path.calls[n] \in Range(path.calls)
  BY <1>1 DEF Range
<1>3. ASSUME NEW n \in 1..L, NEW d \in Deps PROVE Called(path.calls[n], f, t, i, d) \in Deps
  <2>1. path.calls[n] \in Externals \cup Functions /\ (path.calls[n] \in Functions => path.calls[n] \in gs)
    BY <1>2
  <2>2. QED
    BY <2>1, CalledGrows
<1>4. Beginning(path) \in Deps
  BY WithinOrder DEF Beginning
<1>5. step \in [1..L -> [Deps -> Deps]]
  BY <1>3
<1>6. \E g \in [0..L -> Deps] : g[0] = Beginning(path) /\ \A n \in 1..L : g[n] = step[n][g[n - 1]]
  <2> DEFINE first == Beginning(path)
  <2>1. L \in Nat /\ first \in Deps /\ step \in [1..L -> [Deps -> Deps]]
    BY <1>1, <1>4, <1>5
  <2> HIDE DEF step, L, first
  <2>2. \E g \in [0..L -> Deps] : g[0] = first /\ \A n \in 1..L : g[n] = step[n][g[n - 1]]
    BY <2>1, StepByStep
  <2>3. QED
    BY <2>2 DEF first
<1>7. PICK g \in [0..L -> Deps] : g[0] = Beginning(path) /\ \A n \in 1..L : g[n] = step[n][g[n - 1]]
  BY <1>6
<1>8. \A n \in 1..L : n - 1 \in 0..L /\ g[n - 1] \in Deps /\ g[n] = Called(path.calls[n], f, t, i, g[n - 1])
  <2>1. \A n \in 1..L : n - 1 \in 0..L /\ g[n - 1] \in Deps
    BY <1>1, <1>7
  <2>2. QED
    BY <1>7, <2>1
<1>9. Walks(g, path, f, t, i)
  <2>1. g = [n \in 0..L |-> g[n]]
    BY <1>7
  <2>2. ASSUME NEW n \in 0..L
        PROVE  g[n] = IF n = 0 THEN IF path.parameter THEN Parameter ELSE Nothing
                      ELSE Called(path.calls[n], f, t, i, g[n - 1])
    <3>1. CASE n = 0
      BY <1>7, <3>1 DEF Beginning
    <3>2. CASE n # 0
      BY <1>1, <1>8, <3>2
    <3>3. QED
      BY <3>1, <3>2
  <2>3. QED
    BY <2>1, <2>2 DEF Walks
<1>10. Walks(h, path, f, t, i)
  BY <1>9
<1>11. Along(path, f, t, i) = h[L]
  BY DEF Along, Walks
<1> HIDE DEF h
<1>12. \A n \in 0..L : h[n] = IF n = 0 THEN IF path.parameter THEN Parameter ELSE Nothing
                               ELSE Called(path.calls[n], f, t, i, h[n - 1])
  BY <1>10 DEF Walks
<1>13. h[0] = Beginning(path)
  BY <1>1, <1>12 DEF Beginning
<1>14. \A n \in 1..L : h[n] = Called(path.calls[n], f, t, i, h[n - 1])
  <2>1. \A n \in 1..L : n \in 0..L /\ n # 0
    BY <1>1
  <2>2. QED
    BY <1>12, <2>1
<1>15. \A n \in 0..L : h[n] \in Deps
  <2>1. 0 \in H
    BY <1>4, <1>13
  <2>2. ASSUME NEW n \in 1..L, n - 1 \in H PROVE n \in H
    <3>1. n \in Nat /\ n - 1 <= L
      BY <1>1
    <3>2. h[n - 1] \in Deps
      BY <2>2, <3>1
    <3>3. h[n] \in Deps
      BY <1>3, <1>14, <3>2
    <3>4. QED
      BY <3>1, <3>3
  <2> HIDE DEF H, L
  <2>3. \A n \in 0..L : n \in H
    BY <1>1, <2>1, <2>2, UpTo
  <2>4. QED
    BY <1>1, <2>3 DEF H
<1>16. h \in [0..L -> Deps]
  <2>1. h = [n \in 0..L |-> h[n]]
    BY <1>10 DEF Walks
  <2>2. QED
    BY <1>15, <2>1
<1>17. QED
  BY <1>11, <1>13, <1>14, <1>16

\* What a path returns is a dependency, with more in it for tables that have more.
LEMMA AlongGrows ==
    ASSUME NEW f \in Functions, NEW path \in Paths, NEW gs, Range(path.calls) \cap Functions \subseteq gs,
           NEW t, NEW i, NEW u, NEW j, Readable(f, gs, t, i), Readable(f, gs, u, j)
    PROVE  /\ Along(path, f, t, i) \in Deps
           /\ ReadsMore(f, gs, t, i, u, j) => Within(Along(path, f, t, i), Along(path, f, u, j))
<1> DEFINE L == Len(path.calls)
<1>0. ASSUME NEW v, NEW w, Readable(f, gs, v, w)
      PROVE  \E h \in [0..L -> Deps] :
                /\ Along(path, f, v, w) = h[L]
                /\ h[0] = Beginning(path)
                /\ \A n \in 1..L : h[n] = Called(path.calls[n], f, v, w, h[n - 1])
  BY <1>0, WalksFacts, SMTT(60)
<1>1. PICK g \in [0..L -> Deps] :
        /\ Along(path, f, t, i) = g[L]
        /\ g[0] = Beginning(path)
        /\ \A n \in 1..L : g[n] = Called(path.calls[n], f, t, i, g[n - 1])
  BY <1>0
<1>2. PICK h \in [0..L -> Deps] :
        /\ Along(path, f, u, j) = h[L]
        /\ h[0] = Beginning(path)
        /\ \A n \in 1..L : h[n] = Called(path.calls[n], f, u, j, h[n - 1])
  BY <1>0
<1>3. L \in Nat /\ path.calls \in Seq(Externals \cup Functions)
  BY DEF Paths
<1>4. \A n \in 1..L : path.calls[n] \in Externals \cup Functions /\ path.calls[n] \in Range(path.calls)
  BY <1>3 DEF Range
<1>5. L \in 0..L /\ g[L] \in Deps
  BY <1>1, <1>3
<1> DEFINE H == {n \in Nat : n <= L => Within(g[n], h[n])}
<1>6. ASSUME ReadsMore(f, gs, t, i, u, j) PROVE \A n \in 0..L : Within(g[n], h[n])
  <2>1. 0 \in H
    <3>1. Beginning(path) \in Deps
      BY WithinOrder DEF Beginning
    <3>2. QED
      BY <1>1, <1>2, <3>1, WithinOrder
  <2>2. ASSUME NEW n \in 1..L, n - 1 \in H PROVE n \in H
    <3>1. n \in Nat /\ n - 1 \in 0..L
      BY <1>3
    <3>2. Within(g[n - 1], h[n - 1]) /\ g[n - 1] \in Deps /\ h[n - 1] \in Deps
      BY <1>1, <1>2, <2>2, <3>1
    <3>3. path.calls[n] \in Externals \cup Functions /\ (path.calls[n] \in Functions => path.calls[n] \in gs)
      BY <1>4
    <3>4. Within(Called(path.calls[n], f, t, i, g[n - 1]), Called(path.calls[n], f, u, j, h[n - 1]))
      BY <1>6, <3>2, <3>3, CalledGrows
    <3>5. Within(g[n], h[n])
      BY <1>1, <1>2, <3>4
    <3>6. QED
      BY <3>1, <3>5
  <2> HIDE DEF H, L
  <2>3. \A n \in 0..L : n \in H
    BY <1>3, <2>1, <2>2, UpTo
  <2>4. QED
    BY <1>3, <2>3 DEF H
<1>7. QED
  BY <1>1, <1>2, <1>5, <1>6

\* A summary is a dependency, and misses nothing that one which reads less has.
LEMMA SummaryGrows ==
    ASSUME NEW code \in Codes, NEW f \in Functions, NEW t, NEW i, NEW u, NEW j,
           Readable(f, CalleesIn(code, f), t, i), Readable(f, CalleesIn(code, f), u, j)
    PROVE  /\ SummaryIn(code, f, t, i) \in Deps
           /\ ReadsMore(f, CalleesIn(code, f), t, i, u, j) =>
                  Within(SummaryIn(code, f, t, i), SummaryIn(code, f, u, j))
<1> DEFINE gs == CalleesIn(code, f)
           ds == {Along(path, f, t, i) : path \in code[f]}
           es == {Along(path, f, u, j) : path \in code[f]}
<1>1. code[f] \in SUBSET Paths /\ IsFiniteSet(code[f])
  BY CodesAssumption
<1>2. ASSUME NEW path \in code[f] PROVE path \in Paths /\ Range(path.calls) \cap Functions \subseteq gs
  BY <1>1 DEF CalleesIn
<1>3. ds \in SUBSET Deps /\ es \in SUBSET Deps
  <2> HIDE DEF gs
  <2>1. Readable(f, gs, t, i) /\ Readable(f, gs, u, j)
    BY DEF gs
  <2>2. ASSUME NEW path \in code[f] PROVE Along(path, f, t, i) \in Deps /\ Along(path, f, u, j) \in Deps
    BY <1>2, <2>1, AlongGrows
  <2>3. QED
    BY <2>2
<1>4. IsFiniteSet(ds) /\ IsFiniteSet(es)
  <2> DEFINE F == [path \in code[f] |-> Along(path, f, t, i)]
             G == [path \in code[f] |-> Along(path, f, u, j)]
  <2>1. F \in Surjection(code[f], ds) /\ G \in Surjection(code[f], es)
    BY DEF Surjection
  <2>2. QED
    BY <1>1, <2>1, FS_Surjection
<1>5. SummaryIn(code, f, t, i) = Join(ds) /\ SummaryIn(code, f, u, j) = Join(es)
  <2>1. SummaryIn(code, f, t, i) = FoldSet(Or, Nothing, ds) /\ SummaryIn(code, f, u, j) = FoldSet(Or, Nothing, es)
    BY DEF SummaryIn
  <2> HIDE DEF ds, es
  <2>2. QED
    BY <1>3, <1>4, <2>1, FoldIsJoin
<1>6. ASSUME ReadsMore(f, gs, t, i, u, j) PROVE \A d \in ds : \E e \in es : Within(d, e)
  <2>1. ASSUME NEW path \in code[f] PROVE Within(Along(path, f, t, i), Along(path, f, u, j))
    <3> HIDE DEF gs
    <3>1. Readable(f, gs, t, i) /\ Readable(f, gs, u, j)
      BY DEF gs
    <3>2. QED
      BY <1>2, <1>6, <3>1, AlongGrows
  <2>2. QED
    BY <2>1
<1> HIDE DEF ds, es
<1>7. Join(ds) \in Deps
  BY <1>3, JoinFacts
<1>8. ReadsMore(f, gs, t, i, u, j) => Within(Join(ds), Join(es))
  BY <1>3, <1>6, JoinGrows
<1>9. QED
  BY <1>5, <1>7, <1>8

-----------------------------------------------------------------------------
(* The least summaries.                                                    *)

\* Tables of all functions.
Tables == {t \in [Functions -> Deps] : \A f \in Unsupported : t[f] = Parameter}
Lower(t, u) == \A f \in Functions : Within(t[f], u[f])
Round(code, t) == Updated(t, [f \in Functions \ Unsupported |-> SummaryIn(code, f, t, t)])
RoundsOf(code, g) ==
    g = [n \in 0..Rounds |->
            IF n = 0 THEN Seeds(Modules)
            ELSE LET before == g[n - 1]
                     next == Updated(before, [f \in Functions \ Unsupported |-> SummaryIn(code, f, before, before)])
                 IN  IF next = before THEN before ELSE next]
LeastIn(code) == (CHOOSE g : RoundsOf(code, g))[Rounds]

\* The least summaries are those of the bodies.
LEMMA LeastIs == Least = LeastIn(bodies)
BY DEF Least, LeastIn, RoundsOf, Summary, SummaryIn

\* A table of all functions has all that any of them reads.
LEMMA TablesRead ==
    ASSUME NEW code \in Codes, NEW f \in Functions, NEW t \in Tables, NEW u \in Tables
    PROVE  /\ Readable(f, CalleesIn(code, f), t, t)
           /\ Lower(t, u) => ReadsMore(f, CalleesIn(code, f), t, t, u, u)
<1>1. CalleesIn(code, f) \subseteq Functions
  BY DEF CalleesIn
<1>2. \A g \in Functions : t[g] \in Deps /\ Read(f, g, t, t) = t[g] /\ Read(f, g, u, u) = u[g]
  BY DEF Read, Tables
<1>3. DOMAIN t = Functions
  BY DEF Tables
<1>4. QED
  BY <1>1, <1>2, <1>3 DEF Readable, ReadsMore, Lower

\* A round makes a table of a table, with more in it for one that has more.
LEMMA RoundFacts ==
    ASSUME NEW code \in Codes, NEW t \in Tables, NEW u \in Tables
    PROVE  /\ Round(code, t) \in Tables
           /\ \A f \in Functions \ Unsupported : Round(code, t)[f] = SummaryIn(code, f, t, t)
           /\ Lower(t, u) => Lower(Round(code, t), Round(code, u))
<1>1. ASSUME NEW w \in Tables
      PROVE  /\ Round(code, w) = [f \in Functions |-> IF f \in Unsupported THEN Parameter ELSE SummaryIn(code, f, w, w)]
  <2>1. DOMAIN w = Functions /\ \A f \in Unsupported : w[f] = Parameter
    BY DEF Tables
  <2>2. Unsupported \subseteq Functions
    BY FixpointAssumption
  <2> DEFINE h == [f \in Functions \ Unsupported |-> SummaryIn(code, f, w, w)]
  <2>3. DOMAIN h = Functions \ Unsupported
    OBVIOUS
  <2>4. Updated(w, h) = [f \in Functions |-> IF f \in Functions \ Unsupported THEN h[f] ELSE w[f]]
    BY <2>1, <2>3 DEF Updated
  <2>5. QED
    BY <2>1, <2>2, <2>4 DEF Round
<1>2. ASSUME NEW f \in Functions
      PROVE  /\ SummaryIn(code, f, t, t) \in Deps
             /\ Lower(t, u) => Within(SummaryIn(code, f, t, t), SummaryIn(code, f, u, u))
  BY TablesRead, SummaryGrows
<1>3. Round(code, t) \in Tables
  <2>1. Unsupported \subseteq Functions /\ Parameter \in Deps
    BY FixpointAssumption, WithinOrder
  <2>2. QED
    BY <1>1, <1>2, <2>1 DEF Tables
<1>4. ASSUME Lower(t, u), NEW f \in Functions PROVE Within(Round(code, t)[f], Round(code, u)[f])
  <2>1. CASE f \in Unsupported
    BY <1>1, <2>1, WithinOrder
  <2>2. CASE f \notin Unsupported
    BY <1>1, <1>2, <1>4, <2>2
  <2>3. QED
    BY <2>1, <2>2
<1>5. \A f \in Functions \ Unsupported : Round(code, t)[f] = SummaryIn(code, f, t, t)
  BY <1>1
<1>6. QED
  BY <1>3, <1>4, <1>5 DEF Lower

\* The summaries everything starts from are a table below all the others.
LEMMA SeedsFacts ==
    /\ Seeds(Modules) \in Tables
    /\ \A t \in Tables : Lower(Seeds(Modules), t)
<1>1. FunctionsOf(Modules) = Functions
  BY FixpointAssumption DEF FunctionsOf
<1>2. Seeds(Modules) = [f \in Functions |-> IF f \in Unsupported THEN Parameter ELSE Nothing]
  BY <1>1 DEF Seeds, Starting
<1>3. Unsupported \subseteq Functions
  BY FixpointAssumption
<1>4. Seeds(Modules) \in Tables
  BY <1>2, <1>3, WithinOrder DEF Tables
<1>5. ASSUME NEW t \in Tables, NEW f \in Functions PROVE Within(Seeds(Modules)[f], t[f])
  <2>1. t[f] \in Deps /\ (f \in Unsupported => t[f] = Parameter)
    BY DEF Tables
  <2>2. QED
    BY <1>2, <2>1, WithinOrder
<1>6. QED
  BY <1>4, <1>5 DEF Lower

\* What a table has, one by one: these are at most as many as the rounds.
Slots == ({"parameter"} \X {"parameter"}) \cup ({"kind"} \X Kinds) \cup ({"symbol"} \X Externals)
Has(d, s) ==
    \/ s[1] = "parameter" /\ d.parameter
    \/ s[1] = "kind" /\ d.parameter /\ s[2] \notin d.cleared
    \/ s[1] = "symbol" /\ s[2] \in d.externals
Entries(t) == {v \in Functions \X Slots : Has(t[v[1]], v[2])}

\* There are at most as many entries as rounds.
LEMMA SlotsFacts ==
    /\ IsFiniteSet(Functions \X Slots)
    /\ Rounds \in Nat /\ Cardinality(Functions \X Slots) <= Rounds
<1> DEFINE A == {"parameter"} \X {"parameter"}
           B == {"kind"} \X Kinds
           C == {"symbol"} \X Externals
<1>1. IsFiniteSet(Kinds) /\ IsFiniteSet(Externals) /\ IsFiniteSet(Functions)
  BY FixpointAssumption
<1>2. \A x : IsFiniteSet({x}) /\ Cardinality({x}) = 1
  BY FS_Singleton
<1>0. ASSUME NEW x, NEW S, IsFiniteSet(S) PROVE IsFiniteSet({x} \X S) /\ Cardinality({x} \X S) = Cardinality(S)
  <2> DEFINE X == {x}
  <2>1. IsFiniteSet(X) /\ Cardinality(X) = 1
    BY <1>2
  <2> HIDE DEF X
  <2>2. IsFiniteSet(X \X S) /\ Cardinality(X \X S) = Cardinality(X) * Cardinality(S)
    BY <1>0, <2>1, FS_Product
  <2>3. Cardinality(S) \in Nat
    BY <1>0, FS_CardinalityType
  <2>4. Cardinality(X \X S) = Cardinality(S)
    BY <2>1, <2>2, <2>3
  <2>5. QED
    BY <2>2, <2>4 DEF X
<1>3. IsFiniteSet(A) /\ Cardinality(A) = 1
  <2> DEFINE X == {"parameter"}
  <2>1. IsFiniteSet(X) /\ Cardinality(X) = 1
    BY <1>2
  <2> HIDE DEF X
  <2>2. IsFiniteSet({"parameter"} \X X) /\ Cardinality({"parameter"} \X X) = Cardinality(X)
    BY <1>0, <2>1
  <2>3. QED
    BY <2>1, <2>2 DEF X
<1>4. IsFiniteSet(B) /\ Cardinality(B) = Cardinality(Kinds)
  BY <1>0, <1>1
<1>5. IsFiniteSet(C) /\ Cardinality(C) = Cardinality(Externals)
  BY <1>0, <1>1
<1>6. A \cap B = {} /\ (A \cup B) \cap C = {}
  BY Zenon
<1>7. Slots = (A \cup B) \cup C
  BY DEF Slots
<1>8. Cardinality(Kinds) \in Nat /\ Cardinality(Externals) \in Nat /\ Cardinality(Functions) \in Nat
  BY <1>1, FS_CardinalityType
<1> HIDE DEF A, B, C
<1>9. IsFiniteSet(A \cup B) /\ Cardinality(A \cup B) = Cardinality(A) + Cardinality(B) - Cardinality(A \cap B)
  BY <1>3, <1>4, FS_Union
<1>10. /\ IsFiniteSet((A \cup B) \cup C)
       /\ Cardinality((A \cup B) \cup C) = Cardinality(A \cup B) + Cardinality(C) - Cardinality((A \cup B) \cap C)
  BY <1>5, <1>9, FS_Union
<1>11. Cardinality({}) = 0
  BY FS_EmptySet
<1>12. IsFiniteSet(Slots) /\ Cardinality(Slots) = 1 + Cardinality(Kinds) + Cardinality(Externals)
  <2>1. Cardinality(A \cap B) = 0 /\ Cardinality((A \cup B) \cap C) = 0
    BY <1>6, <1>11
  <2>2. Cardinality(A \cup B) = 1 + Cardinality(Kinds)
    BY <1>3, <1>4, <1>8, <1>9, <2>1
  <2>3. Cardinality((A \cup B) \cup C) = 1 + Cardinality(Kinds) + Cardinality(Externals)
    BY <1>5, <1>8, <1>10, <2>1, <2>2
  <2>4. QED
    BY <1>7, <1>10, <2>3
<1>13. IsFiniteSet(Functions \X Slots) /\ Cardinality(Functions \X Slots) = Cardinality(Functions) * Cardinality(Slots)
  BY <1>1, <1>12, FS_Product
<1>14. Cardinality(Functions \X Slots) = Rounds
  BY <1>12, <1>13 DEF Rounds
<1>15. Rounds \in Nat
  BY <1>13, <1>14, FS_CardinalityType
<1>16. QED
  BY <1>13, <1>14, <1>15

\* A table is below another when its entries are among the other's.
LEMMA EntriesFacts ==
    ASSUME NEW t \in Tables, NEW u \in Tables
    PROVE  /\ Lower(t, u) => Entries(t) \subseteq Entries(u)
           /\ Entries(t) \subseteq Entries(u) => Lower(t, u)
<1>1. ASSUME NEW d \in Deps, NEW e \in Deps, Within(d, e), NEW s \in Slots, Has(d, s) PROVE Has(e, s)
  BY <1>1 DEF Within, Has
<1>2. ASSUME NEW d \in Deps, NEW e \in Deps, \A s \in Slots : Has(d, s) => Has(e, s) PROVE Within(d, e)
  <2>1. d.parameter => e.parameter
    <3>1. <<"parameter", "parameter">> \in Slots
      BY DEF Slots
    <3>2. \A x \in Deps : Has(x, <<"parameter", "parameter">>) <=> x.parameter
      BY DEF Has
    <3>3. QED
      BY <1>2, <3>1, <3>2
  <2>2. ASSUME d.parameter, NEW k \in e.cleared PROVE k \in d.cleared
    <3>1. k \in Kinds
      BY DEF Deps
    <3>2. <<"kind", k>> \in Slots
      BY <3>1 DEF Slots
    <3>3. \A x \in Deps : Has(x, <<"kind", k>>) <=> (x.parameter /\ k \notin x.cleared)
      BY DEF Has
    <3>4. QED
      BY <1>2, <2>2, <3>2, <3>3
  <2>3. ASSUME NEW x \in d.externals PROVE x \in e.externals
    <3>1. x \in Externals
      BY DEF Deps
    <3>2. <<"symbol", x>> \in Slots
      BY <3>1 DEF Slots
    <3>3. \A y \in Deps : Has(y, <<"symbol", x>>) <=> x \in y.externals
      BY DEF Has
    <3>4. QED
      BY <1>2, <2>3, <3>2, <3>3
  <2>4. QED
    BY <2>1, <2>2, <2>3 DEF Within
<1>3. \A f \in Functions : t[f] \in Deps /\ u[f] \in Deps
  BY DEF Tables
<1>4. ASSUME Lower(t, u), NEW v \in Entries(t) PROVE v \in Entries(u)
  <2>1. v \in Functions \X Slots /\ v[1] \in Functions /\ v[2] \in Slots /\ Has(t[v[1]], v[2])
    BY DEF Entries
  <2>2. Has(u[v[1]], v[2])
    BY <1>1, <1>3, <1>4, <2>1 DEF Lower
  <2>3. QED
    BY <2>1, <2>2 DEF Entries
<1>5. ASSUME Entries(t) \subseteq Entries(u), NEW f \in Functions PROVE Within(t[f], u[f])
  <2>1. ASSUME NEW s \in Slots, Has(t[f], s) PROVE Has(u[f], s)
    <3>1. <<f, s>> \in Functions \X Slots /\ <<f, s>>[1] = f /\ <<f, s>>[2] = s
      OBVIOUS
    <3>2. <<f, s>> \in Entries(t)
      BY <2>1, <3>1 DEF Entries
    <3>3. <<f, s>> \in Entries(u)
      BY <1>5, <3>2
    <3>4. QED
      BY <3>1, <3>3 DEF Entries
  <2>2. QED
    BY <1>2, <1>3, <2>1
<1>6. QED
  BY <1>4, <1>5 DEF Lower

\* Least is a table that agrees with the code, found by rounds from nothing.
LEMMA LeastFacts ==
    ASSUME NEW code \in Codes
    PROVE  /\ LeastIn(code) \in Tables
           /\ Round(code, LeastIn(code)) = LeastIn(code)
           /\ \E g \in [0..Rounds -> Tables] :
                 /\ g[0] = Seeds(Modules) /\ LeastIn(code) = g[Rounds]
                 /\ \A n \in 1..Rounds : g[n] = Round(code, g[n - 1])
<1> DEFINE N == Rounds
           g == CHOOSE h : RoundsOf(code, h)
           step == [n \in 1..N |-> [t \in Tables |-> Round(code, t)]]
           H == {n \in Nat : n <= N => g[n] \in Tables}
<1>1. N \in Nat
  BY SlotsFacts
<1>2. \A t \in Tables : Round(code, t) \in Tables
  BY RoundFacts
<1>3. \E h \in [0..N -> Tables] : h[0] = Seeds(Modules) /\ \A n \in 1..N : h[n] = step[n][h[n - 1]]
  <2>1. step \in [1..N -> [Tables -> Tables]]
    BY <1>2
  <2> HIDE DEF step, N
  <2>2. QED
    BY <1>1, <2>1, SeedsFacts, StepByStep
<1>4. PICK h \in [0..N -> Tables] : h[0] = Seeds(Modules) /\ \A n \in 1..N : h[n] = step[n][h[n - 1]]
  BY <1>3
<1>5. \A n \in 1..N : n - 1 \in 0..N /\ h[n - 1] \in Tables
  BY <1>1, <1>4
<1>6. \A w : RoundsOf(code, w) <=> w = [n \in 0..N |-> IF n = 0 THEN Seeds(Modules) ELSE Round(code, w[n - 1])]
  BY DEF RoundsOf, Round
<1>7. RoundsOf(code, h)
  <2>1. h = [n \in 0..N |-> h[n]]
    BY <1>4
  <2>2. ASSUME NEW n \in 0..N PROVE h[n] = IF n = 0 THEN Seeds(Modules) ELSE Round(code, h[n - 1])
    <3>1. CASE n = 0
      BY <1>4, <3>1
    <3>2. CASE n # 0
      <4>1. n \in 1..N
        BY <1>1, <3>2
      <4>2. QED
        BY <1>4, <1>5, <3>2, <4>1
    <3>3. QED
      BY <3>1, <3>2
  <2> HIDE DEF N
  <2>3. h = [n \in 0..N |-> IF n = 0 THEN Seeds(Modules) ELSE Round(code, h[n - 1])]
    BY <2>1, <2>2
  <2>4. QED
    BY <1>6, <2>3
<1>8. RoundsOf(code, g)
  BY <1>7
<1>9. LeastIn(code) = g[N]
  BY DEF LeastIn
<1> HIDE DEF g
<1>10. g = [n \in 0..N |-> IF n = 0 THEN Seeds(Modules) ELSE Round(code, g[n - 1])]
  BY <1>6, <1>8
<1>11. g[0] = Seeds(Modules)
  BY <1>1, <1>10
<1>12. \A n \in 1..N : g[n] = Round(code, g[n - 1])
  <2>1. \A n \in 1..N : n \in 0..N /\ n # 0
    BY <1>1
  <2>2. QED
    BY <1>10, <2>1
<1>13. \A n \in 0..N : g[n] \in Tables
  <2>1. 0 \in H
    BY <1>11, SeedsFacts
  <2>2. ASSUME NEW n \in 1..N, n - 1 \in H PROVE n \in H
    <3>1. n \in Nat /\ g[n - 1] \in Tables
      BY <1>1, <2>2
    <3>2. g[n] \in Tables
      BY <1>2, <1>12, <3>1
    <3>3. QED
      BY <3>1, <3>2
  <2> HIDE DEF H, N
  <2>3. \A n \in 0..N : n \in H
    BY <1>1, <2>1, <2>2, UpTo
  <2>4. QED
    BY <1>1, <2>3 DEF H
<1>14. g \in [0..N -> Tables]
  <2>1. g = [n \in 0..N |-> g[n]]
    BY <1>10
  <2>2. QED
    BY <1>13, <2>1
<1>15. Round(code, g[N]) = g[N]
  <2> HIDE DEF N
  <2> DEFINE f == [n \in 0..(N + 1) |-> IF n = N + 1 THEN Round(code, g[N]) ELSE g[n]]
             G == {n \in Nat : n <= N => Lower(f[n], f[n + 1])}
  <2>1. N \in 0..N /\ g[N] \in Tables
    BY <1>1, <1>14
  <2>2. f \in [0..(N + 1) -> Tables]
    <3>1. ASSUME NEW n \in 0..(N + 1) PROVE f[n] \in Tables
      BY <1>1, <1>2, <1>13, <2>1
    <3>2. QED
      BY <3>1
  <2>3. f[0] = Seeds(Modules)
    BY <1>1, <1>11
  <2>4. ASSUME NEW n \in 1..(N + 1) PROVE f[n] = Round(code, f[n - 1])
    <3>1. n - 1 \in 0..(N + 1) /\ n - 1 # N + 1 /\ f[n - 1] = g[n - 1]
      BY <1>1
    <3>2. CASE n = N + 1
      BY <1>1, <3>1, <3>2
    <3>3. CASE n # N + 1
      BY <1>1, <1>12, <3>1, <3>3
    <3>4. QED
      BY <3>2, <3>3
  <2>5. f[N] = g[N] /\ f[N + 1] = Round(code, g[N])
    BY <1>1
  <2> HIDE DEF f
  <2>6. \A n \in 0..N : Lower(f[n], f[n + 1])
    <3>1. 0 \in G
      <4>1. f[1] \in Tables
        BY <1>1, <2>2
      <4>2. QED
        BY <2>3, <4>1, SeedsFacts
    <3>2. ASSUME NEW n \in 1..N, n - 1 \in G PROVE n \in G
      <4>1. n \in Nat /\ n \in 1..(N + 1) /\ n + 1 \in 1..(N + 1) /\ n - 1 <= N /\ (n - 1) + 1 = n /\ (n + 1) - 1 = n
        BY <1>1
      <4>2. Lower(f[n - 1], f[n])
        BY <3>2, <4>1
      <4>3. f[n] = Round(code, f[n - 1]) /\ f[n + 1] = Round(code, f[n])
        BY <2>4, <4>1
      <4>4. f[n - 1] \in Tables /\ f[n] \in Tables
        BY <1>1, <2>2
      <4>5. Lower(f[n], f[n + 1])
        BY <4>2, <4>3, <4>4, RoundFacts
      <4>6. QED
        BY <4>1, <4>5
    <3> HIDE DEF G
    <3>3. \A n \in 0..N : n \in G
      BY <1>1, <3>1, <3>2, UpTo
    <3>4. QED
      BY <1>1, <3>3 DEF G
  <2> DEFINE v == [n \in 0..(N + 1) |-> Entries(f[n])]
             V == Functions \X Slots
  <2>7. v \in [0..(N + 1) -> SUBSET V]
    BY DEF Entries
  <2>8. \A n \in 1..(N + 1) : v[n - 1] \subseteq v[n]
    <3>1. ASSUME NEW n \in 1..(N + 1) PROVE Entries(f[n - 1]) \subseteq Entries(f[n])
      <4>1. n - 1 \in 0..N /\ n - 1 \in 0..(N + 1) /\ (n - 1) + 1 = n
        BY <1>1
      <4>2. Lower(f[n - 1], f[n])
        BY <2>6, <4>1
      <4>3. f[n - 1] \in Tables /\ f[n] \in Tables
        BY <2>2, <4>1
      <4>4. QED
        BY <4>2, <4>3, EntriesFacts
    <3>2. QED
      BY <1>1, <3>1
  <2>9. \E n \in 1..(N + 1) : v[n] = v[n - 1]
    <3>1. IsFiniteSet(V) /\ Cardinality(V) <= N
      BY SlotsFacts DEF N
    <3> HIDE DEF v, V
    <3>2. QED
      BY <1>1, <2>7, <2>8, <3>1, GrowthStops
  <2>10. PICK k \in 1..(N + 1) : v[k] = v[k - 1]
    BY <2>9
  <2>11. f[k] = f[k - 1]
    <3>1. k - 1 \in 0..(N + 1)
      BY <1>1
    <3>2. Entries(f[k]) = Entries(f[k - 1])
      BY <2>10, <3>1
    <3>3. f[k] \in Tables /\ f[k - 1] \in Tables
      BY <2>2, <3>1
    <3>4. Lower(f[k], f[k - 1]) /\ Lower(f[k - 1], f[k])
      BY <3>2, <3>3, EntriesFacts
    <3>5. \A x \in Functions : f[k][x] = f[k - 1][x]
      BY <3>3, <3>4, WithinOrder DEF Lower, Tables
    <3> DEFINE a == f[k]
               b == f[k - 1]
    <3>6. a \in [Functions -> Deps] /\ b \in [Functions -> Deps] /\ \A x \in Functions : a[x] = b[x]
      BY <3>3, <3>5 DEF Tables
    <3> HIDE DEF a, b
    <3>7. a = b
      BY <3>6
    <3>8. QED
      BY <3>7 DEF a, b
  <2> DEFINE K == {n \in Nat : k <= n /\ n <= N + 1 => f[n] = f[n - 1]}
  <2>12. 0 \in K
    BY <1>1
  <2>13. ASSUME NEW n \in 1..(N + 1), n - 1 \in K PROVE n \in K
    <3>1. CASE n < k
      BY <1>1, <3>1
    <3>2. CASE n = k
      BY <1>1, <2>11, <3>2
    <3>3. CASE k < n
      <4>1. n - 1 \in 1..(N + 1) /\ k <= n - 1
        BY <1>1, <3>3
      <4>2. f[n - 1] = f[(n - 1) - 1]
        BY <1>1, <2>13, <4>1
      <4>3. f[n] = Round(code, f[n - 1]) /\ f[n - 1] = Round(code, f[(n - 1) - 1])
        BY <2>4, <4>1
      <4>4. f[n] = f[n - 1]
        BY <4>2, <4>3
      <4>5. n \in Nat
        BY <1>1
      <4>6. QED
        BY <4>4, <4>5
    <3>4. k \in Nat /\ n \in Nat
      BY <1>1
    <3>5. QED
      BY <3>1, <3>2, <3>3, <3>4
  <2>14. N + 1 \in K
    <3>1. N + 1 \in Nat
      BY <1>1
    <3> HIDE DEF K
    <3>2. \A n \in 0..(N + 1) : n \in K
      BY <2>12, <2>13, <3>1, UpTo
    <3>3. QED
      BY <3>1, <3>2
  <2>15. f[N + 1] = f[N]
    BY <1>1, <2>14
  <2>16. QED
    BY <2>5, <2>15
<1>16. QED
  <2>1. N \in 0..N
    BY <1>1
  <2>2. QED
    BY <1>9, <1>11, <1>12, <1>14, <1>15, <2>1

\* A table of some functions that agrees with the code where it is not already least has
\* all that the least one has.
LEMMA LeastIsWithin ==
    ASSUME NEW code \in Codes, NEW t, DOMAIN t \subseteq Functions, \A f \in DOMAIN t : t[f] \in Deps,
           \A f \in DOMAIN t :
              \/ Within(LeastIn(code)[f], t[f])
              \/ f \in Unsupported /\ t[f] = Parameter
              \/ f \notin Unsupported /\ CalleesIn(code, f) \subseteq DOMAIN t /\ t[f] = SummaryIn(code, f, t, t)
    PROVE  \A f \in DOMAIN t : Within(LeastIn(code)[f], t[f])
<1> DEFINE N == Rounds
<1>1. PICK g \in [0..N -> Tables] :
        /\ g[0] = Seeds(Modules) /\ LeastIn(code) = g[N]
        /\ \A n \in 1..N : g[n] = Round(code, g[n - 1])
  BY LeastFacts
<1>2. N \in Nat
  BY SlotsFacts
<1> HIDE DEF N
<1> DEFINE H == {n \in Nat : n <= N => Lower(g[n], LeastIn(code))}
           K == {n \in Nat : n <= N => \A f \in DOMAIN t : Within(g[n][f], t[f])}
<1>3. LeastIn(code) \in Tables /\ Round(code, LeastIn(code)) = LeastIn(code)
  BY LeastFacts
<1>4. \A n \in 1..N : n \in Nat /\ n - 1 \in 0..N /\ n - 1 <= N /\ g[n - 1] \in Tables /\ g[n] \in Tables /\ g[n] = Round(code, g[n - 1])
  BY <1>1, <1>2
<1>5. \A n \in 0..N : Lower(g[n], LeastIn(code))
  <2>1. 0 \in H
    BY <1>1, <1>3, SeedsFacts
  <2>2. ASSUME NEW n \in 1..N, n - 1 \in H PROVE n \in H
    <3>1. Lower(g[n - 1], LeastIn(code))
      BY <1>4, <2>2
    <3>2. Lower(Round(code, g[n - 1]), Round(code, LeastIn(code)))
      BY <1>3, <1>4, <3>1, RoundFacts
    <3>3. QED
      BY <1>3, <1>4, <3>2
  <2> HIDE DEF H
  <2>3. \A n \in 0..N : n \in H
    BY <1>2, <2>1, <2>2, UpTo
  <2>4. QED
    BY <1>2, <2>3 DEF H
<1>6. \A n \in 0..N, f \in Functions : g[n][f] \in Deps /\ LeastIn(code)[f] \in Deps
  BY <1>1, <1>3 DEF Tables
<1>7. ASSUME NEW n \in 0..N, NEW f \in DOMAIN t, Within(LeastIn(code)[f], t[f]) PROVE Within(g[n][f], t[f])
  BY <1>5, <1>6, <1>7, WithinOrder DEF Lower
<1>8. ASSUME NEW n \in 0..N, NEW f \in DOMAIN t, f \in Unsupported PROVE g[n][f] = Parameter
  BY <1>1, <1>8 DEF Tables
<1>9. 0 \in K
  <2>1. ASSUME NEW f \in DOMAIN t PROVE Within(g[0][f], t[f])
    <3>1. CASE f \in Unsupported /\ t[f] = Parameter
      BY <1>2, <1>8, <3>1, WithinOrder
    <3>2. CASE f \notin Unsupported
      <4>1. g[0][f] = Nothing
        <5>1. f \in FunctionsOf(Modules)
          BY FixpointAssumption DEF FunctionsOf
        <5>2. QED
          BY <1>1, <3>2, <5>1 DEF Seeds, Starting
      <4>2. QED
        BY <4>1, WithinOrder
    <3>3. CASE Within(LeastIn(code)[f], t[f])
      BY <1>2, <1>7, <3>3
    <3>4. QED
      BY <3>1, <3>2, <3>3
  <2>2. QED
    BY <2>1
<1>10. ASSUME NEW n \in 1..N, n - 1 \in K PROVE n \in K
  <2>1. n \in 0..N /\ \A f \in DOMAIN t : Within(g[n - 1][f], t[f])
    BY <1>4, <1>10
  <2>2. ASSUME NEW f \in DOMAIN t PROVE Within(g[n][f], t[f])
    <3>1. CASE f \in Unsupported /\ t[f] = Parameter
      BY <1>8, <2>1, <3>1, WithinOrder
    <3>2. CASE Within(LeastIn(code)[f], t[f])
      BY <1>7, <2>1, <3>2
    <3>3. CASE f \notin Unsupported /\ CalleesIn(code, f) \subseteq DOMAIN t /\ t[f] = SummaryIn(code, f, t, t)
      <4> DEFINE b == g[n - 1]
      <4>1. b \in Tables /\ f \in Functions
        BY <1>4
      <4>2. g[n][f] = SummaryIn(code, f, b, b)
        BY <1>4, <3>3, <4>1, RoundFacts
      <4>3. \A x \in DOMAIN t : Within(b[x], t[x])
        BY <2>1
      <4> HIDE DEF b
      <4>4. Readable(f, CalleesIn(code, f), b, b)
        BY <4>1, TablesRead
      <4>5. Readable(f, CalleesIn(code, f), t, t)
        BY <3>3 DEF Readable, Read
      <4>6. ReadsMore(f, CalleesIn(code, f), b, b, t, t)
        BY <3>3, <4>3 DEF ReadsMore, Read
      <4>7. Within(SummaryIn(code, f, b, b), SummaryIn(code, f, t, t))
        BY <4>1, <4>4, <4>5, <4>6, SummaryGrows
      <4>8. QED
        BY <3>3, <4>2, <4>7
    <3>4. QED
      BY <3>1, <3>2, <3>3
  <2>3. QED
    BY <1>4, <2>2
<1>11. N \in K
  <2>1. N \in 0..N
    BY <1>2
  <2> HIDE DEF K
  <2>2. \A n \in 0..N : n \in K
    BY <1>2, <1>9, <1>10, UpTo
  <2>3. QED
    BY <2>1, <2>2
<1>12. QED
  BY <1>1, <1>2, <1>11

-----------------------------------------------------------------------------
(* The inductive invariant of the iteration.                               *)

ImportedIn(code, m) == {ModuleOf[g] : g \in UNION {CalleesIn(code, f) : f \in FunctionsOf({m})}} \ {m}
Coded == bodies \in Codes /\ imports = [m \in Modules |-> ImportedIn(bodies, m)]

\* What is kept is least, and nothing is before the search is over.
Final ==
    /\ DOMAIN final \subseteq Functions
    /\ \A f \in DOMAIN final : final[f] = LeastIn(bodies)[f]
    /\ members # {} \/ DOMAIN final # {} => Schedule!Done

\* The index knows all that the members call, and is least for the other modules.
Indexed(code, ms, i) ==
    /\ FunctionsOf(ms) \subseteq DOMAIN i /\ DOMAIN i \subseteq Functions
    /\ \A f \in FunctionsOf(ms) : CalleesIn(code, f) \subseteq DOMAIN i
    /\ \A f \in DOMAIN i : i[f] \in Deps /\ Within(i[f], LeastIn(code)[f])
    /\ \A f \in DOMAIN i \ FunctionsOf(ms) : i[f] = LeastIn(code)[f]
    /\ \A f \in FunctionsOf(ms) \cap Unsupported : i[f] = Parameter

\* Tables have nothing that the least summaries have not.
Tabled(code, ms, t) ==
    /\ DOMAIN t = FunctionsOf(ms)
    /\ \A f \in FunctionsOf(ms) : t[f] \in Deps /\ Within(t[f], LeastIn(code)[f])
    /\ \A f \in FunctionsOf(ms) \cap Unsupported : t[f] = Parameter

Settles(code, f, t, i) == t[f] = SummaryIn(code, f, t, i)

\* The tables of the modules before the current one agree with the code and the index,
\* and so does what an unchanged round has summarized of this one; in the end the index
\* agrees with itself.
Progress ==
    /\ members \subseteq Modules /\ module \in members
    /\ left \subseteq Supported(module)
    /\ ~changed => \A f \in Supported(module) \ left : Settles(bodies, f, table, index)
    /\ \A m \in members : m < module => \A f \in Supported(m) : Settles(bodies, f, table, index)
    /\ settled => \A f \in FunctionsOf(members) \ Unsupported : Settles(bodies, f, index, index)

Iterated == members # {} => Indexed(bodies, members, index) /\ Tabled(bodies, members, table) /\ Progress

SettleInv == SearchInv /\ Coded /\ Final /\ Iterated

-----------------------------------------------------------------------------
(* What the members read.                                                  *)

\* What the members read is there, and what they compute of it is within the least summaries.
LEMMA ReadsFacts ==
    ASSUME NEW code \in Codes, NEW ms, NEW t, NEW i, Indexed(code, ms, i), Tabled(code, ms, t),
           NEW f \in FunctionsOf(ms)
    PROVE  /\ f \in Functions
           /\ Readable(f, CalleesIn(code, f), t, i)
           /\ SummaryIn(code, f, t, i) \in Deps
           /\ f \notin Unsupported => Within(SummaryIn(code, f, t, i), LeastIn(code)[f])
<1> DEFINE L == LeastIn(code)
           gs == CalleesIn(code, f)
<1>1. L \in Tables /\ Round(code, L) = L
  BY LeastFacts
<1>2. f \in Functions /\ gs \subseteq DOMAIN i /\ gs \subseteq Functions
  BY DEF Indexed, FunctionsOf, CalleesIn
<1>3. ASSUME NEW g \in gs PROVE Read(f, g, t, i) \in Deps /\ Within(Read(f, g, t, i), L[g])
  <2>1. CASE ModuleOf[g] = ModuleOf[f]
    <3>1. g \in FunctionsOf(ms)
      BY <1>2, <2>1 DEF FunctionsOf
    <3>2. QED
      BY <2>1, <3>1 DEF Tabled, Read
  <2>2. CASE ModuleOf[g] # ModuleOf[f]
    BY <1>2, <2>2 DEF Indexed, Read
  <2>3. QED
    BY <2>1, <2>2
<1> HIDE DEF L
<1>4. Readable(f, gs, t, i)
  BY <1>2, <1>3 DEF Readable
<1>5. Readable(f, gs, L, L)
  BY <1>1, <1>2, TablesRead
<1>6. ReadsMore(f, gs, t, i, L, L)
  BY <1>2, <1>3 DEF ReadsMore, Read
<1>7. SummaryIn(code, f, t, i) \in Deps /\ Within(SummaryIn(code, f, t, i), SummaryIn(code, f, L, L))
  BY <1>2, <1>4, <1>5, <1>6, SummaryGrows
<1>8. f \notin Unsupported => L[f] = SummaryIn(code, f, L, L)
  BY <1>1, <1>2, RoundFacts
<1>9. QED
  BY <1>2, <1>4, <1>7, <1>8 DEF L

\* What reads the same is the same.
LEMMA SameReads ==
    ASSUME NEW code \in Codes, NEW f \in Functions, NEW t, NEW i, NEW u, NEW j,
           Readable(f, CalleesIn(code, f), t, i), Readable(f, CalleesIn(code, f), u, j),
           \A g \in CalleesIn(code, f) \ Unsupported : Read(f, g, t, i) = Read(f, g, u, j)
    PROVE  SummaryIn(code, f, t, i) = SummaryIn(code, f, u, j)
<1> DEFINE gs == CalleesIn(code, f)
<1>1. ReadsMore(f, gs, t, i, u, j) /\ ReadsMore(f, gs, u, j, t, i)
  BY WithinOrder DEF ReadsMore, Readable
<1>2. /\ SummaryIn(code, f, t, i) \in Deps /\ SummaryIn(code, f, u, j) \in Deps
      /\ Within(SummaryIn(code, f, t, i), SummaryIn(code, f, u, j))
      /\ Within(SummaryIn(code, f, u, j), SummaryIn(code, f, t, i))
  BY <1>1, SummaryGrows
<1>3. QED
  BY <1>2, WithinOrder

\* A table stays settled while its module's does not change.
LEMMA StaysSettled ==
    ASSUME NEW code \in Codes, NEW ms, NEW t, NEW u, NEW i,
           Indexed(code, ms, i), Tabled(code, ms, t), Tabled(code, ms, u),
           NEW f \in FunctionsOf(ms), \A g \in FunctionsOf({ModuleOf[f]}) : u[g] = t[g],
           Settles(code, f, t, i)
    PROVE  Settles(code, f, u, i)
<1>1. Readable(f, CalleesIn(code, f), t, i) /\ Readable(f, CalleesIn(code, f), u, i) /\ f \in Functions
  BY ReadsFacts
<1>2. ASSUME NEW g \in CalleesIn(code, f) PROVE Read(f, g, t, i) = Read(f, g, u, i)
  BY DEF Read, CalleesIn, FunctionsOf
<1>3. SummaryIn(code, f, t, i) = SummaryIn(code, f, u, i)
  BY <1>1, <1>2, SameReads
<1>4. f \in FunctionsOf({ModuleOf[f]})
  BY <1>1 DEF FunctionsOf
<1>5. QED
  BY <1>3, <1>4 DEF Settles

\* A module that starts anew has nothing that the least summaries have not.
LEMMA SeedsAreLow ==
    ASSUME NEW code \in Codes, NEW f \in Functions
    PROVE  /\ Starting(f) \in Deps /\ Within(Starting(f), LeastIn(code)[f])
           /\ f \in Unsupported => Starting(f) = Parameter
           /\ f \in Unsupported => LeastIn(code)[f] = Parameter
<1>1. LeastIn(code) \in Tables
  BY LeastFacts
<1>2. LeastIn(code)[f] \in Deps /\ (f \in Unsupported => LeastIn(code)[f] = Parameter)
  BY <1>1 DEF Tables
<1>3. QED
  BY <1>2, WithinOrder DEF Starting

\* Starting a module anew keeps a table a table, and the other modules' part of it.
LEMMA StartFacts ==
    ASSUME NEW code \in Codes, NEW ms, NEW m \in ms, NEW t, Tabled(code, ms, t)
    PROVE  /\ Tabled(code, ms, Updated(t, Seeds({m})))
           /\ \A f \in FunctionsOf(ms) : ModuleOf[f] # m => Updated(t, Seeds({m}))[f] = t[f]
<1> DEFINE u == Updated(t, Seeds({m}))
<1>1. DOMAIN Seeds({m}) = FunctionsOf({m}) /\ \A f \in FunctionsOf({m}) : Seeds({m})[f] = Starting(f)
  BY DEF Seeds
<1>2. FunctionsOf({m}) \subseteq FunctionsOf(ms) /\ FunctionsOf(ms) \subseteq Functions
  BY DEF FunctionsOf
<1>3. DOMAIN u = FunctionsOf(ms)
  BY <1>1, <1>2 DEF Updated, Tabled
<1>4. \A f \in FunctionsOf(ms) : u[f] = IF f \in FunctionsOf({m}) THEN Starting(f) ELSE t[f]
  BY <1>1, <1>2 DEF Updated, Tabled
<1>5. Tabled(code, ms, u)
  BY <1>2, <1>3, <1>4, SeedsAreLow DEF Tabled
<1>6. \A f \in FunctionsOf(ms) : ModuleOf[f] # m => u[f] = t[f]
  BY <1>4 DEF FunctionsOf
<1>7. QED
  BY <1>5, <1>6

\* Some modules have a first and a last.
LEMMA MinFacts ==
    ASSUME NEW S \in SUBSET Modules, S # {}
    PROVE  /\ Min(S) \in S /\ Max(S) \in S
           /\ \A m \in S : Min(S) <= m /\ m <= Max(S)
<1>1. S \in SUBSET Nat /\ IsFiniteSet(S)
  BY FixpointAssumption, FS_Subset
<1>2. \E n \in S : \A m \in S : n <= m
  BY <1>1, LeastNumber
<1>3. \E n \in S : \A m \in S : m <= n
  BY <1>1, GreatestNumber
<1>4. \E n \in S : \A m \in S : n >= m
  BY <1>1, <1>3
<1>5. Min(S) \in S /\ \A m \in S : Min(S) <= m
  BY <1>2 DEF Min
<1>6. Max(S) \in S /\ \A m \in S : Max(S) >= m
  BY <1>4 DEF Max
<1>7. QED
  BY <1>1, <1>5, <1>6

-----------------------------------------------------------------------------
(* Each step of the iteration.                                             *)

\* What the invariant says while a component is iterated.
LEMMA IterationFacts ==
    ASSUME SettleInv, members # {}
    PROVE  /\ bodies \in Codes /\ Indexed(bodies, members, index) /\ Tabled(bodies, members, table) /\ Progress
           /\ \A m \in members : m \in Nat /\ Supported(m) \subseteq FunctionsOf(members) \ Unsupported
           /\ \A f \in FunctionsOf(members) : f \in Functions /\ f \in Nat /\ ModuleOf[f] \in members
           /\ \A f \in FunctionsOf(members) \ Unsupported : f \in Supported(ModuleOf[f])
<1>1. bodies \in Codes /\ Indexed(bodies, members, index) /\ Tabled(bodies, members, table) /\ Progress
  BY DEF SettleInv, Coded, Iterated
<1>2. members \subseteq Modules /\ Modules \subseteq Nat /\ Functions \subseteq Nat
  BY <1>1, FixpointAssumption DEF Progress
<1>3. QED
  BY <1>1, <1>2 DEF Supported, FunctionsOf

\* One function summarized: what is stored is within the least, and the others stay settled.
LEMMA SummarizeKeeps ==
    ASSUME SettleInv, members # {}, Summarize, bodies' = bodies
    PROVE  Iterated'
<1> DEFINE f == Min(left)
           new == SummaryIn(bodies, f, table, index)
           u == [table EXCEPT ![f] = new]
<1>1. /\ bodies \in Codes /\ Indexed(bodies, members, index) /\ Tabled(bodies, members, table) /\ Progress
      /\ module \in members /\ left \subseteq Supported(module)
  BY IterationFacts DEF Progress
<1>2. f \in left
  <2>1. left \in SUBSET Nat /\ left # {}
    BY <1>1, IterationFacts DEF Summarize
  <2>2. \E n \in left : \A m \in left : n <= m
    BY <2>1, LeastNumber
  <2>3. QED
    BY <2>2 DEF Min
<1>3. f \in FunctionsOf(members) /\ f \notin Unsupported /\ ModuleOf[f] = module
  BY <1>1, <1>2, IterationFacts DEF Supported, FunctionsOf
<1>4. /\ table' = u /\ changed' = (changed \/ new # table[f]) /\ left' = left \ {f}
      /\ UNCHANGED <<members, index, module, settled>>
  BY SummaryIs DEF Summarize
<1>5. new \in Deps /\ Within(new, LeastIn(bodies)[f])
  BY <1>1, <1>3, ReadsFacts
<1> HIDE DEF f, new
<1>6. /\ DOMAIN table = FunctionsOf(members) /\ DOMAIN u = FunctionsOf(members) /\ u[f] = new
      /\ \A g \in FunctionsOf(members) \ {f} : u[g] = table[g]
  BY <1>1, <1>3 DEF Tabled
<1>7. new = table[f] => \A x \in FunctionsOf(members) : u[x] = table[x]
  BY <1>6
<1> HIDE DEF u
<1>8. Tabled(bodies, members, u)
  BY <1>1, <1>3, <1>5, <1>6 DEF Tabled
<1>9. ASSUME ~changed', NEW g \in Supported(module) \ (left \ {f}) PROVE Settles(bodies, g, u, index)
  <2>1. ~changed /\ new = table[f] /\ \A x \in FunctionsOf(members) : u[x] = table[x]
    BY <1>4, <1>7, <1>9
  <2>2. Settles(bodies, g, table, index)
    <3>1. CASE g = f
      BY <2>1, <3>1 DEF Settles, new
    <3>2. CASE g # f
      BY <1>1, <1>9, <2>1, <3>2 DEF Progress
    <3>3. QED
      BY <3>1, <3>2
  <2>3. g \in FunctionsOf(members) /\ FunctionsOf({ModuleOf[g]}) \subseteq FunctionsOf(members)
    BY <1>1, <1>9, IterationFacts DEF Supported, FunctionsOf
  <2>4. QED
    BY <1>1, <1>8, <2>1, <2>2, <2>3, StaysSettled
<1>10. ASSUME NEW m \in members, m < module, NEW g \in Supported(m) PROVE Settles(bodies, g, u, index)
  <2>1. g \in FunctionsOf(members) /\ ModuleOf[g] = m /\ m # module
    BY <1>1, <1>10, IterationFacts DEF Supported, FunctionsOf
  <2>2. Settles(bodies, g, table, index)
    BY <1>1, <1>10 DEF Progress
  <2>3. ASSUME NEW x \in FunctionsOf({ModuleOf[g]}) PROVE u[x] = table[x]
    <3>1. x \in FunctionsOf(members) /\ x # f
      BY <1>3, <1>10, <2>1 DEF FunctionsOf
    <3>2. QED
      BY <1>6, <3>1
  <2>4. QED
    BY <1>1, <1>8, <2>1, <2>2, <2>3, StaysSettled
<1>11. Progress'
  BY <1>1, <1>4, <1>9, <1>10 DEF Progress
<1>12. QED
  BY <1>1, <1>4, <1>8, <1>11 DEF Iterated

\* Another round starts over with all functions of the module.
LEMMA NextRoundKeeps ==
    ASSUME SettleInv, members # {}, NextRound, bodies' = bodies
    PROVE  Iterated'
<1>1. /\ bodies \in Codes /\ Indexed(bodies, members, index) /\ Tabled(bodies, members, table) /\ Progress
  BY IterationFacts
<1>2. Progress'
  BY <1>1 DEF Progress, NextRound
<1>3. QED
  BY <1>1, <1>2 DEF Iterated, NextRound

\* The next member starts anew; the tables of those before it stay settled.
LEMMA NextModuleKeeps ==
    ASSUME SettleInv, members # {}, NextModule, bodies' = bodies
    PROVE  Iterated'
<1> DEFINE S == {x \in members : x > module}
           m == Min(S)
           u == Updated(table, Seeds({m}))
<1>1. /\ bodies \in Codes /\ Indexed(bodies, members, index) /\ Tabled(bodies, members, table) /\ Progress
      /\ module \in members /\ members \subseteq Modules /\ Modules \subseteq Nat
  BY IterationFacts, FixpointAssumption DEF Progress
<1>2. S # {}
  <2>1. Max(members) \in members /\ \A x \in members : x <= Max(members)
    BY <1>1, MinFacts
  <2>2. module <= Max(members) /\ module # Max(members)
    BY <1>1, <2>1 DEF NextModule
  <2>3. Max(members) \in S
    <3> DEFINE n == Max(members)
    <3>1. n \in members /\ n \in Nat /\ module \in Nat /\ module <= n /\ module # n
      BY <1>1, <2>1, <2>2
    <3> HIDE DEF n
    <3>2. n > module
      BY <3>1
    <3>3. QED
      BY <3>1, <3>2 DEF n
  <2>4. QED
    BY <2>3
<1>3. m \in members /\ m > module /\ \A x \in S : m <= x
  BY <1>1, <1>2, MinFacts
<1>4. /\ table' = u /\ module' = m /\ left' = Supported(m) /\ ~changed' /\ ~changed /\ left = {} /\ ~settled
      /\ UNCHANGED <<members, index, settled>>
  BY DEF NextModule, Start, Over
<1> HIDE DEF m, u
<1>5. Tabled(bodies, members, u) /\ \A f \in FunctionsOf(members) : ModuleOf[f] # m => u[f] = table[f]
  BY <1>1, <1>3, StartFacts DEF u
<1>6. ASSUME NEW x \in members, x < m, NEW g \in Supported(x) PROVE Settles(bodies, g, u, index)
  <2>1. x <= module
    BY <1>1, <1>3, <1>6
  <2>2. g \in FunctionsOf(members) /\ ModuleOf[g] = x /\ x # m
    BY <1>1, <1>3, <1>6, IterationFacts DEF Supported, FunctionsOf
  <2>3. Settles(bodies, g, table, index)
    <3>1. CASE x = module
      BY <1>1, <1>4, <1>6, <3>1 DEF Progress
    <3>2. CASE x # module
      <4>1. x < module
        BY <1>1, <2>1, <3>2
      <4>2. QED
        BY <1>1, <1>6, <4>1 DEF Progress
    <3>3. QED
      BY <3>1, <3>2
  <2>4. ASSUME NEW y \in FunctionsOf({ModuleOf[g]}) PROVE u[y] = table[y]
    <3>1. y \in FunctionsOf(members) /\ ModuleOf[y] # m
      BY <1>6, <2>2 DEF FunctionsOf
    <3>2. QED
      BY <1>5, <3>1
  <2>5. QED
    BY <1>1, <1>5, <2>2, <2>3, <2>4, StaysSettled
<1>7. Progress'
  BY <1>1, <1>3, <1>4, <1>6 DEF Progress
<1>8. QED
  BY <1>1, <1>4, <1>5, <1>7 DEF Iterated

\* After the last member, the index takes the tables, and is settled if they change nothing.
LEMMA NextPassKeeps ==
    ASSUME SettleInv, members # {}, NextPass, bodies' = bodies
    PROVE  Iterated'
<1> DEFINE j == Updated(index, table)
           F == FunctionsOf(members)
<1>1. /\ bodies \in Codes /\ Indexed(bodies, members, index) /\ Tabled(bodies, members, table) /\ Progress
      /\ module \in members /\ members \subseteq Modules /\ Modules \subseteq Nat
  BY IterationFacts, FixpointAssumption DEF Progress
<1>2. index' = j /\ members' = members /\ module = Max(members) /\ ~changed /\ left = {}
  BY DEF NextPass, Over
<1>3. ASSUME NEW f \in F \ Unsupported PROVE Settles(bodies, f, table, index)
  <2>1. ModuleOf[f] \in members /\ f \in Supported(ModuleOf[f])
    BY IterationFacts
  <2>2. ModuleOf[f] <= module
    BY <1>1, <1>2, <2>1, MinFacts
  <2>3. CASE ModuleOf[f] = module
    BY <1>1, <1>2, <2>1, <2>3 DEF Progress
  <2>4. CASE ModuleOf[f] # module
    <3> DEFINE n == ModuleOf[f]
    <3>0. n \in Nat /\ module \in Nat /\ n <= module /\ n # module
      BY <1>1, <2>1, <2>2, <2>4
    <3> HIDE DEF n
    <3>3. n < module
      BY <3>0
    <3>1. ModuleOf[f] < module
      BY <3>3 DEF n
    <3>2. QED
      BY <1>1, <2>1, <3>1 DEF Progress
  <2>5. QED
    BY <2>3, <2>4
<1>4. /\ DOMAIN table = F /\ F \subseteq DOMAIN index /\ DOMAIN j = DOMAIN index
      /\ \A f \in DOMAIN index : j[f] = IF f \in F THEN table[f] ELSE index[f]
  BY <1>1 DEF Updated, Tabled, Indexed
<1> HIDE DEF j
<1>5. Indexed(bodies, members, j)
  BY <1>1, <1>4 DEF Indexed, Tabled
<1>6. CASE j = index
  <2>1. settled' = TRUE /\ UNCHANGED <<table, module, left, changed>>
    BY <1>2, <1>6 DEF NextPass
  <2>2. \A f \in F : index[f] = table[f]
    BY <1>4, <1>6
  <2>3. ASSUME NEW f \in F \ Unsupported PROVE Settles(bodies, f, index, index)
    <3>1. f \in Functions /\ Readable(f, CalleesIn(bodies, f), table, index) /\ CalleesIn(bodies, f) \subseteq DOMAIN index
      BY <1>1, ReadsFacts DEF Indexed
    <3>2. Readable(f, CalleesIn(bodies, f), index, index)
      BY <1>1, <3>1 DEF Readable, Read, Indexed
    <3>3. ASSUME NEW g \in CalleesIn(bodies, f) PROVE Read(f, g, table, index) = Read(f, g, index, index)
      <4>1. ModuleOf[g] = ModuleOf[f] => g \in F
        BY IterationFacts DEF CalleesIn, FunctionsOf
      <4>2. QED
        BY <2>2, <4>1 DEF Read
    <3>4. SummaryIn(bodies, f, table, index) = SummaryIn(bodies, f, index, index)
      BY <1>1, <3>1, <3>2, <3>3, SameReads
    <3>5. QED
      BY <1>3, <2>2, <3>4 DEF Settles
  <2>4. Progress'
    BY <1>1, <1>2, <1>6, <2>1, <2>3 DEF Progress
  <2>5. QED
    BY <1>1, <1>2, <1>6, <2>1, <2>4 DEF Iterated
<1>7. CASE j # index
  <2> DEFINE m == Min(members)
             u == Updated(table, Seeds({m}))
  <2>1. settled' = FALSE /\ table' = u /\ module' = m /\ left' = Supported(m) /\ changed' = FALSE
    BY <1>2, <1>7 DEF NextPass, Start
  <2>2. m \in members /\ \A x \in members : m <= x
    BY <1>1, MinFacts
  <2> HIDE DEF m, u
  <2>3. Tabled(bodies, members, u)
    BY <1>1, <2>2, StartFacts DEF u
  <2>4. \A x \in members : ~(x < m)
    BY <1>1, <2>2
  <2>5. Progress'
    BY <1>1, <1>2, <2>1, <2>2, <2>4 DEF Progress
  <2>6. QED
    BY <1>2, <1>5, <2>1, <2>3, <2>5 DEF Iterated
<1>8. QED
  BY <1>6, <1>7

\* What has settled is least.
LEMMA SettledLeast ==
    ASSUME SettleInv, settled
    PROVE  \A f \in FunctionsOf(members) : index[f] = LeastIn(bodies)[f]
<1>1. CASE members = {}
  BY <1>1 DEF FunctionsOf
<1>2. CASE members # {}
  <2> DEFINE L == LeastIn(bodies)
             F == FunctionsOf(members)
  <2>1. bodies \in Codes /\ Indexed(bodies, members, index) /\ Progress
    BY <1>2, IterationFacts
  <2>2. L \in Tables
    BY <2>1, LeastFacts
  <2>3. ASSUME NEW f \in DOMAIN index
        PROVE  \/ Within(L[f], index[f])
               \/ f \in Unsupported /\ index[f] = Parameter
               \/ /\ f \notin Unsupported /\ CalleesIn(bodies, f) \subseteq DOMAIN index
                  /\ index[f] = SummaryIn(bodies, f, index, index)
    <3>1. CASE f \notin F
      BY <2>1, <3>1, WithinOrder DEF Indexed
    <3>2. CASE f \in F
      BY <2>1, <3>2 DEF Indexed, Progress, Settles
    <3>3. QED
      BY <3>1, <3>2
  <2> HIDE DEF L
  <2>4. DOMAIN index \subseteq Functions /\ \A f \in DOMAIN index : index[f] \in Deps
    BY <2>1 DEF Indexed
  <2>5. \A f \in DOMAIN index : Within(L[f], index[f])
    BY <2>1, <2>3, <2>4, LeastIsWithin DEF L
  <2>6. \A f \in DOMAIN index : Within(index[f], L[f]) /\ L[f] \in Deps
    BY <2>1, <2>2, <2>4 DEF Indexed, L, Tables
  <2>7. F \subseteq DOMAIN index
    BY <2>1 DEF Indexed
  <2>8. QED
    BY <2>4, <2>5, <2>6, <2>7, WithinOrder DEF L
<1>3. QED
  BY <1>1, <1>2

-----------------------------------------------------------------------------
(* The steps of a project.                                                 *)

\* The invariant holds before anything is searched or analysed.
LEMMA ProjectStarts ==
    ASSUME Init PROVE SettleInv
<1>1. bodies \in Codes /\ members = {} /\ DOMAIN final = {}
  BY DEF Init, None
<1>2. \A m : Imported(m) = ImportedIn(bodies, m)
  BY CalleesAre DEF Imported, ImportedIn
<1>3. Coded
  BY <1>1, <1>2 DEF Init, Coded
<1>4. Final /\ Iterated
  BY <1>1 DEF Final, Iterated
<1>5. QED
  BY <1>3, <1>4, SearchStarts DEF SettleInv

\* The search does nothing more when it is over.
LEMMA SearchEnds ==
    ASSUME Schedule!Search PROVE ~Schedule!Done
<1>1. Schedule!Done => Modules \ Schedule!Visited = {} /\ calls = <<>>
  BY DEF Schedule!Done
<1>2. QED
  BY <1>1 DEF Schedule!Search, Schedule!VisitNext, Schedule!FollowImport, Schedule!SeeImport, Schedule!Leave

\* When a component begins, the modules it imports are final.
LEMMA ImportsAreFinal ==
    ASSUME SettleInv, Schedule!Done, NEW n \in Pending, \A k \in Pending : Precedes(n, k),
           NEW f \in FunctionsOf(components[n]), NEW g \in CalleesIn(bodies, f)
    PROVE  \/ g \in FunctionsOf(components[n])
           \/ g \in DOMAIN final /\ \E m \in components[n] : ModuleOf[g] \in Reached(m)
<1> DEFINE c == components[n]
           x == ModuleOf[f]
           y == ModuleOf[g]
           b == Schedule!Number(y)
<1>1. n \in 1..Len(components) /\ SearchInv /\ c \subseteq Modules /\ Len(components) \in Nat /\ Graph
  <2>1. SearchInv /\ components \in Seq(SUBSET Modules)
    BY DEF SettleInv, SearchInv, Typed
  <2>2. n \in 1..Len(components)
    BY <2>1 DEF Pending
  <2>3. QED
    BY <2>1, <2>2, WhenDone
<1>2. f \in Functions /\ g \in Functions /\ x \in c /\ y \in Modules
  BY FixpointAssumption DEF FunctionsOf, CalleesIn
<1>3. CASE y \in c
  BY <1>2, <1>3 DEF FunctionsOf
<1>4. CASE y \notin c
  <2>1. y \in imports[x]
    <3>1. f \in FunctionsOf({x}) /\ y # x
      BY <1>2, <1>4 DEF FunctionsOf
    <3>2. y \in ImportedIn(bodies, x)
      BY <3>1 DEF ImportedIn
    <3>3. x \in Modules
      BY <1>1, <1>2
    <3>4. QED
      BY <3>2, <3>3 DEF SettleInv, Coded
  <2>2. y \in Schedule!ImportsOf(c)
    BY <1>2, <1>4, <2>1 DEF Schedule!ImportsOf
  <2> HIDE DEF c, x, y
  <2>3. b \in Below(n) /\ b \in 1..(n - 1) /\ b \in 1..Len(components) /\ y \in components[b]
    BY <1>1, <2>2, BelowFacts DEF Below, c
  <2>4. Schedule!Level(b) < Schedule!Level(n) /\ Schedule!Level(b) \in Nat /\ Schedule!Level(n) \in Nat
    BY <1>1, <2>3, LevelFacts
  <2>5. n # b
    BY <1>1, <2>3
  <2> HIDE DEF b
  <2>6. ~Precedes(n, b)
    BY <2>4, <2>5 DEF Precedes
  <2>7. b \in DOMAIN components
    <3>1. components \in Seq(SUBSET Modules)
      BY <1>1 DEF SearchInv, Typed
    <3>2. QED
      BY <2>3, <3>1
  <2>8. FunctionsOf(components[b]) \subseteq DOMAIN final
    BY <2>6, <2>7 DEF Pending, Analysed
  <2>9. g \in DOMAIN final
    BY <1>2, <2>3, <2>8 DEF FunctionsOf, y
  <2>10. y \in Reached(x) /\ x \in c
    <3>1. x \in Modules
      BY <1>1, <1>2
    <3>2. QED
      BY <1>1, <1>2, <2>1, <3>1, ReachedFacts
  <2>11. QED
    BY <2>9, <2>10 DEF c, y
<1>5. QED
  BY <1>3, <1>4

\* A component starts from summaries within the least, with all that its functions call.
LEMMA AnalyseKeeps ==
    ASSUME SettleInv, Analyse
    PROVE  Iterated'
<1>1. PICK n \in Pending : (\A k \in Pending : Precedes(n, k)) /\ Begin(components[n], ReadBy(components[n]))
  BY DEF Analyse
<1> DEFINE c == components[n]
           U == UNION {Schedule!Reached(m) : m \in c}
           D == FunctionsOf(U) \cap DOMAIN final
           i == Updated(ReadBy(c), Seeds(c))
           t == Updated(Seeds(c), Seeds({Min(c)}))
<1>2. /\ bodies' = bodies /\ members' = c /\ index' = i /\ module' = Min(c) /\ table' = t
      /\ left' = Supported(Min(c)) /\ changed' = FALSE /\ settled' = FALSE
  BY <1>1 DEF Analyse, Begin, Start
<1>3. Schedule!Done /\ bodies \in Codes /\ SearchInv
  BY DEF Analyse, SettleInv, Coded
<1>4. n \in 1..Len(components) /\ c \subseteq Modules
  <2>1. components \in Seq(SUBSET Modules)
    BY <1>3 DEF SearchInv, Typed
  <2>2. n \in 1..Len(components)
    BY <2>1 DEF Pending
  <2>3. QED
    BY <1>3, <2>2, WhenDone
<1>5. c # {}
  BY DEF Pending, Analysed, FunctionsOf
<1>6. Min(c) \in c /\ \A m \in c : m \in Nat /\ Min(c) \in Nat /\ ~(m < Min(c))
  <2>1. Min(c) \in c /\ \A m \in c : Min(c) <= m
    BY <1>4, <1>5, MinFacts
  <2>2. c \subseteq Nat
    BY <1>4, FixpointAssumption
  <2> DEFINE k == Min(c)
  <2>3. k \in c /\ k \in Nat /\ \A m \in c : m \in Nat /\ k <= m
    BY <2>1, <2>2
  <2> HIDE DEF c, k
  <2>4. \A m \in c : m \in Nat /\ k \in Nat /\ ~(m < k)
    <3>1. TAKE m \in c
    <3>2. m \in Nat /\ k \in Nat /\ k <= m
      BY <2>3
    <3>3. QED
      BY <3>2
  <2>5. QED
    BY <2>3, <2>4 DEF k
<1>7. DOMAIN ReadBy(c) = D /\ \A f \in D : ReadBy(c)[f] = final[f]
  BY DEF ReadBy, Restrict
<1>8. DOMAIN Seeds(c) = FunctionsOf(c) /\ \A f \in FunctionsOf(c) : Seeds(c)[f] = Starting(f)
  BY DEF Seeds
<1>9. DOMAIN i = D \cup FunctionsOf(c) /\ \A f \in DOMAIN i : i[f] = IF f \in FunctionsOf(c) THEN Starting(f) ELSE final[f]
  BY <1>7, <1>8 DEF Updated
<1>10. \A f \in FunctionsOf(c) : CalleesIn(bodies, f) \subseteq DOMAIN i
  <2>1. ASSUME NEW f \in FunctionsOf(c), NEW g \in CalleesIn(bodies, f) PROVE g \in DOMAIN i
    <3>1. \/ g \in FunctionsOf(c)
          \/ g \in DOMAIN final /\ \E m \in c : ModuleOf[g] \in Reached(m)
      BY <1>1, <1>3, <2>1, ImportsAreFinal
    <3>2. g \in Functions
      BY DEF CalleesIn
    <3>3. (\E m \in c : ModuleOf[g] \in Reached(m)) => g \in FunctionsOf(U)
      BY <3>2 DEF FunctionsOf, Reached
    <3> HIDE DEF c, U, i
    <3>4. QED
      BY <1>9, <3>1, <3>3
  <2>2. QED
    BY <2>1
<1> HIDE DEF i, t, U, c
<1>11. /\ D \subseteq DOMAIN final /\ FunctionsOf(c) \subseteq Functions /\ DOMAIN final \subseteq Functions
       /\ \A f \in DOMAIN final : final[f] = LeastIn(bodies)[f]
  BY DEF SettleInv, Final, FunctionsOf
<1>12. \A f \in Functions : LeastIn(bodies)[f] \in Deps
  BY <1>3, LeastFacts DEF Tables
<1>13. Indexed(bodies, c, i)
  <2>1. \A f \in FunctionsOf(c) : /\ i[f] \in Deps /\ Within(i[f], LeastIn(bodies)[f])
                                  /\ f \in Unsupported => i[f] = Parameter
    BY <1>3, <1>9, <1>11, SeedsAreLow
  <2>2. \A f \in DOMAIN i \ FunctionsOf(c) : f \in DOMAIN final /\ i[f] = LeastIn(bodies)[f]
    BY <1>9, <1>11
  <2>3. \A f \in DOMAIN i \ FunctionsOf(c) : i[f] \in Deps /\ Within(i[f], LeastIn(bodies)[f])
    BY <1>11, <1>12, <2>2, WithinOrder
  <2> HIDE DEF D
  <2>4. FunctionsOf(c) \subseteq DOMAIN i /\ DOMAIN i \subseteq Functions
    BY <1>9, <1>11
  <2>5. QED
    BY <1>10, <2>1, <2>2, <2>3, <2>4 DEF Indexed
<1>14. Tabled(bodies, c, Seeds(c))
  BY <1>3, <1>8, <1>11, SeedsAreLow DEF Tabled
<1>15. Tabled(bodies, c, t)
  BY <1>3, <1>6, <1>14, StartFacts DEF t
<1>16. Progress'
  <2>1. members' \subseteq Modules /\ module' \in members' /\ left' \subseteq Supported(module')
    BY <1>2, <1>4, <1>6
  <2>2. \A m \in members' : ~(m < module')
    BY <1>2, <1>6
  <2>3. Supported(module') \ left' = {}
    BY <1>2
  <2>4. QED
    BY <1>2, <2>1, <2>2, <2>3 DEF Progress
<1>17. QED
  BY <1>2, <1>13, <1>15, <1>16 DEF Iterated

\* What is kept of a component that has settled is least.
LEMMA KeepKeeps ==
    ASSUME SettleInv, Keep
    PROVE  Final' /\ Iterated'
<1> DEFINE F == FunctionsOf(members)
           r == Restrict(index, F)
<1>1. final' = Updated(final, r) /\ members' = {} /\ bodies' = bodies /\ UNCHANGED search
  BY DEF Keep
<1>2. DOMAIN r = F /\ \A f \in F : r[f] = index[f]
  BY DEF Restrict
<1>3. \A f \in F : index[f] = LeastIn(bodies)[f]
  BY SettledLeast DEF Keep
<1>4. F \subseteq Functions
  BY DEF FunctionsOf
<1> HIDE DEF r
<1>5. /\ DOMAIN final \subseteq Functions /\ \A f \in DOMAIN final : final[f] = LeastIn(bodies)[f]
      /\ members # {} \/ DOMAIN final # {} => Schedule!Done
  BY DEF SettleInv, Final
<1>6. DOMAIN final' = DOMAIN final \cup F
  BY <1>1, <1>2 DEF Updated
<1>7. \A f \in DOMAIN final' : final'[f] = LeastIn(bodies)[f]
  BY <1>1, <1>2, <1>3, <1>5 DEF Updated
<1>8. DOMAIN final' # {} => Schedule!Done'
  <2>1. members = {} => F = {}
    BY DEF FunctionsOf
  <2>2. DOMAIN final' # {} => Schedule!Done
    BY <1>5, <1>6, <2>1
  <2>3. Schedule!Done => Schedule!Done'
    BY <1>1 DEF search, Schedule!Done, Schedule!Visited
  <2>4. QED
    BY <2>2, <2>3
<1>9. Final'
  BY <1>1, <1>4, <1>5, <1>6, <1>7, <1>8 DEF Final
<1>10. QED
  BY <1>1, <1>9 DEF Iterated

\* The invariant: everything computed is at most the least, everything final is least.
THEOREM SettleInvariant == Spec => []SettleInv
<1>1. Init => SettleInv
  BY ProjectStarts
<1>2. SettleInv /\ [Next]_vars => SettleInv'
  <2> SUFFICES ASSUME SettleInv, [Next]_vars PROVE SettleInv'
    OBVIOUS
  <2>1. SearchInv' /\ Coded'
    <3>1. SearchInv /\ Coded /\ UNCHANGED <<bodies, imports>>
      BY DEF SettleInv, Next, Search, Analyse, Continue, Keep, vars
    <3>2. CASE Search
      BY <3>1, <3>2, SearchKeeps DEF Search, Coded
    <3>3. CASE Analyse \/ Continue \/ Keep \/ UNCHANGED vars
      BY <3>1, <3>3, OthersKeep DEF Analyse, Continue, Keep, vars, Coded
    <3>4. QED
      BY <3>2, <3>3 DEF Next
  <2>2. Final /\ Iterated
    BY DEF SettleInv
  <2>3. CASE Search
    <3>1. members = {} /\ DOMAIN final = {}
      BY <2>2, <2>3, SearchEnds DEF Search, Final
    <3>2. members' = {} /\ final' = final
      BY <2>3, <3>1 DEF Search, fixpointVars
    <3>3. Final' /\ Iterated'
      BY <3>1, <3>2 DEF Final, Iterated
    <3>4. QED
      BY <2>1, <3>3 DEF SettleInv
  <2>4. CASE Analyse
    <3>1. Iterated'
      BY <2>4, AnalyseKeeps
    <3>2. Final'
      <4>1. Schedule!Done /\ final' = final /\ bodies' = bodies /\ UNCHANGED search
        BY <2>4 DEF Analyse
      <4>2. Schedule!Done'
        BY <4>1 DEF search, Schedule!Done, Schedule!Visited
      <4>3. QED
        BY <2>2, <4>1, <4>2 DEF Final
    <3>3. QED
      BY <2>1, <3>1, <3>2 DEF SettleInv
  <2>5. CASE Continue
    <3>1. members # {} /\ bodies' = bodies /\ final' = final /\ UNCHANGED search
      BY <2>5 DEF Continue
    <3>2. Iterated'
      BY <2>5, <3>1, SummarizeKeeps, NextRoundKeeps, NextModuleKeeps, NextPassKeeps DEF Continue, Iterate
    <3>3. Final'
      <4>1. Schedule!Done'
        BY <2>2, <3>1 DEF Final, search, Schedule!Done, Schedule!Visited
      <4>2. QED
        BY <2>2, <3>1, <4>1 DEF Final
    <3>4. QED
      BY <2>1, <3>2, <3>3 DEF SettleInv
  <2>6. CASE Keep
    BY <2>1, <2>6, KeepKeeps DEF SettleInv
  <2>7. CASE UNCHANGED vars
    <3>1. UNCHANGED <<bodies, members, index, table, module, left, changed, settled, final, visited, calls>>
      BY <2>7 DEF vars, fixpointVars, search
    <3>2. Final'
      BY <2>2, <3>1 DEF Final, Schedule!Done, Schedule!Visited
    <3>3. Iterated'
      BY <2>2, <3>1 DEF Iterated, Progress
    <3>4. QED
      BY <2>1, <3>2, <3>3 DEF SettleInv
  <2>8. QED
    BY <2>3, <2>4, <2>5, <2>6, <2>7 DEF Next
<1>3. QED
  BY <1>1, <1>2, PTL DEF Spec

\* What a component settles on is what the least fixpoint over the whole project gives its
\* functions, in any order of modules and rounds, around any cycle of imports.
THEOREM SettledSummariesAreLeast == Spec => []SettledIsLeast
<1>1. SettleInv => SettledIsLeast
  BY SettledLeast, LeastIs DEF SettledIsLeast
<1>2. QED
  BY <1>1, SettleInvariant, PTL
=============================================================================
