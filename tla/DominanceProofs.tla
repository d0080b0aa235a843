---------------------------- MODULE DominanceProofs ----------------------------
(***************************************************************************)
(* Proofs that the dominator tree and the frontiers of every graph are     *)
(* exact.                                                                  *)
(***************************************************************************)
EXTENDS Dominance, Closures

Strictly(a, b) == a # b /\ OnEveryPath(a, b)

-----------------------------------------------------------------------------
(* What is reached.                                                        *)

\* It is the least set that holds where one starts, and where its edges lead.
LEMMA ReachedFacts ==
    ASSUME NEW edges \in [Blocks -> SUBSET Blocks], NEW from \in SUBSET Blocks
    PROVE  /\ from \subseteq Reached(edges, from)
           /\ Reached(edges, from) \subseteq Blocks
           /\ \A x \in Reached(edges, from) : edges[x] \subseteq Reached(edges, from)
           /\ \A C : from \subseteq C /\ (\A x \in C \cap Blocks : edges[x] \subseteq C)
                        => Reached(edges, from) \subseteq C
<1> DEFINE N == Cardinality(Blocks)
           upto == CHOOSE g : Stepping(g, N, edges, from)
<1>1. IsFiniteSet(Blocks) /\ N \in Nat /\ N <= N
  BY DominanceAssumption, FS_CardinalityType
<1>2. Reached(edges, from) = upto[N]
  BY DEF Reached, Stepping
<1>3. Iteration(upto, N, Blocks, edges, from)
  <2> HIDE DEF N
  <2>1. QED
    BY <1>1, SteppingIterates
<1> HIDE DEF upto
<1>4. from \subseteq upto[N]
  <2> HIDE DEF N
  <2>1. QED
    BY <1>1, <1>3, IterationGrows
<1>5. upto[N] \subseteq Blocks
  BY <1>1, <1>3 DEF Iteration
<1>6. ClosedUnder(upto[N], edges)
  BY <1>1, <1>3, IterationCloses
<1>7. ASSUME NEW C, from \subseteq C, \A x \in C \cap Blocks : edges[x] \subseteq C PROVE upto[N] \subseteq C
  <2>1. ClosedUnder(C \cap Blocks, edges)
    BY <1>7 DEF ClosedUnder
  <2> HIDE DEF N
  <2>2. \A n \in 0..N : upto[n] \subseteq C
    BY <1>1, <1>3, <1>7, <2>1, IterationIsLeast
  <2>3. QED
    BY <1>1, <2>2
<1>8. QED
  BY <1>2, <1>4, <1>5, <1>6, <1>7 DEF ClosedUnder

-----------------------------------------------------------------------------
(* Dominance: a block is on every path to another.                         *)

Graph == graph \in [Blocks -> SUBSET Blocks]

LEMMA AvoidingFacts ==
    ASSUME Graph, NEW a
    PROVE  /\ {Root} \ {a} \subseteq Avoiding(a)
           /\ Avoiding(a) \subseteq Blocks
           /\ \A x \in Avoiding(a) : graph[x] \ {a} \subseteq Avoiding(a)
           /\ \A C : {Root} \ {a} \subseteq C /\ (\A x \in C \cap Blocks : graph[x] \ {a} \subseteq C)
                        => Avoiding(a) \subseteq C
<1> DEFINE edges == [b \in Blocks |-> graph[b] \ {a}]
           from == {Root} \ {a}
<1>1. edges \in [Blocks -> SUBSET Blocks] /\ from \in SUBSET Blocks
  BY DominanceAssumption DEF Graph
<1>2. Avoiding(a) = Reached(edges, from)
  BY DEF Avoiding
<1>3. \A b \in Blocks : edges[b] = graph[b] \ {a}
  OBVIOUS
<1> HIDE DEF edges
<1>4. /\ from \subseteq Reached(edges, from)
      /\ Reached(edges, from) \subseteq Blocks
      /\ \A x \in Reached(edges, from) : edges[x] \subseteq Reached(edges, from)
  BY <1>1, ReachedFacts
<1>5. \A C : from \subseteq C /\ (\A x \in C \cap Blocks : edges[x] \subseteq C) => Reached(edges, from) \subseteq C
  BY <1>1, ReachedFacts
<1>6. ASSUME NEW C, from \subseteq C, \A x \in C \cap Blocks : graph[x] \ {a} \subseteq C
      PROVE  Avoiding(a) \subseteq C
  <2>1. \A x \in C \cap Blocks : edges[x] \subseteq C
    BY <1>3, <1>6
  <2>2. QED
    BY <1>2, <1>5, <1>6, <2>1
<1>7. \A x \in Avoiding(a) : graph[x] \ {a} \subseteq Avoiding(a)
  BY <1>2, <1>3, <1>4
<1>8. \A C : {Root} \ {a} \subseteq C /\ (\A x \in C \cap Blocks : graph[x] \ {a} \subseteq C) => Avoiding(a) \subseteq C
  BY <1>6
<1>9. {Root} \ {a} \subseteq Avoiding(a) /\ Avoiding(a) \subseteq Blocks
  BY <1>2, <1>4
<1> HIDE DEF from
<1>10. QED
  BY <1>7, <1>8, <1>9

\* A block is on all paths to itself, alone on the one to the root, and on those to
\* another if and only if it is on those to each predecessor of it.
LEMMA OnPaths ==
    ASSUME Graph
    PROVE  /\ \A b : OnEveryPath(b, b)
           /\ \A a : OnEveryPath(a, Root) => a = Root
           /\ \A a, b, p : Strictly(a, b) /\ p \in Blocks /\ b \in graph[p] => OnEveryPath(a, p)
           /\ \A a, b : b # Root /\ (\A p \in Blocks : b \in graph[p] => OnEveryPath(a, p)) => OnEveryPath(a, b)
<1>1. ASSUME NEW b PROVE OnEveryPath(b, b)
  <2>1. Avoiding(b) \subseteq Blocks \ {b}
    <3> DEFINE C == Blocks \ {b}
    <3>1. {Root} \ {b} \subseteq C /\ \A x \in C \cap Blocks : graph[x] \ {b} \subseteq C
      BY DominanceAssumption DEF Graph
    <3> HIDE DEF C
    <3>2. Avoiding(b) \subseteq C
      BY <3>1, AvoidingFacts
    <3>3. QED
      BY <3>2 DEF C
  <2>2. QED
    BY <2>1 DEF OnEveryPath
<1>2. ASSUME NEW a, a # Root PROVE ~OnEveryPath(a, Root)
  <2>1. {Root} \ {a} \subseteq Avoiding(a)
    BY AvoidingFacts
  <2>2. QED
    BY <1>2, <2>1 DEF OnEveryPath
<1>3. ASSUME NEW a, NEW b, NEW p, Strictly(a, b), b \in graph[p] PROVE OnEveryPath(a, p)
  BY <1>3, AvoidingFacts DEF OnEveryPath, Strictly
<1>4. ASSUME NEW a, NEW b, b # Root, \A p \in Blocks : b \in graph[p] => OnEveryPath(a, p)
      PROVE  OnEveryPath(a, b)
  <2> DEFINE C == Avoiding(a) \ {b}
  <2>1. {Root} \ {a} \subseteq C
    BY <1>4, AvoidingFacts
  <2>2. ASSUME NEW x \in C \cap Blocks PROVE graph[x] \ {a} \subseteq C
    <3>1. b \notin graph[x]
      BY <1>4, <2>2 DEF OnEveryPath
    <3>2. graph[x] \ {a} \subseteq Avoiding(a)
      BY AvoidingFacts
    <3>3. QED
      BY <3>1, <3>2
  <2> HIDE DEF C
  <2>3. Avoiding(a) \subseteq C
    BY <2>1, <2>2, AvoidingFacts
  <2>4. QED
    BY <2>3 DEF C, OnEveryPath
<1>5. QED
  BY <1>1, <1>2, <1>3, <1>4

\* What is reached is what is reached while no block is avoided.
LEMMA ReachableFacts ==
    ASSUME Graph
    PROVE  /\ Root \in ReachedFromRoot /\ ReachedFromRoot \subseteq Blocks
           /\ \A x \in ReachedFromRoot : graph[x] \subseteq ReachedFromRoot
           /\ \A C : Root \in C /\ (\A x \in C \cap Blocks : graph[x] \subseteq C) => ReachedFromRoot \subseteq C
<1>1. NoBlock \notin Blocks /\ Root \in Blocks
  BY DominanceAssumption
<1>2. \A x \in Blocks : graph[x] \ {NoBlock} = graph[x]
  BY <1>1 DEF Graph
<1>3. /\ {Root} \ {NoBlock} \subseteq ReachedFromRoot
      /\ ReachedFromRoot \subseteq Blocks
      /\ \A x \in ReachedFromRoot : graph[x] \ {NoBlock} \subseteq ReachedFromRoot
  BY AvoidingFacts DEF ReachedFromRoot
<1>4. \A C : {Root} \ {NoBlock} \subseteq C /\ (\A x \in C \cap Blocks : graph[x] \ {NoBlock} \subseteq C)
                => ReachedFromRoot \subseteq C
  BY AvoidingFacts DEF ReachedFromRoot
<1>5. ASSUME NEW C, Root \in C, \A x \in C \cap Blocks : graph[x] \subseteq C PROVE ReachedFromRoot \subseteq C
  <2>1. {Root} \ {NoBlock} \subseteq C /\ \A x \in C \cap Blocks : graph[x] \ {NoBlock} \subseteq C
    BY <1>5
  <2>2. QED
    BY <1>4, <2>1
<1>6. Root \in ReachedFromRoot
  BY <1>1, <1>3
<1>7. \A x \in ReachedFromRoot : graph[x] \subseteq ReachedFromRoot
  BY <1>2, <1>3
<1>8. QED
  BY <1>3, <1>5, <1>6, <1>7

-----------------------------------------------------------------------------
(* The search.                                                             *)

\* The blocks of the path and of the order, each once.  A block has been called by the one
\* before it on the path.  When a visit is over, the blocks it leads to have been seen, and
\* one that leads to it is visited or comes later in the order.
Searching ==
    /\ path \in Seq(Blocks) /\ postorder \in Seq(Blocks)
    /\ path # <<>> /\ path[1] = Root
    /\ \A i, j \in 1..Len(path) : path[i] = path[j] => i = j
    /\ \A i, j \in 1..Len(postorder) : postorder[i] = postorder[j] => i = j
    /\ \A i \in 1..Len(path), j \in 1..Len(postorder) : path[i] # postorder[j]
    /\ \A i \in 1..Len(path) : i > 1 => path[i] \in graph[path[i - 1]]
    /\ \A k \in 1..Len(postorder) :
          /\ graph[postorder[k]] \subseteq Seen
          /\ \/ \E i \in 1..Len(path) : postorder[k] \in graph[path[i]]
             \/ \E j \in 1..Len(postorder) : j > k /\ postorder[k] \in graph[postorder[j]]
    /\ Seen \subseteq ReachedFromRoot

\* In the end, the order has the blocks that are reached, each once and the root last, and
\* each of the others after one that leads to it.
Ordered ==
    /\ postorder \in Seq(Blocks) /\ postorder # <<>> /\ postorder[Len(postorder)] = Root
    /\ \A i, j \in 1..Len(postorder) : postorder[i] = postorder[j] => i = j
    /\ InOrder = ReachedFromRoot
    /\ \A k \in 1..(Len(postorder) - 1) :
          \E j \in 1..Len(postorder) : j > k /\ postorder[k] \in graph[postorder[j]]

SearchInv == Graph /\ IF progress = "visit" THEN Searching ELSE Ordered

LEMMA SearchStart == Init => SearchInv
<1> SUFFICES ASSUME Init PROVE SearchInv
  OBVIOUS
<1> USE DominanceAssumption
<1>1. Graph /\ progress = "visit" /\ path = <<Root>> /\ postorder = <<>>
  BY DEF Init, Graph, Graphs
<1>2. Len(path) = 1 /\ path[1] = Root /\ Len(postorder) = 0 /\ path \in Seq(Blocks) /\ postorder \in Seq(Blocks)
  BY <1>1
<1>3. Seen = {Root}
  BY <1>1 DEF Seen, InOrder
<1>4. Seen \subseteq ReachedFromRoot
  BY <1>1, <1>3, ReachableFacts
<1>5. QED
  BY <1>1, <1>2, <1>4 DEF SearchInv, Searching

LEMMA SearchVisits ==
    ASSUME SearchInv, NEW b \in Blocks, Visit(b)
    PROVE  SearchInv'
<1>1. Graph /\ Searching /\ progress' = "visit" /\ graph' = graph /\ postorder' = postorder
  BY DEF SearchInv, Visit
<1>2. path \in Seq(Blocks) /\ Len(path) \in Nat /\ Len(path) > 0
  BY <1>1 DEF Searching
<1>3. path' = Append(path, b) /\ b \notin Seen /\ b \in graph[path[Len(path)]]
  BY DEF Visit, Current
<1>4. /\ path' \in Seq(Blocks) /\ Len(path') = Len(path) + 1 /\ path'[Len(path) + 1] = b
      /\ \A i \in 1..Len(path) : path'[i] = path[i]
  BY <1>2, <1>3
<1>5. \A i \in 1..Len(path') : i \in 1..Len(path) \/ i = Len(path) + 1
  BY <1>2, <1>4
<1>6. (\A i \in 1..Len(path) : path[i] # b) /\ (\A j \in 1..Len(postorder) : postorder[j] # b)
  BY <1>1, <1>3 DEF Seen, InOrder, Searching
<1>7. Seen' = Seen \cup {b}
  <2>1. Seen = {postorder[k] : k \in 1..Len(postorder)} \cup {path[k] : k \in 1..Len(path)}
    BY <1>1 DEF Seen, InOrder, Searching
  <2>2. Seen' = {postorder[k] : k \in 1..Len(postorder)} \cup {path'[k] : k \in 1..Len(path')}
    <3>1. DOMAIN postorder' = 1..Len(postorder) /\ DOMAIN path' = 1..Len(path') /\ postorder' = postorder
      BY <1>1, <1>4 DEF Searching
    <3>2. QED
      BY <3>1 DEF Seen, InOrder
  <2>3. {path'[k] : k \in 1..Len(path')} = {path[k] : k \in 1..Len(path)} \cup {b}
    BY <1>2, <1>4, <1>5
  <2>4. QED
    BY <2>1, <2>2, <2>3
<1>8. ReachedFromRoot' = ReachedFromRoot
  BY <1>1 DEF ReachedFromRoot, Avoiding
<1>9. b \in ReachedFromRoot
  <2>1. path[Len(path)] \in ReachedFromRoot
    BY <1>1, <1>2 DEF Searching, Seen
  <2>2. QED
    BY <1>1, <1>3, <2>1, ReachableFacts
<1> DEFINE P == Len(path)
<1>10. Searching'
  <2>1. path' # <<>> /\ path'[1] = Root
    BY <1>1, <1>2, <1>4 DEF Searching
  <2>2. \A i, j \in 1..Len(path') : path'[i] = path'[j] => i = j
    BY <1>1, <1>4, <1>5, <1>6 DEF Searching
  <2>3. \A i \in 1..Len(path'), j \in 1..Len(postorder) : path'[i] # postorder[j]
    BY <1>1, <1>4, <1>5, <1>6 DEF Searching
  <2>4. \A i \in 1..Len(path') : i > 1 => path'[i] \in graph[path'[i - 1]]
    <3>1. ASSUME NEW i \in 1..Len(path'), i > 1 PROVE path'[i] \in graph[path'[i - 1]]
      <4>1. i - 1 \in 1..Len(path) /\ path'[i - 1] = path[i - 1]
        BY <1>2, <1>4, <3>1
      <4>2. CASE i \in 1..Len(path)
        BY <1>1, <1>4, <3>1, <4>1, <4>2 DEF Searching
      <4>3. CASE i = Len(path) + 1
        BY <1>2, <1>3, <1>4, <4>1, <4>3
      <4>4. QED
        BY <1>5, <4>2, <4>3
    <3>2. QED
      BY <3>1
  <2>5. ASSUME NEW k \in 1..Len(postorder)
        PROVE  /\ graph[postorder[k]] \subseteq Seen'
               /\ \/ \E i \in 1..Len(path') : postorder[k] \in graph[path'[i]]
                  \/ \E j \in 1..Len(postorder) : j > k /\ postorder[k] \in graph[postorder[j]]
    <3>1. graph[postorder[k]] \subseteq Seen'
      BY <1>1, <1>7 DEF Searching
    <3>2. \/ \E i \in 1..Len(path) : postorder[k] \in graph[path[i]]
          \/ \E j \in 1..Len(postorder) : j > k /\ postorder[k] \in graph[postorder[j]]
      BY <1>1 DEF Searching
    <3>3. \A i \in 1..Len(path) : i \in 1..Len(path')
      BY <1>2, <1>4
    <3>4. QED
      BY <1>4, <3>1, <3>2, <3>3
  <2>6. Seen' \subseteq ReachedFromRoot'
    BY <1>1, <1>7, <1>8, <1>9 DEF Searching
  <2>7. postorder' \in Seq(Blocks) /\ \A i, j \in 1..Len(postorder) : postorder[i] = postorder[j] => i = j
    BY <1>1 DEF Searching
  <2>8. QED
    BY <1>1, <1>4, <2>1, <2>2, <2>3, <2>4, <2>5, <2>6, <2>7 DEF Searching
<1>11. QED
  BY <1>1, <1>10 DEF SearchInv, Graph

\* A sequence without its last element.
LEMMA WithoutLast ==
    ASSUME NEW S, NEW s \in Seq(S), s # <<>>
    PROVE  /\ Len(s) \in Nat /\ (Len(s) = 1 \/ Len(s) > 1)
           /\ SubSeq(s, 1, Len(s) - 1) \in Seq(S)
           /\ Len(SubSeq(s, 1, Len(s) - 1)) = Len(s) - 1
           /\ \A i \in 1..(Len(s) - 1) : SubSeq(s, 1, Len(s) - 1)[i] = s[i]
<1>1. PICK n \in Nat : n = Len(s) /\ n # 0
  OBVIOUS
<1>2. n = 1 \/ n > 1
  BY <1>1
<1>3. n - 1 \in Nat /\ n - 1 <= n /\ \A i \in 1..(n - 1) : i \in 1..n
  BY <1>1
<1>4. SubSeq(s, 1, n - 1) \in Seq(S) /\ Len(SubSeq(s, 1, n - 1)) = n - 1
  BY <1>1, <1>3
<1>5. \A i \in 1..(n - 1) : SubSeq(s, 1, n - 1)[i] = s[i]
  BY <1>1, <1>3
<1>6. QED
  BY <1>1, <1>2, <1>4, <1>5

LEMMA SearchLeaves ==
    ASSUME SearchInv, Leave
    PROVE  SearchInv'
<1> DEFINE n == Len(path)
           m == Len(postorder)
<1>1. Graph /\ Searching /\ graph' = graph
  BY DEF SearchInv, Leave
<1>2. path \in Seq(Blocks) /\ n \in Nat /\ n > 0 /\ (n = 1 \/ n > 1) /\ postorder \in Seq(Blocks) /\ m \in Nat
  BY <1>1, WithoutLast DEF Searching
<1>3. /\ postorder' = Append(postorder, path[n]) /\ path' = SubSeq(path, 1, n - 1)
      /\ graph[path[n]] \subseteq Seen
  BY DEF Leave, Current
<1>4. /\ postorder' \in Seq(Blocks) /\ Len(postorder') = m + 1 /\ postorder'[m + 1] = path[n]
      /\ \A j \in 1..m : postorder'[j] = postorder[j]
  BY <1>2, <1>3
<1>5. path' \in Seq(Blocks) /\ Len(path') = n - 1 /\ \A i \in 1..(n - 1) : path'[i] = path[i]
  BY <1>1, <1>2, <1>3, WithoutLast DEF Searching
<1>6. \A j \in 1..Len(postorder') : j \in 1..m \/ j = m + 1
  BY <1>2, <1>4
<1>7. \A i \in 1..n : i \in 1..(n - 1) \/ i = n
  BY <1>2
<1>8. Seen' = Seen
  <2> DEFINE A == {postorder[k] : k \in 1..m}
             B == {path[k] : k \in 1..n}
             A1 == {postorder'[k] : k \in 1..(m + 1)}
             B1 == {path'[k] : k \in 1..(n - 1)}
  <2>1. Seen = A \cup B
    BY <1>2 DEF Seen, InOrder
  <2>2. Seen' = A1 \cup B1
    <3>1. DOMAIN postorder' = 1..(m + 1) /\ DOMAIN path' = 1..(n - 1)
      BY <1>2, <1>4, <1>5
    <3>2. QED
      BY <3>1 DEF Seen, InOrder
  <2>3. A1 = A \cup {path[n]}
    BY <1>2, <1>4, <1>6
  <2>4. B = B1 \cup {path[n]}
    BY <1>2, <1>5, <1>7
  <2>5. QED
    BY <2>1, <2>2, <2>3, <2>4
<1>9. ReachedFromRoot' = ReachedFromRoot
  BY <1>1 DEF ReachedFromRoot, Avoiding
<1>10. \A i, j \in 1..Len(postorder') : postorder'[i] = postorder'[j] => i = j
  <2>1. \A j \in 1..m : postorder[j] # path[n]
    BY <1>1, <1>2 DEF Searching
  <2>2. \A i, j \in 1..m : postorder[i] = postorder[j] => i = j
    BY <1>1 DEF Searching
  <2>3. QED
    BY <1>4, <1>6, <2>1, <2>2
<1>11. \A k \in 1..Len(postorder') : graph[postorder'[k]] \subseteq Seen
  <2>1. \A k \in 1..m : graph[postorder[k]] \subseteq Seen
    BY <1>1 DEF Searching
  <2>2. QED
    BY <1>3, <1>4, <1>6, <2>1
\* One that led to a block on the path comes later in the order than that block.
<1>12. ASSUME NEW k \in 1..Len(postorder'), k # m + 1 \/ n > 1
       PROVE  \/ \E i \in 1..(n - 1) : postorder'[k] \in graph[path'[i]]
              \/ \E j \in 1..Len(postorder') : j > k /\ postorder'[k] \in graph[postorder'[j]]
  <2>1. CASE k = m + 1
    <3>1. n - 1 \in 1..(n - 1) /\ path'[n - 1] = path[n - 1] /\ n \in 1..n
      BY <1>2, <1>5, <1>12, <2>1
    <3>2. path[n] \in graph[path[n - 1]]
      BY <1>1, <1>12, <2>1, <3>1 DEF Searching
    <3>3. QED
      BY <1>4, <2>1, <3>1, <3>2
  <2>2. CASE k \in 1..m
    <3>1. postorder'[k] = postorder[k] /\ m + 1 \in 1..Len(postorder') /\ m + 1 > k
      BY <1>2, <1>4, <2>2
    <3>2. CASE \E i \in 1..n : postorder[k] \in graph[path[i]]
      <4>1. PICK i \in 1..n : postorder[k] \in graph[path[i]]
        BY <3>2
      <4>2. CASE i \in 1..(n - 1)
        BY <1>5, <3>1, <4>1, <4>2
      <4>3. CASE i = n
        BY <1>4, <3>1, <4>1, <4>3
      <4>4. QED
        BY <1>7, <4>2, <4>3
    <3>3. CASE \E j \in 1..m : j > k /\ postorder[k] \in graph[postorder[j]]
      <4>1. PICK j \in 1..m : j > k /\ postorder[k] \in graph[postorder[j]]
        BY <3>3
      <4>2. j \in 1..Len(postorder') /\ postorder'[j] = postorder[j]
        BY <1>2, <1>4
      <4>3. QED
        BY <3>1, <4>1, <4>2
    <3>4. QED
      BY <1>1, <2>2, <3>2, <3>3 DEF Searching
  <2>3. QED
    BY <1>6, <2>1, <2>2
<1>13. Seen \subseteq ReachedFromRoot
  BY <1>1 DEF Searching
<1>14. CASE n > 1
  <2>1. path' # <<>> /\ path'[1] = Root /\ progress' = "visit"
    <3>1. path' # <<>>
      BY <1>2, <1>5, <1>14
    <3>2. path'[1] = Root
      <4>1. path'[1] = path[1]
        BY <1>2, <1>5, <1>14
      <4>2. QED
        BY <1>1, <4>1 DEF Searching
    <3>3. QED
      BY <3>1, <3>2 DEF Leave
  <2>2. \A i, j \in 1..Len(path') : path'[i] = path'[j] => i = j
    <3>1. \A i \in 1..(n - 1) : i \in 1..n
      BY <1>2
    <3>2. QED
      BY <1>1, <1>5, <3>1 DEF Searching
  <2>3. \A i \in 1..Len(path'), j \in 1..Len(postorder') : path'[i] # postorder'[j]
    <3>1. ASSUME NEW i \in 1..(n - 1), NEW j \in 1..Len(postorder') PROVE path'[i] # postorder'[j]
      <4>1. i \in 1..n /\ n \in 1..n /\ i # n /\ path'[i] = path[i]
        BY <1>2, <1>5
      <4>2. CASE j \in 1..m
        BY <1>1, <1>4, <4>1, <4>2 DEF Searching
      <4>3. CASE j = m + 1
        BY <1>1, <1>4, <4>1, <4>3 DEF Searching
      <4>4. QED
        BY <1>6, <4>2, <4>3
    <3>2. QED
      BY <1>5, <3>1
  <2>4. ASSUME NEW i \in 1..Len(path'), i > 1 PROVE path'[i] \in graph[path'[i - 1]]
    <3>1. i \in 1..(n - 1) /\ i - 1 \in 1..(n - 1) /\ i \in 1..n
      BY <1>2, <1>5, <2>4
    <3>2. path'[i] = path[i] /\ path'[i - 1] = path[i - 1]
      BY <1>5, <3>1
    <3>3. QED
      BY <1>1, <2>4, <3>1, <3>2 DEF Searching
  <2>5. Searching'
    BY <1>1, <1>4, <1>5, <1>8, <1>9, <1>10, <1>11, <1>12, <1>13, <1>14, <2>1, <2>2, <2>3, <2>4 DEF Searching
  <2>6. QED
    BY <1>1, <2>1, <2>5 DEF SearchInv, Graph
<1>15. CASE n = 1
  <2>1. path' = <<>> /\ path[n] = Root
    BY <1>1, <1>2, <1>5, <1>15 DEF Searching
  <2>2. progress' # "visit"
    BY <2>1 DEF Leave, StartPass
  <2>3. InOrder' = Seen'
    BY <2>1 DEF Seen
  <2>4. ReachedFromRoot \subseteq Seen
    <3>1. Root \in Seen
      BY <1>1, <1>2, <1>15, <2>1 DEF Seen
    <3>2. \A x \in Seen : graph[x] \subseteq Seen
      BY <1>4, <1>8, <1>11, <2>3 DEF InOrder
    <3>3. QED
      BY <1>1, <3>1, <3>2, ReachableFacts
  <2>5. ASSUME NEW k \in 1..(Len(postorder') - 1)
        PROVE  \E j \in 1..Len(postorder') : j > k /\ postorder'[k] \in graph[postorder'[j]]
    <3>1. k \in 1..Len(postorder') /\ k # m + 1 /\ 1..(n - 1) = {}
      BY <1>2, <1>4, <1>15
    <3>2. QED
      BY <1>12, <3>1
  <2>6. postorder' # <<>> /\ postorder'[Len(postorder')] = Root
    BY <1>2, <1>4, <2>1
  <2>7. Ordered'
    BY <1>1, <1>4, <1>8, <1>9, <1>10, <1>13, <2>3, <2>4, <2>5, <2>6 DEF Ordered
  <2>8. QED
    BY <1>1, <2>2, <2>7 DEF SearchInv, Graph
<1>16. QED
  BY <1>2, <1>14, <1>15

\* A pass leaves the order as it is.
LEMMA SearchStays ==
    ASSUME SearchInv, UNCHANGED <<graph, search>>, (progress = "visit") = (progress' = "visit")
    PROVE  SearchInv'
<1>1. graph' = graph /\ path' = path /\ postorder' = postorder
  BY DEF search
<1>2. ReachedFromRoot' = ReachedFromRoot /\ Seen' = Seen /\ InOrder' = InOrder
  BY <1>1 DEF ReachedFromRoot, Avoiding, Seen, InOrder
<1>3. Graph' = Graph /\ Searching' = Searching /\ Ordered' = Ordered
  BY <1>1, <1>2 DEF Graph, Searching, Ordered
<1>4. QED
  BY <1>3 DEF SearchInv

-----------------------------------------------------------------------------
(* Places in the order.                                                    *)

Last == Len(postorder)
Placed ==
    /\ Last \in Nat /\ Last > 0 /\ InOrder \subseteq Blocks
    /\ \A k \in 1..Last : postorder[k] \in InOrder /\ Place(postorder[k]) = k
    /\ \A b \in InOrder : Place(b) \in 1..Last /\ postorder[Place(b)] = b
    /\ \A b, c \in InOrder : Place(b) = Place(c) => b = c
    /\ Root \in InOrder /\ Place(Root) = Last
    /\ \A b \in InOrder \ {Root} :
          Place(b) < Last /\ \E p \in PredecessorsOf(b) : Place(p) > Place(b)

\* Each block has its place, the root the last one, and all others a predecessor at a later one.
LEMMA PlaceFacts == Graph /\ Ordered => Placed
<1> SUFFICES ASSUME Graph, Ordered PROVE Placed
  OBVIOUS
<1>1. postorder \in Seq(Blocks) /\ Last \in Nat /\ Last > 0 /\ DOMAIN postorder = 1..Last
  BY DEF Ordered, Last
<1>2. \A i, j \in 1..Last : postorder[i] = postorder[j] => i = j
  BY DEF Ordered, Last
<1>3. InOrder = {postorder[k] : k \in 1..Last}
  BY <1>1 DEF InOrder
<1>4. InOrder \subseteq Blocks
  BY <1>1, <1>3
<1>5. ASSUME NEW b \in InOrder PROVE Place(b) \in 1..Last /\ postorder[Place(b)] = b
  BY <1>1, <1>3 DEF Place
<1>6. ASSUME NEW k \in 1..Last PROVE postorder[k] \in InOrder /\ Place(postorder[k]) = k
  <2>1. postorder[k] \in InOrder
    BY <1>3
  <2>2. QED
    BY <1>2, <1>5, <2>1
<1>7. \A b, c \in InOrder : Place(b) = Place(c) => b = c
  BY <1>5
<1>8. Root \in InOrder /\ Place(Root) = Last
  <2>1. Last \in 1..Last /\ postorder[Last] = Root
    BY <1>1 DEF Ordered, Last
  <2>2. QED
    BY <1>6, <2>1
<1>9. ASSUME NEW b \in InOrder \ {Root}
      PROVE  Place(b) < Last /\ \E p \in PredecessorsOf(b) : Place(p) > Place(b)
  <2>1. Place(b) \in 1..Last /\ Place(b) # Last /\ postorder[Place(b)] = b
    BY <1>5, <1>7, <1>8
  <2>2. Place(b) \in 1..(Last - 1)
    BY <1>1, <2>1
  <2>3. PICK j \in 1..Last : j > Place(b) /\ b \in graph[postorder[j]]
    BY <2>1, <2>2 DEF Ordered, Last
  <2>4. postorder[j] \in PredecessorsOf(b) /\ Place(postorder[j]) > Place(b)
    BY <1>6, <2>3 DEF PredecessorsOf
  <2>5. Place(b) < Last
    BY <1>1, <2>2
  <2>6. QED
    BY <2>4, <2>5
<1>10. QED
  BY <1>1, <1>4, <1>5, <1>6, <1>7, <1>8, <1>9 DEF Placed

\* Induction along the reverse of the order.
LEMMA FromTheRoot ==
    ASSUME Placed, NEW H, \A b \in InOrder : (\A c \in InOrder : Place(c) > Place(b) => c \in H) => b \in H
    PROVE  \A b \in InOrder : b \in H
<1> DEFINE G == {n \in Nat : \A b \in InOrder : Place(b) > Last - n => b \in H}
<1>1. PICK l \in Nat : l = Last
  BY DEF Placed
<1>2. \A b \in InOrder : Place(b) \in 1..l
  BY <1>1 DEF Placed
<1>3. 0 \in G
  BY <1>1, <1>2
<1>4. ASSUME NEW n \in 1..l, n - 1 \in G PROVE n \in G
  <2>1. ASSUME NEW b \in InOrder, Place(b) > l - n PROVE b \in H
    <3>1. ASSUME NEW c \in InOrder, Place(c) > Place(b) PROVE c \in H
      <4>1. Place(c) > l - (n - 1)
        BY <1>2, <2>1, <3>1
      <4>2. QED
        BY <1>1, <1>4, <4>1
    <3>2. QED
      BY <3>1
  <2>2. QED
    BY <1>1, <2>1
<1> HIDE DEF G
<1>5. \A n \in 0..l : n \in G
  BY <1>3, <1>4, UpTo
<1>6. l \in G
  BY <1>5
<1>7. \A b \in InOrder : Place(b) > l - l
  BY <1>2
<1>8. QED
  BY <1>1, <1>6, <1>7 DEF G

\* A block that is on every path to one is not before it in the order.
LEMMA DominatorsAreLater ==
    ASSUME Graph, Placed, NEW a, NEW b \in InOrder, OnEveryPath(a, b)
    PROVE  a \in InOrder /\ Place(a) >= Place(b) /\ (a # b => Place(a) > Place(b))
<1> DEFINE Fine(x) == \A d : OnEveryPath(d, x) => d \in InOrder /\ Place(d) >= Place(x)
           H == {x \in InOrder : Fine(x)}
<1>1. ASSUME NEW x \in InOrder, \A c \in InOrder : Place(c) > Place(x) => c \in H PROVE x \in H
  <2>1. ASSUME NEW d, OnEveryPath(d, x) PROVE d \in InOrder /\ Place(d) >= Place(x)
    <3>1. Place(x) \in Nat
      BY DEF Placed
    <3>2. CASE d = x
      BY <3>1, <3>2
    <3>3. CASE d # x
      <4>1. x # Root
        BY <2>1, <3>3, OnPaths
      <4>2. PICK p \in PredecessorsOf(x) : Place(p) > Place(x)
        BY <4>1 DEF Placed
      <4>3. p \in InOrder /\ p \in Blocks /\ x \in graph[p]
        BY <4>2 DEF PredecessorsOf, Placed
      <4>4. OnEveryPath(d, p)
        BY <2>1, <3>3, <4>3, OnPaths DEF Strictly
      <4>5. d \in InOrder /\ Place(d) >= Place(p)
        BY <1>1, <4>2, <4>3, <4>4
      <4>6. Place(d) \in Nat /\ Place(p) \in Nat
        BY <4>3, <4>5 DEF Placed
      <4>7. QED
        BY <3>1, <4>2, <4>5, <4>6
    <3>4. QED
      BY <3>2, <3>3
  <2>2. QED
    BY <2>1
<1> HIDE DEF H
<1>2. b \in H
  BY <1>1, FromTheRoot
<1>3. a \in InOrder /\ Place(a) >= Place(b)
  BY <1>2 DEF H
<1>4. Place(a) \in Nat /\ Place(b) \in Nat /\ (Place(a) = Place(b) => a = b)
  BY <1>3 DEF Placed
<1>5. QED
  BY <1>3, <1>4

LEMMA EarliestFacts ==
    ASSUME Placed, NEW S \in SUBSET InOrder, S # {}
    PROVE  Earliest(S) \in S /\ \A c \in S : Place(c) <= Place(Earliest(S))
<1> DEFINE H == InOrder \ S
<1>1. \E b \in S : \A c \in S : Place(c) <= Place(b)
  <2> SUFFICES ASSUME \A b \in S : \E c \in S : ~(Place(c) <= Place(b)) PROVE FALSE
    OBVIOUS
  <2>1. ASSUME NEW b \in InOrder, \A c \in InOrder : Place(c) > Place(b) => c \in H PROVE b \in H
    <3>1. CASE b \in S
      <4>1. PICK c \in S : ~(Place(c) <= Place(b))
        BY <3>1
      <4>2. Place(c) > Place(b)
        BY <4>1 DEF Placed
      <4>3. QED
        BY <2>1, <4>2
    <3>2. QED
      BY <3>1
  <2> HIDE DEF H
  <2>2. \A b \in InOrder : b \in H
    BY <2>1, FromTheRoot
  <2>3. QED
    BY <2>2 DEF H
<1>2. QED
  BY <1>1 DEF Earliest

-----------------------------------------------------------------------------
(* The tree.                                                               *)

Treed == DOMAIN idom

\* The way up from a block of the tree goes to later places, until the root.
Climbing ==
    /\ idom \in [Treed -> Blocks \cup {NoBlock}]
    /\ Root \in Treed /\ Treed \subseteq InOrder /\ idom[Root] = NoBlock
    /\ \A b \in Treed \ {Root} : idom[b] \in Treed /\ Place(idom[b]) > Place(b)

\* It passes all blocks that are on every path.
Sound == \A b \in Treed \ {Root} : \A a \in Blocks : Strictly(a, b) => OnEveryPath(a, idom[b])

LEMMA UpReached ==
    ASSUME Placed, Climbing, NEW b \in Treed
    PROVE  /\ b \in Dominators(b)
           /\ Dominators(b) \subseteq Treed
           /\ \A x \in Dominators(b) : x # Root => idom[x] \in Dominators(b)
           /\ \A C : b \in C /\ (\A x \in C \cap (Treed \ {Root}) : idom[x] \in C) => Dominators(b) \subseteq C
<1> DEFINE edges == [c \in Blocks |-> Up(c)]
           from == {b}
<1>1. Treed \subseteq Blocks /\ NoBlock \notin Blocks /\ NoBlock \notin Treed
  BY DominanceAssumption DEF Placed, Climbing
<1>2. /\ \A c \in Treed \ {Root} : Up(c) = {idom[c]}
      /\ \A c \in Blocks : c \notin Treed \/ c = Root => Up(c) = {}
  BY <1>1 DEF Up, Climbing, Treed
<1>3. \A c \in Blocks : edges[c] = Up(c) /\ edges[c] \subseteq Treed
  BY <1>2 DEF Climbing
<1>4. edges \in [Blocks -> SUBSET Blocks] /\ from \in SUBSET Blocks
  BY <1>1, <1>3
<1>5. Dominators(b) = Reached(edges, from)
  BY DEF Dominators
<1> HIDE DEF edges, from
<1>6. /\ from \subseteq Reached(edges, from)
      /\ Reached(edges, from) \subseteq Blocks
      /\ \A x \in Reached(edges, from) : edges[x] \subseteq Reached(edges, from)
  BY <1>4, ReachedFacts
<1>7. \A C : from \subseteq C /\ (\A x \in C \cap Blocks : edges[x] \subseteq C) => Reached(edges, from) \subseteq C
  BY <1>4, ReachedFacts
<1>8. b \in Dominators(b)
  BY <1>5, <1>6 DEF from
<1>9. Dominators(b) \subseteq Treed
  BY <1>3, <1>5, <1>7 DEF from
<1>10. ASSUME NEW x \in Dominators(b), x # Root PROVE idom[x] \in Dominators(b)
  BY <1>2, <1>3, <1>5, <1>6, <1>9, <1>10
<1>11. ASSUME NEW C, b \in C, \A x \in C \cap (Treed \ {Root}) : idom[x] \in C PROVE Dominators(b) \subseteq C
  <2>1. ASSUME NEW x \in C \cap Blocks PROVE edges[x] \subseteq C
    BY <1>2, <1>3, <1>11
  <2>2. QED
    BY <1>5, <1>7, <1>11, <2>1 DEF from
<1>12. QED
  BY <1>8, <1>9, <1>10, <1>11

\* The way up from a block is the block and the way up from its immediate dominator.
LEMMA UpFacts ==
    ASSUME Placed, Climbing, NEW b \in Treed
    PROVE  /\ \A x \in Dominators(b) : Dominators(x) \subseteq Dominators(b)
           /\ b # Root => Dominators(b) = {b} \cup Dominators(idom[b])
           /\ b = Root => Dominators(b) = {b}
           /\ \A x \in Dominators(b) : Place(x) >= Place(b) /\ (x # b => Place(x) > Place(b))
<1>1. ASSUME NEW x \in Dominators(b) PROVE Dominators(x) \subseteq Dominators(b)
  <2> DEFINE C == Dominators(b)
  <2>1. x \in Treed /\ x \in C /\ \A y \in C \cap (Treed \ {Root}) : idom[y] \in C
    BY UpReached
  <2> HIDE DEF C
  <2>2. Dominators(x) \subseteq C
    BY <2>1, UpReached
  <2>3. QED
    BY <2>2 DEF C
<1>2. ASSUME b # Root PROVE Dominators(b) = {b} \cup Dominators(idom[b])
  <2> DEFINE u == idom[b]
             C == {b} \cup Dominators(u)
  <2>1. u \in Treed /\ u \in Dominators(b) /\ b \in Dominators(b)
    BY <1>2, UpReached DEF Climbing
  <2>2. C \subseteq Dominators(b)
    BY <1>1, <2>1
  <2>3. u \in Dominators(u) /\ \A x \in Dominators(u) : x # Root => idom[x] \in Dominators(u)
    BY <2>1, UpReached
  <2>4. b \in C /\ \A x \in C \cap (Treed \ {Root}) : idom[x] \in C
    BY <2>3
  <2> HIDE DEF C
  <2>5. Dominators(b) \subseteq C
    BY <2>4, UpReached
  <2>6. QED
    BY <2>2, <2>5 DEF C
<1>3. ASSUME b = Root PROVE Dominators(b) = {b}
  <2> DEFINE C == {Root}
  <2>1. b \in C /\ \A x \in C \cap (Treed \ {Root}) : idom[x] \in C
    BY <1>3
  <2> HIDE DEF C
  <2>2. Dominators(b) \subseteq C /\ b \in Dominators(b)
    BY <2>1, UpReached
  <2>3. QED
    BY <1>3, <2>2 DEF C
<1>4. ASSUME NEW x \in Dominators(b) PROVE Place(x) >= Place(b) /\ (x # b => Place(x) > Place(b))
  <2> DEFINE C == {y \in Treed : Place(y) >= Place(b)}
  <2>1. \A y \in Treed : Place(y) \in Nat /\ (y # Root => idom[y] \in Treed /\ Place(idom[y]) > Place(y))
    BY DEF Placed, Climbing
  <2>2. b \in C
    BY <2>1
  <2>3. ASSUME NEW y \in C \cap (Treed \ {Root}) PROVE idom[y] \in C
    BY <2>1
  <2> HIDE DEF C
  <2>4. Dominators(b) \subseteq C
    BY <2>2, <2>3, UpReached
  <2>5. x \in Treed /\ Place(x) >= Place(b)
    BY <2>4 DEF C
  <2>6. Place(x) = Place(b) => x = b
    BY <2>5 DEF Placed, Climbing
  <2>7. QED
    BY <2>1, <2>5, <2>6
<1>5. QED
  BY <1>1, <1>2, <1>3, <1>4

\* A block on every path to one is on the way up from it.
LEMMA OnPathsIsAbove ==
    ASSUME Graph, Placed, Climbing, Sound, NEW a \in Blocks, NEW b \in Treed, OnEveryPath(a, b)
    PROVE  a \in Dominators(b)
<1> DEFINE H == {x \in InOrder : x \in Treed /\ OnEveryPath(a, x) => a \in Dominators(x)}
<1>1. ASSUME NEW x \in InOrder, \A c \in InOrder : Place(c) > Place(x) => c \in H PROVE x \in H
  <2>1. ASSUME x \in Treed, OnEveryPath(a, x) PROVE a \in Dominators(x)
    <3>1. CASE a = x
      BY <2>1, <3>1, UpReached
    <3>2. CASE a # x
      <4>1. x # Root
        BY <2>1, <3>2, OnPaths
      <4> DEFINE u == idom[x]
      <4>2. u \in Treed /\ u \in InOrder /\ Place(u) > Place(x)
        BY <2>1, <4>1 DEF Climbing
      <4>3. OnEveryPath(a, u)
        BY <2>1, <3>2, <4>1 DEF Sound, Strictly
      <4>4. a \in Dominators(u)
        BY <1>1, <4>2, <4>3
      <4>5. QED
        BY <2>1, <4>1, <4>4, UpFacts
    <3>3. QED
      BY <3>1, <3>2
  <2>2. QED
    BY <2>1
<1> HIDE DEF H
<1>2. b \in H
  BY <1>1, FromTheRoot DEF Climbing
<1>3. QED
  BY <1>2 DEF H

\* When the immediate dominator of each block is above all its predecessors, what is on the
\* way up from a block is on every path to it.
Complete ==
    /\ Treed = InOrder
    /\ \A m \in InOrder \ {Root} : \A p \in PredecessorsOf(m) : idom[m] \in Dominators(p)

LEMMA AboveIsOnPaths ==
    ASSUME Graph, Ordered, Placed, Climbing, Complete, NEW b \in InOrder, NEW a \in Dominators(b)
    PROVE  OnEveryPath(a, b)
<1> DEFINE C == {x \in InOrder : a \notin Dominators(x)}
<1>1. {Root} \ {a} \subseteq C
  <2>1. Root \in Treed /\ Dominators(Root) = {Root}
    BY UpFacts DEF Climbing
  <2>2. QED
    BY <2>1 DEF Complete
<1>2. ASSUME NEW x \in C \cap Blocks, NEW y \in graph[x] \ {a} PROVE y \in C
  <2>1. x \in InOrder /\ x \in Treed /\ a \notin Dominators(x)
    BY <1>2 DEF Complete
  <2>2. y \in InOrder /\ y \in Treed
    BY <2>1, ReachableFacts DEF Ordered, Complete
  <2>3. x \in PredecessorsOf(y)
    BY <2>1 DEF PredecessorsOf
  <2>4. CASE y = Root
    BY <1>1, <2>4
  <2>5. CASE y # Root
    <3>1. idom[y] \in Dominators(x)
      BY <2>2, <2>3, <2>5 DEF Complete
    <3>2. Dominators(idom[y]) \subseteq Dominators(x)
      BY <2>1, <3>1, UpFacts
    <3>3. Dominators(y) = {y} \cup Dominators(idom[y])
      BY <2>2, <2>5, UpFacts
    <3>4. QED
      BY <2>1, <2>2, <3>2, <3>3
  <2>6. QED
    BY <2>4, <2>5
<1>3. \A x \in C \cap Blocks : graph[x] \ {a} \subseteq C
  BY <1>2
<1> HIDE DEF C
<1>4. Avoiding(a) \subseteq C
  BY <1>1, <1>3, AvoidingFacts
<1>5. QED
  BY <1>4 DEF C, OnEveryPath

-----------------------------------------------------------------------------
(* The passes.                                                             *)

Candidates == PredecessorsOf(Node) \cap Treed
OnlyRoot == [b \in {Root} |-> NoBlock]

\* What has been settled in this pass.
Behind == {m \in InOrder : Place(m) > turn}

\* What a pass has behind it is in the tree: with all else, or alone in the first pass.  If it
\* has changed nothing, the immediate dominators of those are above all their predecessors.
Passing ==
    /\ turn \in 1..(Last - 1) /\ changed \in BOOLEAN
    /\ Behind \subseteq Treed /\ (Treed = InOrder \/ Treed = Behind)
    /\ ~changed => \A m \in Behind \ {Root} : \A p \in PredecessorsOf(m) : p \in Treed /\ idom[m] \in Dominators(p)

\* The walks pass all blocks that are on every path to the one looked at, start where it is
\* known, and what both have passed is above all candidates looked at.
Intersecting ==
    /\ other \in Treed /\ new \in Behind /\ left \subseteq Candidates
    /\ \A a \in Blocks : Strictly(a, Node) => OnEveryPath(a, other) /\ OnEveryPath(a, new)
    /\ \A p \in Candidates \ left : new \in Dominators(p) \/ other \in Dominators(p)

TreeInv ==
    /\ progress \in {"visit", "choose", "intersect", "done"}
    /\ progress = "visit" => idom = OnlyRoot
    /\ progress # "visit" => Climbing /\ Sound
    /\ progress \in {"choose", "intersect"} => Passing
    /\ progress = "intersect" => Intersecting
    /\ progress = "done" => Complete

DomInv == SearchInv /\ TreeInv

\* A pass may start with the root alone, and with all blocks.
Started ==
    /\ Graph /\ Ordered /\ Climbing /\ Sound
    /\ turn = Last - 1 /\ changed = FALSE
    /\ progress = IF turn = 0 THEN "done" ELSE "choose"
    /\ Treed = InOrder \/ Treed = {Root}

LEMMA PassStarts == Started => TreeInv
<1> SUFFICES ASSUME Started PROVE TreeInv
  OBVIOUS
<1>1. Placed /\ Last \in Nat /\ Last > 0 /\ \A b \in InOrder : Place(b) \in 1..Last
  BY PlaceFacts DEF Started, Placed
<1>2. Behind = {Root}
  <2>1. ASSUME NEW b \in Behind PROVE b = Root
    BY <1>1 DEF Behind, Placed, Started
  <2>2. Root \in Behind
    BY <1>1 DEF Behind, Placed, Started
  <2>3. QED
    BY <2>1, <2>2
<1>3. Root \in Treed /\ Treed \subseteq InOrder
  BY DEF Started, Climbing
<1>4. CASE turn = 0
  <2>1. Last = 1
    BY <1>1, <1>4 DEF Started
  <2>2. InOrder = {Root}
    BY <1>1, <2>1 DEF Placed
  <2>3. Complete
    BY <1>3, <2>2 DEF Complete
  <2>4. QED
    BY <1>4, <2>3 DEF TreeInv, Started
<1>5. CASE turn # 0
  <2>1. turn \in 1..(Last - 1)
    BY <1>1, <1>5 DEF Started
  <2>2. Passing
    BY <1>2, <1>3, <2>1 DEF Passing, Started
  <2>3. QED
    BY <1>5, <2>2 DEF TreeInv, Started
<1>6. QED
  BY <1>4, <1>5

\* While the graph and the order stay.
LEMMA Same ==
    ASSUME graph' = graph, postorder' = postorder
    PROVE  /\ InOrder' = InOrder /\ Last' = Last /\ Graph' = Graph /\ Ordered' = Ordered
           /\ \A b : Place(b)' = Place(b) /\ PredecessorsOf(b)' = PredecessorsOf(b)
           /\ \A a, b : OnEveryPath(a, b)' = OnEveryPath(a, b) /\ Strictly(a, b)' = Strictly(a, b)
<1>1. InOrder' = InOrder
  BY DEF InOrder
<1>2. \A b : Place(b)' = Place(b)
  BY DEF Place
<1>3. \A b : PredecessorsOf(b)' = PredecessorsOf(b)
  BY <1>1 DEF PredecessorsOf
<1>4. \A a : Avoiding(a)' = Avoiding(a)
  BY DEF Avoiding
<1>5. \A a, b : OnEveryPath(a, b)' = OnEveryPath(a, b)
  BY <1>4 DEF OnEveryPath
<1>6. \A a, b : Strictly(a, b)' = Strictly(a, b)
  BY <1>5 DEF Strictly
<1>7. Last' = Last /\ Graph' = Graph /\ Ordered' = Ordered
  BY <1>1, <1>4 DEF Last, Graph, Ordered, ReachedFromRoot
<1>8. QED
  BY <1>1, <1>2, <1>3, <1>5, <1>6, <1>7

\* While the tree stays too.
LEMMA SameTree ==
    ASSUME graph' = graph, postorder' = postorder, idom' = idom
    PROVE  /\ Climbing' = Climbing /\ Sound' = Sound /\ Treed' = Treed /\ Complete' = Complete
           /\ \A b : Dominators(b)' = Dominators(b)
<1>1. \A b : Dominators(b)' = Dominators(b)
  BY DEF Dominators, Up
<1>2. Treed' = Treed
  BY DEF Treed
<1>3. Climbing' = Climbing
  BY <1>2, Same DEF Climbing
<1>4. Sound' = Sound
  BY <1>2, Same DEF Sound
<1>5. Complete' = Complete
  BY <1>1, <1>2, Same DEF Complete
<1>6. QED
  BY <1>1, <1>2, <1>3, <1>4, <1>5

LEMMA TreeStart == Init => TreeInv
BY DEF Init, TreeInv, OnlyRoot

LEMMA TreeSearches ==
    ASSUME DomInv, SearchInv', (\E b \in Blocks : Visit(b)) \/ Leave
    PROVE  TreeInv'
<1>1. progress = "visit" /\ idom' = idom /\ idom = OnlyRoot /\ Treed = {Root}
  BY DEF DomInv, TreeInv, Visit, Leave, OnlyRoot, Treed
<1>2. CASE progress' = "visit"
  BY <1>1, <1>2 DEF TreeInv
<1>3. CASE progress' # "visit"
  <2>1. Leave /\ StartPass(postorder')
    BY <1>1, <1>3 DEF Visit, Leave
  <2>2. Graph' /\ Ordered'
    BY <1>3 DEF SearchInv
  <2>3. Placed'
    BY <2>2, PlaceFacts, PTL
  <2>4. Treed' = {Root} /\ idom'[Root] = NoBlock
    BY <1>1 DEF Treed, OnlyRoot
  <2>5. Root \in InOrder' /\ idom' \in [Treed' -> Blocks \cup {NoBlock}]
    BY <1>1, <2>3, <2>4 DEF Placed, OnlyRoot
  <2>6. Climbing' /\ Sound'
    BY <2>4, <2>5 DEF Climbing, Sound
  <2>7. Started'
    BY <2>1, <2>2, <2>4, <2>6 DEF Started, StartPass, Last
  <2>8. QED
    BY <2>7, PassStarts, PTL
<1>4. QED
  BY <1>2, <1>3

\* The block looked at is not behind, and one of its predecessors is.
LEMMA PassFacts ==
    ASSUME DomInv, progress \in {"choose", "intersect"}
    PROVE  /\ Graph /\ Ordered /\ Placed /\ Climbing /\ Sound /\ Passing
           /\ Node \in InOrder /\ Node # Root /\ Place(Node) = turn /\ Node \notin Behind
           /\ \E p \in Candidates : p \in Behind
           /\ \A a \in Blocks : Strictly(a, Node) => \A p \in PredecessorsOf(Node) : OnEveryPath(a, p)
<1>1. Graph /\ Ordered /\ Climbing /\ Sound /\ Passing
  BY DEF DomInv, SearchInv, TreeInv
<1>2. Placed
  BY <1>1, PlaceFacts
<1>3. turn \in 1..Last /\ turn # Last /\ turn \in Nat
  BY <1>1, <1>2 DEF Passing, Placed
<1>4. Node \in InOrder /\ Place(Node) = turn
  BY <1>2, <1>3 DEF Node, Placed
<1>5. Node # Root
  BY <1>2, <1>3, <1>4 DEF Placed
<1>6. Node \notin Behind
  BY <1>3, <1>4 DEF Behind
<1>7. PICK p \in PredecessorsOf(Node) : Place(p) > turn
  BY <1>2, <1>4, <1>5 DEF Placed
<1>8. p \in Behind /\ p \in Candidates
  BY <1>1, <1>7 DEF Behind, PredecessorsOf, Passing, Candidates
<1>9. ASSUME NEW a \in Blocks, Strictly(a, Node), NEW q \in PredecessorsOf(Node) PROVE OnEveryPath(a, q)
  BY <1>1, <1>2, <1>9, OnPaths DEF PredecessorsOf, Placed
<1>10. QED
  BY <1>1, <1>2, <1>4, <1>5, <1>6, <1>8, <1>9

\* While the pass is at the same block.
LEMMA SameTurn ==
    ASSUME graph' = graph, postorder' = postorder, idom' = idom, turn' = turn, changed' = changed
    PROVE  /\ Behind' = Behind /\ Candidates' = Candidates /\ Node' = Node /\ Passing' = Passing
<1>1. Behind' = Behind
  BY Same DEF Behind
<1>2. Node' = Node
  BY DEF Node
<1>3. Candidates' = Candidates
  BY <1>2, Same, SameTree DEF Candidates
<1>4. Passing' = Passing
  BY <1>1, Same, SameTree DEF Passing
<1>5. QED
  BY <1>1, <1>2, <1>3, <1>4

\* A step of the walks, for the same block, keeps the invariant if what they do is right.
LEMMA Walks ==
    ASSUME progress' = "intersect", Climbing, Sound, Passing,
           graph' = graph, postorder' = postorder, idom' = idom, turn' = turn, changed' = changed,
           other' \in Treed, new' \in Behind, left' \subseteq Candidates,
           \A a \in Blocks : Strictly(a, Node) => OnEveryPath(a, other') /\ OnEveryPath(a, new'),
           \A p \in Candidates \ left' : new' \in Dominators(p) \/ other' \in Dominators(p)
    PROVE  TreeInv'
<1>1. /\ Climbing' /\ Sound' /\ Passing'
      /\ Treed' = Treed /\ Behind' = Behind /\ Candidates' = Candidates /\ Node' = Node
  BY SameTree, SameTurn
<1>2. other' \in Treed' /\ new' \in Behind' /\ left' \subseteq Candidates'
  BY <1>1
<1>3. (\A a \in Blocks : Strictly(a, Node) => OnEveryPath(a, other) /\ OnEveryPath(a, new))'
  BY <1>1 DEF Strictly, OnEveryPath, Avoiding
<1>4. (\A q \in Candidates \ left : new \in Dominators(q) \/ other \in Dominators(q))'
  BY <1>1 DEF Dominators, Up
<1>5. Intersecting'
  BY <1>2, <1>3, <1>4 DEF Intersecting
<1>6. QED
  BY <1>1, <1>5 DEF TreeInv

LEMMA TreeChooses ==
    ASSUME DomInv, Choose
    PROVE  TreeInv'
<1>1. /\ progress = "choose" /\ progress' = "intersect"
      /\ graph' = graph /\ postorder' = postorder /\ idom' = idom /\ turn' = turn /\ changed' = changed
      /\ new' = Earliest(Candidates) /\ other' = new' /\ left' = Candidates \ {new'}
  BY DEF Choose, search, Candidates, Treed
<1>2. /\ Placed /\ Climbing /\ Sound /\ Passing
      /\ \A a \in Blocks : Strictly(a, Node) => \A p \in PredecessorsOf(Node) : OnEveryPath(a, p)
  BY <1>1, PassFacts
<1>3. PICK p \in Candidates : p \in Behind
  BY <1>1, PassFacts
<1>4. Candidates \in SUBSET InOrder
  BY DEF Candidates, PredecessorsOf
<1>5. new' \in Candidates /\ Place(new') >= Place(p)
  BY <1>1, <1>2, <1>3, <1>4, EarliestFacts
<1>6. new' \in Behind
  <2>1. new' \in InOrder /\ Place(new') \in Nat /\ Place(p) \in Nat /\ Place(p) > turn /\ turn \in Nat
    BY <1>2, <1>3, <1>4, <1>5 DEF Placed, Behind, Passing
  <2>2. QED
    BY <1>5, <2>1 DEF Behind
<1>7. new' \in Dominators(new')
  BY <1>2, <1>5, UpReached DEF Candidates
<1>8. \A a \in Blocks : Strictly(a, Node) => OnEveryPath(a, other') /\ OnEveryPath(a, new')
  BY <1>1, <1>2, <1>5 DEF Candidates
<1>9. \A q \in Candidates \ left' : new' \in Dominators(q) \/ other' \in Dominators(q)
  BY <1>1, <1>7
<1>10. other' \in Treed /\ left' \subseteq Candidates
  BY <1>1, <1>5 DEF Candidates
<1>11. QED
  BY <1>1, <1>2, <1>6, <1>8, <1>9, <1>10, Walks

\* A walk that is not as late as another goes up, and passes what is on every path.
LEMMA Climbs ==
    ASSUME Graph, Placed, Climbing, Sound, NEW x \in Treed, NEW y \in Treed, Place(x) < Place(y),
           \A a \in Blocks : Strictly(a, Node) => OnEveryPath(a, x) /\ OnEveryPath(a, y)
    PROVE  /\ x # Root /\ idom[x] \in Treed /\ Place(idom[x]) > Place(x)
           /\ \A a \in Blocks : Strictly(a, Node) => OnEveryPath(a, idom[x])
           /\ \A p \in Treed : x \in Dominators(p) => idom[x] \in Dominators(p)
<1>1. x # Root
  <2>1. Place(x) \in 1..Last /\ Place(y) \in 1..Last /\ Place(Root) = Last /\ Last \in Nat
    BY DEF Placed, Climbing
  <2>2. QED
    BY <2>1
<1>2. idom[x] \in Treed /\ Place(idom[x]) > Place(x)
  BY <1>1 DEF Climbing
<1>3. ASSUME NEW a \in Blocks, Strictly(a, Node) PROVE OnEveryPath(a, idom[x])
  <2>1. OnEveryPath(a, x) /\ OnEveryPath(a, y)
    BY <1>3
  <2>2. a # x
    <3>1. a \in InOrder /\ Place(a) >= Place(y)
      BY <2>1, DominatorsAreLater DEF Climbing
    <3>2. Place(a) \in Nat /\ Place(x) \in Nat /\ Place(y) \in Nat
      BY <3>1 DEF Placed, Climbing
    <3>3. QED
      BY <3>1, <3>2
  <2>3. QED
    BY <1>1, <2>1, <2>2 DEF Sound, Strictly
<1>4. \A p \in Treed : x \in Dominators(p) => idom[x] \in Dominators(p)
  BY <1>1, UpReached
<1>5. QED
  BY <1>1, <1>2, <1>3, <1>4

LEMMA TreeClimbsOther ==
    ASSUME DomInv, ClimbOther
    PROVE  TreeInv'
<1>1. /\ progress = "intersect" /\ progress' = "intersect"
      /\ graph' = graph /\ postorder' = postorder /\ idom' = idom /\ turn' = turn /\ changed' = changed
      /\ other' = idom[other] /\ new' = new /\ left' = left /\ Place(other) < Place(new)
  BY DEF ClimbOther, search
<1>2. Graph /\ Placed /\ Climbing /\ Sound /\ Passing
  BY <1>1, PassFacts
<1>3. /\ other \in Treed /\ new \in Behind /\ left \subseteq Candidates
      /\ \A a \in Blocks : Strictly(a, Node) => OnEveryPath(a, other) /\ OnEveryPath(a, new)
      /\ \A p \in Candidates \ left : new \in Dominators(p) \/ other \in Dominators(p)
  BY <1>1 DEF DomInv, TreeInv, Intersecting
<1>4. new \in Treed
  BY <1>2, <1>3 DEF Passing
<1>5. /\ idom[other] \in Treed
      /\ \A a \in Blocks : Strictly(a, Node) => OnEveryPath(a, idom[other])
      /\ \A p \in Treed : other \in Dominators(p) => idom[other] \in Dominators(p)
  BY <1>1, <1>2, <1>3, <1>4, Climbs
<1>6. \A p \in Candidates \ left : new \in Dominators(p) \/ idom[other] \in Dominators(p)
  BY <1>3, <1>5 DEF Candidates
<1>7. /\ \A a \in Blocks : Strictly(a, Node) => OnEveryPath(a, other') /\ OnEveryPath(a, new')
      /\ \A p \in Candidates \ left' : new' \in Dominators(p) \/ other' \in Dominators(p)
  BY <1>1, <1>3, <1>5, <1>6
<1>8. QED
  BY <1>1, <1>2, <1>3, <1>5, <1>7, Walks

LEMMA TreeClimbsNew ==
    ASSUME DomInv, ClimbNew
    PROVE  TreeInv'
<1>1. /\ progress = "intersect" /\ progress' = "intersect"
      /\ graph' = graph /\ postorder' = postorder /\ idom' = idom /\ turn' = turn /\ changed' = changed
      /\ new' = idom[new] /\ other' = other /\ left' = left /\ Place(new) < Place(other)
  BY DEF ClimbNew, search
<1>2. Graph /\ Placed /\ Climbing /\ Sound /\ Passing
  BY <1>1, PassFacts
<1>3. /\ other \in Treed /\ new \in Behind /\ left \subseteq Candidates
      /\ \A a \in Blocks : Strictly(a, Node) => OnEveryPath(a, other) /\ OnEveryPath(a, new)
      /\ \A p \in Candidates \ left : new \in Dominators(p) \/ other \in Dominators(p)
  BY <1>1 DEF DomInv, TreeInv, Intersecting
<1>4. new \in Treed
  BY <1>2, <1>3 DEF Passing
<1>5. /\ idom[new] \in Treed /\ Place(idom[new]) > Place(new)
      /\ \A a \in Blocks : Strictly(a, Node) => OnEveryPath(a, idom[new])
      /\ \A p \in Treed : new \in Dominators(p) => idom[new] \in Dominators(p)
  BY <1>1, <1>2, <1>3, <1>4, Climbs
<1>6. \A p \in Candidates \ left : idom[new] \in Dominators(p) \/ other \in Dominators(p)
  BY <1>3, <1>5 DEF Candidates
<1>7. idom[new] \in Behind
  <2>1. idom[new] \in InOrder /\ Place(idom[new]) \in Nat /\ Place(new) \in Nat /\ turn \in Nat /\ Place(new) > turn
    BY <1>2, <1>3, <1>5 DEF Placed, Climbing, Passing, Behind
  <2>2. Place(idom[new]) > turn
    BY <1>5, <2>1
  <2>3. QED
    BY <2>1, <2>2 DEF Behind
<1>8. /\ \A a \in Blocks : Strictly(a, Node) => OnEveryPath(a, other') /\ OnEveryPath(a, new')
      /\ \A p \in Candidates \ left' : new' \in Dominators(p) \/ other' \in Dominators(p)
  BY <1>1, <1>3, <1>5, <1>6
<1>9. QED
  BY <1>1, <1>2, <1>3, <1>7, <1>8, Walks

LEMMA TreeIntersects ==
    ASSUME DomInv, Intersect
    PROVE  TreeInv'
<1>1. /\ progress = "intersect" /\ progress' = "intersect"
      /\ graph' = graph /\ postorder' = postorder /\ idom' = idom /\ turn' = turn /\ changed' = changed
      /\ other = new /\ left # {} /\ other' = Earliest(left) /\ left' = left \ {other'} /\ new' = new
  BY DEF Intersect, search
<1>2. /\ Graph /\ Placed /\ Climbing /\ Sound /\ Passing
      /\ \A a \in Blocks : Strictly(a, Node) => \A p \in PredecessorsOf(Node) : OnEveryPath(a, p)
  BY <1>1, PassFacts
<1>3. /\ new \in Behind /\ left \subseteq Candidates
      /\ \A a \in Blocks : Strictly(a, Node) => OnEveryPath(a, new)
      /\ \A p \in Candidates \ left : new \in Dominators(p)
  BY <1>1 DEF DomInv, TreeInv, Intersecting
<1>4. left \in SUBSET InOrder
  BY <1>3 DEF Candidates, PredecessorsOf
<1>5. other' \in left
  BY <1>1, <1>2, <1>4, EarliestFacts
<1>6. other' \in Treed /\ other' \in Dominators(other')
  BY <1>2, <1>3, <1>5, UpReached DEF Candidates
<1>7. \A a \in Blocks : Strictly(a, Node) => OnEveryPath(a, other')
  BY <1>2, <1>3, <1>5 DEF Candidates
<1>8. \A p \in Candidates \ left' : new \in Dominators(p) \/ other' \in Dominators(p)
  BY <1>1, <1>3, <1>6
<1>9. \A a \in Blocks : Strictly(a, Node) => OnEveryPath(a, other') /\ OnEveryPath(a, new')
  BY <1>1, <1>3, <1>7
<1>10. \A p \in Candidates \ left' : new' \in Dominators(p) \/ other' \in Dominators(p)
  BY <1>1, <1>8
<1>11. new' \in Behind /\ left' \subseteq Candidates
  BY <1>1, <1>3
<1>12. QED
  BY <1>1, <1>2, <1>6, <1>9, <1>10, <1>11, Walks

\* The block looked at gets what the walks have met at.
LEMMA Settles ==
    ASSUME DomInv, Settle
    PROVE  /\ Graph /\ Ordered /\ Placed /\ Climbing /\ Passing /\ Node \in InOrder \ {Root}
           /\ graph' = graph /\ postorder' = postorder
           /\ Treed' = Treed \cup {Node} /\ idom'[Node] = new /\ \A b \in Treed : b # Node => idom'[b] = idom[b]
           /\ Climbing' /\ Sound'
           /\ \A p \in Candidates : new \in Dominators(p)
<1>1. /\ progress = "intersect" /\ other = new /\ left = {}
      /\ graph' = graph /\ postorder' = postorder
      /\ idom' = [b \in Treed \cup {Node} |-> IF b = Node THEN new ELSE idom[b]]
  BY DEF Settle, search, Treed
<1>2. /\ Graph /\ Ordered /\ Placed /\ Climbing /\ Sound /\ Passing
      /\ Node \in InOrder \ {Root} /\ Place(Node) = turn
  BY <1>1, PassFacts
<1>3. /\ new \in Treed /\ new \in Behind
      /\ \A a \in Blocks : Strictly(a, Node) => OnEveryPath(a, new)
      /\ \A p \in Candidates : new \in Dominators(p)
  BY <1>1 DEF DomInv, TreeInv, Intersecting
<1>4. Treed' = Treed \cup {Node} /\ idom'[Node] = new /\ \A b \in Treed : b # Node => idom'[b] = idom[b]
  BY <1>1 DEF Treed
<1>5. /\ InOrder' = InOrder
      /\ \A b : Place(b)' = Place(b)
      /\ \A a, b : OnEveryPath(a, b)' = OnEveryPath(a, b) /\ Strictly(a, b)' = Strictly(a, b)
  BY <1>1, Same
<1>6. Climbing'
  <2>1. idom' \in [Treed' -> Blocks \cup {NoBlock}]
    BY <1>1, <1>2, <1>3, <1>4 DEF Climbing, Placed
  <2>2. Root \in Treed' /\ Treed' \subseteq InOrder' /\ idom'[Root] = NoBlock
    BY <1>2, <1>4, <1>5 DEF Climbing
  <2>3. ASSUME NEW b \in Treed' \ {Root} PROVE idom'[b] \in Treed' /\ Place(idom'[b]) > Place(b)
    <3>1. CASE b = Node
      BY <1>2, <1>3, <1>4, <3>1 DEF Behind
    <3>2. CASE b # Node
      BY <1>2, <1>4, <3>2 DEF Climbing
    <3>3. QED
      BY <3>1, <3>2
  <2>4. (\A b \in Treed \ {Root} : idom[b] \in Treed /\ Place(idom[b]) > Place(b))'
    BY <1>1, <2>3 DEF Place
  <2>5. QED
    BY <2>1, <2>2, <2>4 DEF Climbing
<1>7. Sound'
  <2>1. ASSUME NEW b \in Treed' \ {Root}, NEW a \in Blocks, Strictly(a, b) PROVE OnEveryPath(a, idom'[b])
    <3>1. CASE b = Node
      BY <1>3, <1>4, <2>1, <3>1
    <3>2. CASE b # Node
      BY <1>2, <1>4, <2>1, <3>2 DEF Sound
    <3>3. QED
      BY <3>1, <3>2
  <2>2. (\A b \in Treed \ {Root} : \A a \in Blocks : Strictly(a, b) => OnEveryPath(a, idom[b]))'
    BY <1>1, <2>1 DEF Strictly, OnEveryPath, Avoiding
  <2>3. QED
    BY <2>2 DEF Sound
<1>8. QED
  BY <1>1, <1>2, <1>3, <1>4, <1>6, <1>7

\* If that is what it had, all its predecessors were known, and nothing has changed.
LEMMA SettlesTheSame ==
    ASSUME DomInv, Settle, ~changed, ~Differs(Node, new)
    PROVE  /\ idom' = idom /\ Treed = InOrder
           /\ \A m \in (Behind \cup {Node}) \ {Root} : \A p \in PredecessorsOf(m) : idom[m] \in Dominators(p)
<1>1. Node \in Treed /\ idom[Node] = new
  BY DEF Differs, Treed
<1>2. /\ Climbing /\ Passing /\ Treed' = Treed \cup {Node} /\ idom'[Node] = new
      /\ Climbing' /\ \A b \in Treed : b # Node => idom'[b] = idom[b]
      /\ \A p \in Candidates : new \in Dominators(p)
  BY Settles
<1>3. idom' = idom
  <2>1. Treed' = Treed /\ \A b \in Treed : idom'[b] = idom[b]
    BY <1>1, <1>2
  <2>2. idom = [b \in Treed |-> idom[b]] /\ idom' = [b \in Treed' |-> idom'[b]]
    BY <1>2 DEF Climbing
  <2>3. QED
    BY <2>1, <2>2
<1>4. Treed = InOrder
  <2>1. Node \notin Behind
    BY PassFacts DEF Settle
  <2>2. QED
    BY <1>1, <1>2, <2>1 DEF Passing
<1>5. Candidates = PredecessorsOf(Node)
  BY <1>4 DEF Candidates, PredecessorsOf
<1>6. QED
  BY <1>1, <1>2, <1>3, <1>4, <1>5 DEF Passing

LEMMA TreeSettles ==
    ASSUME DomInv, Settle
    PROVE  TreeInv'
<1>1. /\ Graph /\ Ordered /\ Placed /\ Climbing /\ Passing /\ Node \in InOrder \ {Root}
      /\ graph' = graph /\ postorder' = postorder
      /\ Treed' = Treed \cup {Node} /\ Climbing' /\ Sound'
  BY Settles
<1>2. progress = "intersect" /\ turn \in 1..(Last - 1) /\ Place(Node) = turn /\ Node \notin Behind /\ changed \in BOOLEAN
  BY PassFacts DEF Settle, Passing
<1>3. /\ Last \in Nat /\ turn \in Nat
      /\ \A b \in InOrder : Place(b) \in 1..Last
      /\ \A b, c \in InOrder : Place(b) = Place(c) => b = c
  BY <1>1, <1>2 DEF Placed
<1>4. /\ InOrder' = InOrder /\ Last' = Last /\ Graph' /\ Ordered'
      /\ \A b : Place(b)' = Place(b) /\ PredecessorsOf(b)' = PredecessorsOf(b)
  BY <1>1, Same
<1> DEFINE changes == changed \/ Differs(Node, new)
<1>5. CASE turn > 1
  <2>1. progress' = "choose" /\ turn' = turn - 1 /\ changed' = changes
    BY <1>5 DEF Settle
  <2>2. Behind' = Behind \cup {Node}
    <3>1. Behind' = {m \in InOrder : Place(m) > turn - 1}
      BY <1>1, <1>4, <2>1 DEF Behind, Place
    <3>2. \A m \in InOrder : Place(m) > turn - 1 <=> (Place(m) > turn \/ m = Node)
      BY <1>1, <1>2, <1>3
    <3>3. QED
      BY <1>1, <3>1, <3>2 DEF Behind
  <2>3. turn' \in 1..(Last' - 1) /\ changed' \in BOOLEAN
    BY <1>2, <1>3, <1>4, <1>5, <2>1
  <2>4. Behind' \subseteq Treed' /\ (Treed' = InOrder' \/ Treed' = Behind')
    BY <1>1, <1>4, <2>2 DEF Passing
  <2>5. ASSUME ~changed'
        PROVE  (\A m \in Behind \ {Root} : \A p \in PredecessorsOf(m) : p \in Treed /\ idom[m] \in Dominators(p))'
    <3>1. /\ idom' = idom /\ Treed = InOrder
          /\ \A m \in (Behind \cup {Node}) \ {Root} : \A p \in PredecessorsOf(m) : idom[m] \in Dominators(p)
      BY <2>1, <2>5, SettlesTheSame
    <3>2. \A b : Dominators(b)' = Dominators(b)
      BY <1>1, <3>1, SameTree
    <3>3. \A m : \A p \in PredecessorsOf(m) : p \in InOrder
      BY DEF PredecessorsOf
    <3>4. QED
      BY <1>1, <1>4, <2>2, <3>1, <3>2, <3>3
  <2>6. Passing'
    BY <2>3, <2>4, <2>5 DEF Passing
  <2>7. QED
    BY <1>1, <2>1, <2>6 DEF TreeInv
<1>6. CASE turn = 1
  <2>1. Behind \cup {Node} = InOrder
    <3>1. \A m \in InOrder : Place(m) > turn \/ m = Node
      BY <1>1, <1>2, <1>3, <1>6
    <3>2. QED
      BY <1>1, <3>1 DEF Behind
  <2>2. Treed' = InOrder
    BY <1>1, <2>1 DEF Passing, Climbing
  <2>3. CASE changes
    <3>1. StartPass(postorder)
      BY <1>6, <2>3 DEF Settle
    <3>2. Started'
      BY <1>1, <1>4, <2>2, <3>1 DEF Started, StartPass, Last
    <3>3. QED
      BY <3>2, PassStarts, PTL
  <2>4. CASE ~changes
    <3>1. progress' = "done"
      BY <1>6, <2>4 DEF Settle
    <3>2. /\ idom' = idom
          /\ \A m \in InOrder \ {Root} : \A p \in PredecessorsOf(m) : idom[m] \in Dominators(p)
      BY <2>1, <2>4, SettlesTheSame
    <3>3. Complete
      BY <1>1, <2>2, <3>2 DEF Complete, Treed
    <3>4. Complete'
      BY <1>1, <3>2, <3>3, SameTree
    <3>5. QED
      BY <1>1, <3>1, <3>4 DEF TreeInv
  <2>5. QED
    BY <2>3, <2>4
<1>7. turn > 1 \/ turn = 1
  BY <1>2, <1>3
<1>8. QED
  BY <1>5, <1>6, <1>7

\* The search and the passes keep their invariant.
THEOREM TreeInvariant == Spec => []DomInv
<1>1. Init => DomInv
  BY SearchStart, TreeStart DEF DomInv
<1>2. DomInv /\ [Next]_vars => DomInv'
  <2> SUFFICES ASSUME DomInv, [Next]_vars PROVE DomInv'
    OBVIOUS
  <2>1. SearchInv /\ TreeInv
    BY DEF DomInv
  <2>2. CASE (\E b \in Blocks : Visit(b)) \/ Leave
    <3>1. SearchInv'
      BY <2>1, <2>2, SearchVisits, SearchLeaves
    <3>2. QED
      BY <2>2, <3>1, TreeSearches DEF DomInv
  <2>3. CASE Choose
    BY <2>1, <2>3, SearchStays, TreeChooses DEF Choose, DomInv
  <2>4. CASE ClimbOther
    BY <2>1, <2>4, SearchStays, TreeClimbsOther DEF ClimbOther, DomInv
  <2>5. CASE ClimbNew
    BY <2>1, <2>5, SearchStays, TreeClimbsNew DEF ClimbNew, DomInv
  <2>6. CASE Intersect
    BY <2>1, <2>6, SearchStays, TreeIntersects DEF Intersect, DomInv
  <2>7. CASE Settle
    <3>1. progress = "intersect" /\ progress' # "visit" /\ UNCHANGED <<graph, search>>
      BY <2>7 DEF Settle, StartPass
    <3>2. QED
      BY <2>1, <2>7, <3>1, SearchStays, TreeSettles DEF DomInv
  <2>8. CASE UNCHANGED vars
    <3>1. /\ UNCHANGED <<graph, search>> /\ graph' = graph /\ postorder' = postorder /\ idom' = idom
          /\ progress' = progress /\ turn' = turn /\ changed' = changed
          /\ other' = other /\ new' = new /\ left' = left
      BY <2>8 DEF vars, search, walk
    <3>2. SearchInv'
      BY <2>1, <3>1, SearchStays
    <3>3. Passing' = Passing /\ Behind' = Behind /\ Candidates' = Candidates /\ Node' = Node
      BY <3>1, SameTurn
    <3>4. /\ Climbing' = Climbing /\ Sound' = Sound /\ Treed' = Treed /\ Complete' = Complete
          /\ \A b : Dominators(b)' = Dominators(b)
      BY <3>1, SameTree
    <3>5. \A a, b : OnEveryPath(a, b)' = OnEveryPath(a, b) /\ Strictly(a, b)' = Strictly(a, b)
      BY <3>1, Same
    <3>6. Intersecting' = Intersecting
      BY <3>1, <3>3, <3>4, <3>5 DEF Intersecting, Strictly, OnEveryPath, Avoiding
    <3>7. TreeInv'
      BY <2>1, <3>1, <3>3, <3>4, <3>6 DEF TreeInv
    <3>8. QED
      BY <3>2, <3>7 DEF DomInv
  <2>9. QED
    BY <2>2, <2>3, <2>4, <2>5, <2>6, <2>7, <2>8 DEF Next
<1>3. QED
  BY <1>1, <1>2, PTL DEF Spec

-----------------------------------------------------------------------------
(* What the tree says in the end.                                          *)

Finished == Graph /\ Ordered /\ Placed /\ Climbing /\ Sound /\ Complete

LEMMA AtTheEnd == DomInv /\ progress = "done" => Finished
<1> SUFFICES ASSUME DomInv, progress = "done" PROVE Finished
  OBVIOUS
<1>1. Graph /\ Ordered /\ Climbing /\ Sound /\ Complete
  BY DEF DomInv, SearchInv, TreeInv
<1>2. QED
  BY <1>1, PlaceFacts DEF Finished

LEMMA TreeTells ==
    ASSUME Finished, NEW a \in InOrder, NEW b \in InOrder
    PROVE  a \in Dominators(b) <=> OnEveryPath(a, b)
<1>1. a \in Blocks /\ b \in Treed
  BY DEF Finished, Placed, Complete
<1>2. OnEveryPath(a, b) => a \in Dominators(b)
  BY <1>1, OnPathsIsAbove DEF Finished
<1>3. a \in Dominators(b) => OnEveryPath(a, b)
  BY AboveIsOnPaths DEF Finished
<1>4. QED
  BY <1>2, <1>3

LEMMA DominatorsInEnd == Finished => InOrder = ReachedFromRoot /\ DOMAIN idom = ReachedFromRoot
BY DEF Finished, Ordered, Complete, Treed

\* Of two blocks on the way up from one, one is on the way up from the other.
LEMMA OneWayUp ==
    ASSUME Placed, Climbing, NEW p \in Treed, NEW x \in Dominators(p), NEW e \in Dominators(p)
    PROVE  e \in Dominators(x) \/ x \in Dominators(e)
<1> DEFINE C == {y \in Treed : y \in Dominators(p) /\ \A d \in Dominators(p) : d \in Dominators(y) \/ y \in Dominators(d)}
<1>1. p \in C
  BY UpReached
<1>2. ASSUME NEW y \in C \cap (Treed \ {Root}) PROVE idom[y] \in C
  <2>1. idom[y] \in Treed /\ idom[y] \in Dominators(p)
    BY UpReached DEF Climbing
  <2>2. ASSUME NEW d \in Dominators(p) PROVE d \in Dominators(idom[y]) \/ idom[y] \in Dominators(d)
    <3>1. d \in Treed
      BY UpReached
    <3>2. CASE y \in Dominators(d)
      BY <1>2, <3>1, <3>2, UpReached
    <3>3. CASE d \in Dominators(y)
      <4>1. d = y \/ d \in Dominators(idom[y])
        BY <1>2, <3>3, UpFacts
      <4>2. idom[y] \in Dominators(y)
        BY <1>2, UpReached
      <4>3. QED
        BY <4>1, <4>2
    <3>4. QED
      BY <1>2, <3>2, <3>3
  <2>3. QED
    BY <2>1, <2>2
<1> HIDE DEF C
<1>3. Dominators(p) \subseteq C
  BY <1>1, <1>2, UpReached
<1>4. QED
  BY <1>3 DEF C

\* A runner from a block to one above it passes what is above the one and not the other.
LEMMA RunnersFacts ==
    ASSUME Placed, Climbing, NEW p \in Treed, NEW end \in Dominators(p)
    PROVE  Runners(p, end) = Dominators(p) \ Dominators(end)
<1> DEFINE edges == [c \in Blocks |-> Up(c) \ {end}]
           from == {p} \ {end}
           D == Dominators(p) \ Dominators(end)
           R == Reached(edges, from)
<1>1. end \in Treed /\ p \in Dominators(p) /\ Dominators(p) \subseteq Treed /\ end \in Dominators(end)
  BY UpReached
<1>2. Treed \subseteq Blocks /\ NoBlock \notin Blocks /\ NoBlock \notin Treed
  BY DominanceAssumption DEF Placed, Climbing
<1>3. /\ \A c \in Treed \ {Root} : Up(c) = {idom[c]} /\ idom[c] \in Treed
      /\ \A c \in Blocks : c \notin Treed \/ c = Root => Up(c) = {}
  BY <1>2 DEF Up, Climbing, Treed
<1>4. \A c \in Blocks : edges[c] = Up(c) \ {end} /\ edges[c] \subseteq Treed
  BY <1>3
<1>5. edges \in [Blocks -> SUBSET Blocks] /\ from \in SUBSET Blocks
  BY <1>2, <1>4
<1>6. Runners(p, end) = R
  BY DEF Runners
<1> HIDE DEF edges, from
<1>7. /\ from \subseteq R
      /\ \A x \in R : edges[x] \subseteq R
      /\ R \subseteq Blocks
  BY <1>5, ReachedFacts
<1>8. \A C : from \subseteq C /\ (\A x \in C \cap Blocks : edges[x] \subseteq C) => R \subseteq C
  BY <1>5, ReachedFacts
<1> HIDE DEF R
<1>9. R \subseteq D
  <2>1. from \subseteq D
    <3>1. CASE p # end
      <4>1. Place(end) > Place(p) /\ Place(end) \in Nat /\ Place(p) \in Nat
        BY <1>1, <3>1, UpFacts DEF Placed, Climbing
      <4>2. p \notin Dominators(end)
        BY <1>1, <4>1, UpFacts
      <4>3. QED
        BY <1>1, <4>2 DEF from
    <3>2. QED
      BY <3>1 DEF from
  <2>2. ASSUME NEW x \in D \cap Blocks, NEW y \in edges[x] PROVE y \in D
    <3>1. x \in Treed /\ x # Root /\ y = idom[x] /\ y # end /\ y \in Treed
      BY <1>1, <1>3, <1>4, <2>2
    <3>2. y \in Dominators(p)
      BY <3>1, UpReached
    <3>3. end \in Dominators(y)
      <4>1. end \in Dominators(x)
        BY OneWayUp
      <4>2. x # end
        BY <1>1
      <4>3. QED
        BY <3>1, <4>1, <4>2, UpFacts
    <3>4. y \notin Dominators(end)
      <4>1. Place(end) > Place(y) /\ Place(end) \in Nat /\ Place(y) \in Nat
        BY <1>1, <3>1, <3>3, UpFacts DEF Placed, Climbing
      <4>2. QED
        BY <1>1, <4>1, UpFacts
    <3>5. QED
      BY <3>2, <3>4
  <2>3. \A x \in D \cap Blocks : edges[x] \subseteq D
    BY <2>2
  <2> HIDE DEF D
  <2>4. QED
    BY <1>8, <2>1, <2>3
<1>10. D \subseteq R
  <2> DEFINE C == R \cup Dominators(end)
  <2>1. p \in C
    BY <1>1, <1>7 DEF from
  <2>2. ASSUME NEW x \in C \cap (Treed \ {Root}) PROVE idom[x] \in C
    <3>1. CASE x \in R
      BY <1>1, <1>2, <1>3, <1>4, <1>7, <3>1
    <3>2. CASE x \in Dominators(end)
      BY <1>1, <2>2, <3>2, UpReached
    <3>3. QED
      BY <2>2, <3>1, <3>2
  <2> HIDE DEF C
  <2>3. Dominators(p) \subseteq C
    BY <2>1, <2>2, UpReached
  <2>4. QED
    BY <2>3 DEF C
<1>11. QED
  BY <1>6, <1>9, <1>10

\* A single predecessor is the immediate dominator: there is nothing between.
LEMMA SinglePredecessor ==
    ASSUME Finished, NEW n \in InOrder \ {Root}, NEW p, PredecessorsOf(n) = {p}
    PROVE  p = idom[n]
<1>0. Graph /\ Ordered /\ Placed /\ Climbing /\ Sound /\ Complete
  BY DEF Finished
<1>1. p \in InOrder /\ p \in Treed /\ n \in Treed /\ p \in Blocks
  BY <1>0 DEF Complete, PredecessorsOf, Placed
<1>2. Place(p) > Place(n) /\ Place(p) \in Nat /\ Place(n) \in Nat
  BY <1>0, <1>1 DEF Placed
<1>3. Strictly(p, n)
  <2>1. ASSUME NEW q \in Blocks, n \in graph[q] PROVE OnEveryPath(p, q)
    <3>1. CASE q \in InOrder
      <4>1. q = p
        BY <2>1, <3>1 DEF PredecessorsOf
      <4>2. QED
        BY <1>0, <4>1, OnPaths
    <3>2. CASE q \notin InOrder
      <4>1. Avoiding(p) \subseteq ReachedFromRoot
        <5> DEFINE C == ReachedFromRoot
        <5>1. {Root} \ {p} \subseteq C /\ \A x \in C \cap Blocks : graph[x] \ {p} \subseteq C
          BY <1>0, ReachableFacts
        <5> HIDE DEF C
        <5>2. Avoiding(p) \subseteq C
          BY <1>0, <5>1, AvoidingFacts
        <5>3. QED
          BY <5>2 DEF C
      <4>2. QED
        BY <1>0, <3>2, <4>1 DEF Ordered, OnEveryPath
    <3>3. QED
      BY <3>1, <3>2
  <2>2. p # n
    BY <1>2
  <2>3. QED
    BY <1>0, <2>1, <2>2, OnPaths DEF Strictly
<1>4. idom[n] \in Treed /\ OnEveryPath(p, idom[n])
  BY <1>0, <1>1, <1>3 DEF Climbing, Sound
<1>5. p \in Dominators(idom[n])
  BY <1>0, <1>1, <1>4, OnPathsIsAbove
<1>6. idom[n] \in Dominators(p)
  BY <1>0 DEF Complete
<1>7. p # idom[n] => Place(p) > Place(idom[n]) /\ Place(idom[n]) > Place(p)
  BY <1>0, <1>1, <1>4, <1>5, <1>6, UpFacts
<1>8. Place(p) \in Nat /\ Place(idom[n]) \in Nat
  BY <1>0, <1>1, <1>4 DEF Placed, Climbing
<1>9. QED
  BY <1>7, <1>8

LEMMA FrontierIsExact ==
    ASSUME Finished, NEW b \in InOrder, NEW n \in InOrder \ {Root}
    PROVE  n \in FrontierOf(b) <=>
              /\ \E p \in InOrder : n \in graph[p] /\ OnEveryPath(b, p)
              /\ ~(b # n /\ OnEveryPath(b, n))
<1>0. Graph /\ Ordered /\ Placed /\ Climbing /\ Sound /\ Complete
  BY DEF Finished
<1> DEFINE u == idom[n]
           P == PredecessorsOf(n)
<1>1. n \in Treed /\ u \in Treed /\ Place(u) > Place(n) /\ Place(u) \in Nat /\ Place(n) \in Nat
  BY <1>0 DEF Complete, Climbing, Placed
<1>2. b \in Dominators(u) <=> b # n /\ OnEveryPath(b, n)
  <2>1. Dominators(n) = {n} \cup Dominators(u)
    BY <1>0, <1>1, UpFacts
  <2>2. n \notin Dominators(u)
    BY <1>0, <1>1, UpFacts
  <2>3. b \in Dominators(n) <=> OnEveryPath(b, n)
    BY TreeTells
  <2>4. QED
    BY <2>1, <2>2, <2>3
<1>3. ASSUME NEW p \in P
      PROVE  /\ p \in InOrder /\ p \in Treed /\ (b \in Dominators(p) <=> OnEveryPath(b, p))
             /\ b \in Runners(p, u) <=> OnEveryPath(b, p) /\ b \notin Dominators(u)
  <2>1. p \in InOrder /\ p \in Treed /\ u \in Dominators(p)
    BY <1>0 DEF Complete, PredecessorsOf
  <2>2. b \in Dominators(p) <=> OnEveryPath(b, p)
    BY <2>1, TreeTells
  <2>3. Runners(p, u) = Dominators(p) \ Dominators(u)
    BY <1>0, <2>1, RunnersFacts
  <2>4. QED
    BY <2>1, <2>2, <2>3
<1>4. (\E p \in InOrder : n \in graph[p] /\ OnEveryPath(b, p)) <=> \E p \in P : OnEveryPath(b, p)
  BY DEF PredecessorsOf
<1>5. n \in FrontierOf(b) <=> Cardinality(P) > 1 /\ \E p \in P : b \in Runners(p, u)
  BY DEF FrontierOf
\* From the single predecessor of a block, one that is on every path to it is above the
\* block too.
<1>6. ASSUME NEW q \in P, OnEveryPath(b, q), b \notin Dominators(u) PROVE Cardinality(P) > 1
  <2>1. IsFiniteSet(P)
    <3>1. P \subseteq Blocks
      BY <1>0 DEF PredecessorsOf, Placed
    <3>2. QED
      BY <3>1, DominanceAssumption, FS_Subset
  <2>2. Cardinality(P) \in Nat /\ Cardinality(P) # 0
    BY <2>1, <1>6, FS_CardinalityType, FS_EmptySet
  <2>3. Cardinality(P) # 1
    <3> SUFFICES ASSUME Cardinality(P) = 1 PROVE FALSE
      OBVIOUS
    <3>1. PICK p : P = {p}
      BY <2>1, FS_Singleton
    <3>2. p = u /\ q = p
      BY <1>6, <3>1, SinglePredecessor
    <3>3. QED
      BY <1>3, <1>6, <3>2
  <2>4. QED
    BY <2>2, <2>3
<1> HIDE DEF P, u
<1>7. QED
  BY <1>2, <1>3, <1>4, <1>5, <1>6

\* For every graph and root: when the passes are over, the tree has the blocks that are
\* reached, and of every two it says whether all paths to the one lead through the other.
THEOREM DominanceIsExact == Spec => []DominatorsAreExact
<1>1. DomInv => DominatorsAreExact
  <2> SUFFICES ASSUME DomInv, progress = "done" PROVE DominatorsAreExact
    BY DEF DominatorsAreExact
  <2>1. Finished
    BY AtTheEnd
  <2>2. InOrder = ReachedFromRoot /\ DOMAIN idom = ReachedFromRoot
    BY <2>1, DominatorsInEnd
  <2>3. QED
    BY <2>1, <2>2, TreeTells DEF DominatorsAreExact
<1>2. QED
  BY <1>1, TreeInvariant, PTL

\* And the frontier of each block has the blocks that are reached both through it and not.
THEOREM FrontierIsTheBoundary == Spec => []FrontiersAreExact
<1>1. DomInv => FrontiersAreExact
  <2> SUFFICES ASSUME DomInv, progress = "done" PROVE FrontiersAreExact
    BY DEF FrontiersAreExact
  <2>1. Finished
    BY AtTheEnd
  <2>2. InOrder = ReachedFromRoot
    BY <2>1, DominatorsInEnd
  <2>3. QED
    BY <2>1, <2>2, FrontierIsExact DEF FrontiersAreExact
<1>2. QED
  BY <1>1, TreeInvariant, PTL

\* For every graph and root, then, the finished tree is what dominance is.
THEOREM TreeIsDominance == Spec => []TreeIsExact
<1>1. DominatorsAreExact /\ FrontiersAreExact => TreeIsExact
  BY DEF TreeIsExact
<1>2. QED
  BY <1>1, DominanceIsExact, FrontierIsTheBoundary, PTL

\* No pass looks at a block that has no predecessor in the tree, or climbs above the root.
THEOREM NothingIsMissing == Spec => []PassesFindTheirWay
<1>1. DomInv => PassesFindTheirWay
  <2> SUFFICES ASSUME DomInv PROVE PassesFindTheirWay
    OBVIOUS
  <2>1. progress = "choose" => PredecessorsOf(Node) \cap DOMAIN idom # {}
    BY PassFacts DEF Candidates, Treed
  <2>2. ASSUME progress = "intersect" PROVE {other, new} \subseteq Treed
    <3>1. Passing
      BY <2>2, PassFacts
    <3>2. QED
      BY <2>2, <3>1 DEF DomInv, TreeInv, Intersecting, Passing
  <2>3. QED
    BY <2>1, <2>2 DEF PassesFindTheirWay, Treed
<1>2. QED
  BY <1>1, TreeInvariant, PTL

=============================================================================
