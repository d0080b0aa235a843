--------------------------------- MODULE Closures --------------------------------
(***************************************************************************)
(* Induction over the natural numbers by a least counterexample, and what  *)
(* iterating successors from a set of starting points computes: several    *)
(* modules close a graph that way, step by step and up to a bound.         *)
(***************************************************************************)
EXTENDS Integers, FiniteSets, FiniteSetTheorems, TLAPS

\* g[n] is what n steps lead to from the points of S, where E[x] is what x leads to.
Iteration(g, bound, V, E, S) ==
    /\ g \in [0..bound -> SUBSET V]
    /\ g[0] = S
    /\ \A n \in 1..bound : g[n] = g[n - 1] \cup UNION {E[x] : x \in g[n - 1]}

ClosedUnder(C, E) == \A x \in C : E[x] \subseteq C

-----------------------------------------------------------------------------
\* A set of natural numbers that is not empty has a least element.
LEMMA LeastNumber ==
    ASSUME NEW T \in SUBSET Nat, T # {}
    PROVE  \E n \in T : \A m \in T : n <= m
<1> DEFINE R == OpToRel(<, Nat)
<1>1. IsWellFoundedOn(R, Nat)
  BY NatLessThanWellFounded
<1>2. \A m, n \in Nat : m < n => <<m, n>> \in R
  BY DEF OpToRel
<1> HIDE DEF R
<1>3. PICK n \in T : \A m \in T : ~(<<m, n>> \in R)
  BY <1>1, WFMin
<1>4. \A m \in T : ~(m < n)
  BY <1>2, <1>3, Zenon
<1>5. \A m \in T : n <= m
  BY <1>4
<1>6. QED
  BY <1>5

\* Induction: a set that holds 0, and each number below a bound with the one before,
\* holds all numbers up to the bound.
LEMMA UpTo ==
    ASSUME NEW bound \in Nat, NEW H,
           0 \in H, \A n \in 1..bound : n - 1 \in H => n \in H
    PROVE  \A n \in 0..bound : n \in H
<1> DEFINE T == {n \in 0..bound : n \notin H}
<1>1. SUFFICES ASSUME T # {} PROVE FALSE
  OBVIOUS
<1>2. PICK n \in T : \A m \in T : n <= m
  <2>1. T \in SUBSET Nat
    OBVIOUS
  <2> HIDE DEF T
  <2>2. QED
    BY <1>1, <2>1, LeastNumber
<1>3. n \in 1..bound
  BY <1>2
<1>4. n - 1 \in H
  <2>1. n - 1 \in 0..bound /\ ~(n <= n - 1)
    BY <1>3
  <2>2. n - 1 \notin T
    BY <1>2, <2>1
  <2>3. QED
    BY <2>1, <2>2
<1>5. QED
  BY <1>2, <1>3, <1>4

-----------------------------------------------------------------------------
\* The iteration is defined for every bound.
LEMMA IterationExists ==
    ASSUME NEW V, NEW E \in [V -> SUBSET V], NEW S \in SUBSET V, NEW bound \in Nat
    PROVE  \E g : Iteration(g, bound, V, E, S)
<1> DEFINE H == {n \in Nat : \E g : Iteration(g, n, V, E, S)}
<1>1. 0 \in H
  <2>1. Iteration([i \in 0..0 |-> S], 0, V, E, S)
    BY DEF Iteration
  <2>2. QED
    BY <2>1
<1>2. ASSUME NEW n \in 1..bound, n - 1 \in H PROVE n \in H
  <2>1. PICK g : Iteration(g, n - 1, V, E, S)
    BY <1>2
  <2> DEFINE next == g[n - 1] \cup UNION {E[x] : x \in g[n - 1]}
             h == [i \in 0..n |-> IF i = n THEN next ELSE g[i]]
  <2>2. n \in Nat /\ n > 0 /\ \A i \in 0..n : i # n => i \in 0..(n - 1)
    BY <1>2
  <2>3. \A i \in 0..(n - 1) : g[i] \in SUBSET V
    BY <2>1 DEF Iteration
  <2>4. next \in SUBSET V
    BY <2>2, <2>3
  <2>5. h \in [0..n -> SUBSET V]
    BY <2>2, <2>3, <2>4
  <2>6. h[0] = S
    BY <2>1, <2>2 DEF Iteration
  <2>7. ASSUME NEW i \in 1..n PROVE h[i] = h[i - 1] \cup UNION {E[x] : x \in h[i - 1]}
    <3>1. h[i - 1] = g[i - 1]
      BY <2>2, <2>7
    <3>2. CASE i = n
      BY <2>2, <3>1, <3>2
    <3>3. CASE i # n
      <4>1. i \in 1..(n - 1) /\ h[i] = g[i]
        BY <2>2, <2>7, <3>3
      <4>2. QED
        BY <2>1, <3>1, <4>1 DEF Iteration
    <3>4. QED
      BY <3>2, <3>3
  <2> HIDE DEF h, next
  <2>8. Iteration(h, n, V, E, S)
    BY <2>5, <2>6, <2>7 DEF Iteration
  <2>9. QED
    BY <2>2, <2>8
<1> HIDE DEF H
<1>3. bound \in H
  BY <1>1, <1>2, UpTo
<1>4. QED
  BY <1>3 DEF H

\* It stays in every set that holds the starting points and what its points lead to.
LEMMA IterationIsLeast ==
    ASSUME NEW V, NEW E \in [V -> SUBSET V], NEW S \in SUBSET V, NEW bound \in Nat,
           NEW g, Iteration(g, bound, V, E, S),
           NEW C, S \subseteq C, ClosedUnder(C \cap V, E)
    PROVE  \A n \in 0..bound : g[n] \subseteq C
<1> DEFINE H == {n \in Nat : n <= bound => g[n] \subseteq C}
<1>1. 0 \in H
  BY DEF Iteration
<1>2. ASSUME NEW n \in 1..bound, n - 1 \in H PROVE n \in H
  <2>1. n - 1 \in 0..bound /\ g[n - 1] \subseteq C /\ n \in Nat
    BY <1>2
  <2>2. g[n - 1] \subseteq V
    BY <2>1 DEF Iteration
  <2>3. g[n] = g[n - 1] \cup UNION {E[x] : x \in g[n - 1]}
    BY <1>2 DEF Iteration
  <2>4. UNION {E[x] : x \in g[n - 1]} \subseteq C
    BY <2>1, <2>2 DEF ClosedUnder
  <2>5. g[n] \subseteq C
    BY <2>1, <2>3, <2>4
  <2>6. QED
    BY <2>1, <2>5
<1>3. \A n \in 0..bound : n \in H
  <2> HIDE DEF H
  <2>1. QED
    BY <1>1, <1>2, UpTo
<1>4. QED
  BY <1>3

\* It never loses a point.
LEMMA IterationGrows ==
    ASSUME NEW V, NEW E \in [V -> SUBSET V], NEW S \in SUBSET V, NEW bound \in Nat,
           NEW g, Iteration(g, bound, V, E, S)
    PROVE  \A n \in 0..bound : S \subseteq g[n]
<1> DEFINE H == {n \in Nat : n <= bound => S \subseteq g[n]}
<1>1. 0 \in H
  BY DEF Iteration
<1>2. ASSUME NEW n \in 1..bound, n - 1 \in H PROVE n \in H
  <2>1. n - 1 <= bound /\ n \in Nat /\ S \subseteq g[n - 1]
    BY <1>2
  <2>2. g[n - 1] \subseteq g[n]
    BY <1>2 DEF Iteration
  <2>3. QED
    BY <2>1, <2>2
<1>3. \A n \in 0..bound : n \in H
  <2> HIDE DEF H
  <2>1. QED
    BY <1>1, <1>2, UpTo
<1>4. QED
  BY <1>3

\* With as many steps as there are points, it has found all: before that, each step finds
\* a new one or there is none left to find.
LEMMA IterationCloses ==
    ASSUME NEW V, IsFiniteSet(V), NEW E \in [V -> SUBSET V], NEW S \in SUBSET V, NEW bound \in Nat,
           Cardinality(V) <= bound, NEW g, Iteration(g, bound, V, E, S)
    PROVE  ClosedUnder(g[bound], E)
<1> DEFINE H == {n \in Nat : n <= bound => ClosedUnder(g[n], E) \/ n <= Cardinality(g[n])}
<1>1. \A n \in 0..bound : g[n] \subseteq V /\ IsFiniteSet(g[n]) /\ Cardinality(g[n]) \in Nat
  BY FS_Subset, FS_CardinalityType DEF Iteration
<1>2. 0 \in H
  BY <1>1
<1>3. ASSUME NEW n \in 1..bound, n - 1 \in H PROVE n \in H
  <2>1. n - 1 \in 0..bound /\ n \in 0..bound /\ n \in Nat
    BY <1>3
  <2>2. g[n] = g[n - 1] \cup UNION {E[x] : x \in g[n - 1]}
    BY DEF Iteration
  <2>3. CASE g[n] = g[n - 1]
    <3>1. ClosedUnder(g[n], E)
      BY <2>2, <2>3 DEF ClosedUnder
    <3>2. QED
      BY <2>1, <3>1
  <2>4. CASE g[n] # g[n - 1]
    <3>1. g[n - 1] \subseteq g[n]
      BY <2>2
    <3>2. ~ClosedUnder(g[n - 1], E)
      BY <2>2, <2>4 DEF ClosedUnder
    <3>3. n - 1 <= Cardinality(g[n - 1])
      BY <1>3, <2>1, <3>2
    <3>4. Cardinality(g[n - 1]) <= Cardinality(g[n]) /\ Cardinality(g[n - 1]) # Cardinality(g[n])
      BY <1>1, <2>1, <2>4, <3>1, FS_Subset
    <3>5. n <= Cardinality(g[n])
      BY <1>1, <2>1, <3>3, <3>4
    <3>6. QED
      BY <2>1, <3>5
  <2>5. QED
    BY <2>3, <2>4
<1>4. bound \in H
  <2> HIDE DEF H
  <2>1. \A n \in 0..bound : n \in H
    BY <1>2, <1>3, UpTo
  <2>2. QED
    BY <2>1
<1>5. CASE bound <= Cardinality(g[bound])
  <2>1. Cardinality(g[bound]) <= Cardinality(V) /\ (Cardinality(V) = Cardinality(g[bound]) => V = g[bound])
    BY <1>1, FS_Subset
  <2>2. Cardinality(V) \in Nat
    BY FS_CardinalityType
  <2>3. g[bound] = V
    BY <1>1, <1>5, <2>1, <2>2
  <2>4. QED
    BY <2>3 DEF ClosedUnder
<1>6. QED
  BY <1>4, <1>5
-----------------------------------------------------------------------------
(* As a recursive function.                                                *)

Stepping(g, bound, E, S) ==
    g = [n \in 0..bound |->
            IF n = 0 THEN S ELSE LET before == g[n - 1] IN before \cup UNION {E[x] : x \in before}]

\* The recursive function is defined for every bound, and is the iteration.
LEMMA SteppingIterates ==
    ASSUME NEW V, NEW E \in [V -> SUBSET V], NEW S \in SUBSET V, NEW bound \in Nat
    PROVE  /\ \E g : Stepping(g, bound, E, S)
           /\ \A g : Stepping(g, bound, E, S) => Iteration(g, bound, V, E, S)
<1> DEFINE step(g, n) == IF n = 0 THEN S ELSE LET before == g[n - 1] IN before \cup UNION {E[x] : x \in before}
<1>1. PICK h : Iteration(h, bound, V, E, S)
  BY IterationExists
<1>2. h \in [0..bound -> SUBSET V] /\ \A n \in 0..bound : h[n] = step(h, n)
  <2>1. ASSUME NEW n \in 0..bound PROVE n = 0 \/ n \in 1..bound
    OBVIOUS
  <2>2. QED
    BY <1>1, <2>1 DEF Iteration
<1>3. Stepping(h, bound, E, S)
  <2>1. h = [n \in 0..bound |-> step(h, n)]
    <3> HIDE DEF step
    <3>1. QED
      BY <1>2
  <2>2. QED
    BY <2>1 DEF Stepping
<1>4. ASSUME NEW g, Stepping(g, bound, E, S) PROVE g = h
  <2>1. g = [n \in 0..bound |-> step(g, n)]
    BY <1>4 DEF Stepping
  <2> DEFINE H == {n \in Nat : n <= bound => g[n] = h[n]}
  <2>2. ASSUME NEW n \in 0..bound PROVE g[n] = step(g, n)
    <3> HIDE DEF step
    <3>1. QED
      BY <2>1
  <2>3. 0 \in H
    <3>1. 0 \in 0..bound /\ step(g, 0) = S /\ step(h, 0) = S
      OBVIOUS
    <3> HIDE DEF step
    <3>2. QED
      BY <1>2, <2>2, <3>1
  <2>4. ASSUME NEW n \in 1..bound, n - 1 \in H PROVE n \in H
    <3>1. g[n - 1] = h[n - 1] /\ n \in 0..bound /\ n # 0
      BY <2>4
    <3>2. step(g, n) = step(h, n)
      BY <3>1
    <3> HIDE DEF step
    <3>3. QED
      BY <1>2, <2>2, <3>1, <3>2
  <2>5. \A n \in 0..bound : n \in H
    <3> HIDE DEF H
    <3>1. QED
      BY <2>3, <2>4, UpTo
  <2> HIDE DEF step
  <2>6. \A n \in 0..bound : g[n] = h[n]
    BY <2>5
  <2>7. QED
    BY <1>2, <2>1, <2>6
<1>5. QED
  BY <1>1, <1>3, <1>4

\* A finite set of natural numbers that is not empty has a greatest element.
LEMMA GreatestNumber ==
    ASSUME NEW S \in SUBSET Nat, IsFiniteSet(S), S # {}
    PROVE  \E n \in S : \A m \in S : m <= n
<1> DEFINE above(n) == {m \in S : m > n}
           T == {Cardinality(above(n)) : n \in S}
<1>1. \A n \in S : IsFiniteSet(above(n)) /\ Cardinality(above(n)) \in Nat
  BY FS_Subset, FS_CardinalityType
<1>2. T \in SUBSET Nat /\ T # {}
  BY <1>1
<1>3. PICK c \in T : \A d \in T : c <= d
  <2> HIDE DEF T
  <2>1. QED
    BY <1>2, LeastNumber
<1>4. PICK n \in S : c = Cardinality(above(n))
  BY <1>3
<1>5. ASSUME NEW m \in S, m > n PROVE FALSE
  <2> DEFINE A == above(n)
             B == above(m)
  <2>0. m \in Nat /\ n \in Nat /\ m > n /\ ~(m > m)
    BY <1>4, <1>5
  <2>1. B \subseteq A /\ m \in A /\ m \notin B
    <3>1. ASSUME NEW x \in B PROVE x \in A
      <4>1. x \in S /\ x \in Nat /\ x > m
        OBVIOUS
      <4>2. x > n
        BY <2>0, <4>1
      <4>3. QED
        BY <4>1, <4>2
    <3>2. m \in A /\ m \notin B
      BY <2>0
    <3>3. QED
      BY <3>1, <3>2
  <2>2. IsFiniteSet(A) /\ IsFiniteSet(B) /\ Cardinality(A) \in Nat /\ Cardinality(B) \in Nat
    BY <1>1
  <2>3. Cardinality(A) <= Cardinality(B)
    <3>1. Cardinality(above(m)) \in T
      OBVIOUS
    <3>2. QED
      BY <1>3, <1>4, <3>1
  <2> HIDE DEF A, B
  <2>4. Cardinality(B) <= Cardinality(A) /\ (Cardinality(A) = Cardinality(B) => A = B)
    BY <2>1, <2>2, FS_Subset
  <2>5. QED
    BY <2>1, <2>2, <2>3, <2>4
<1>6. \A m \in S : m <= n
  BY <1>5
<1>7. QED
  BY <1>6

-----------------------------------------------------------------------------
(* Steps that need not be unions.                                          *)

\* A function can be computed from the value before, step by step.
LEMMA StepByStep ==
    ASSUME NEW S, NEW first \in S, NEW bound \in Nat, NEW F \in [1..bound -> [S -> S]]
    PROVE  \E g \in [0..bound -> S] : g[0] = first /\ \A n \in 1..bound : g[n] = F[n][g[n - 1]]
<1> DEFINE Partly(g, n) == g \in [0..n -> S] /\ g[0] = first /\ \A k \in 1..n : g[k] = F[k][g[k - 1]]
           H == {n \in Nat : \E g : Partly(g, n)}
<1>1. 0 \in H
  <2>1. Partly([k \in 0..0 |-> first], 0)
    OBVIOUS
  <2>2. QED
    BY <2>1
<1>2. ASSUME NEW n \in 1..bound, n - 1 \in H PROVE n \in H
  <2>1. PICK g : Partly(g, n - 1)
    BY <1>2
  <2>2. n \in Nat /\ n - 1 \in Nat /\ n - 1 \in 0..(n - 1)
    BY <1>2
  <2> DEFINE h == [k \in 0..n |-> IF k = n THEN F[n][g[n - 1]] ELSE g[k]]
  <2>3. F[n][g[n - 1]] \in S
    BY <1>2, <2>1, <2>2
  <2>4. ASSUME NEW k \in 0..n PROVE h[k] \in S
    <3>1. CASE k = n
      BY <2>3, <3>1
    <3>2. CASE k # n
      BY <2>1, <2>2, <3>2
    <3>3. QED
      BY <3>1, <3>2
  <2>5. h \in [0..n -> S]
    BY <2>4
  <2>6. h[0] = first
    BY <2>1, <2>2
  <2>7. ASSUME NEW k \in 1..n PROVE h[k] = F[k][h[k - 1]]
    <3>1. k - 1 \in 0..n /\ k - 1 # n /\ h[k - 1] = g[k - 1]
      BY <2>2
    <3>2. CASE k = n
      BY <3>1, <3>2
    <3>3. CASE k # n
      BY <2>1, <2>2, <3>1, <3>3
    <3>4. QED
      BY <3>2, <3>3
  <2> HIDE DEF h
  <2>8. Partly(h, n)
    BY <2>5, <2>6, <2>7
  <2>9. QED
    BY <2>2, <2>8
<1>3. bound \in H
  <2> HIDE DEF H
  <2>1. \A n \in 0..bound : n \in H
    BY <1>1, <1>2, UpTo
  <2>2. QED
    BY <2>1
<1>4. QED
  BY <1>3

\* A set that only grows, a step at a time, stops once within as many steps as it could
\* have elements, and one.
LEMMA GrowthStops ==
    ASSUME NEW V, IsFiniteSet(V), NEW bound \in Nat, Cardinality(V) <= bound,
           NEW g \in [0..(bound + 1) -> SUBSET V], \A n \in 1..(bound + 1) : g[n - 1] \subseteq g[n]
    PROVE  \E n \in 1..(bound + 1) : g[n] = g[n - 1]
<1> SUFFICES ASSUME \A n \in 1..(bound + 1) : g[n] # g[n - 1] PROVE FALSE
  OBVIOUS
<1> DEFINE size(n) == Cardinality(g[n])
           H == {n \in Nat : n <= bound + 1 => size(n) \in Nat /\ size(n) >= n}
<1>1. \A n \in 0..(bound + 1) : IsFiniteSet(g[n]) /\ size(n) \in Nat
  BY FS_Subset, FS_CardinalityType
<1>2. 0 \in H
  BY <1>1
<1>3. ASSUME NEW n \in 1..(bound + 1), n - 1 \in H PROVE n \in H
  <2>1. n - 1 \in 0..(bound + 1) /\ n \in 0..(bound + 1)
    OBVIOUS
  <2>2. g[n - 1] \subseteq g[n] /\ g[n - 1] # g[n]
    OBVIOUS
  <2>3. size(n - 1) < size(n)
    <3> DEFINE a == g[n - 1]
               b == g[n]
    <3>1. IsFiniteSet(b) /\ a \subseteq b /\ a # b
      BY <1>1, <2>1, <2>2
    <3> HIDE DEF a, b
    <3>2. Cardinality(a) <= Cardinality(b) /\ (Cardinality(a) = Cardinality(b) => a = b)
      BY <3>1, FS_Subset
    <3>3. Cardinality(a) \in Nat /\ Cardinality(b) \in Nat
      BY <3>1, FS_Subset, FS_CardinalityType
    <3>4. Cardinality(a) < Cardinality(b)
      BY <3>1, <3>2, <3>3
    <3>5. QED
      BY <3>4 DEF a, b
  <2>4. size(n - 1) >= n - 1
    BY <1>3, <2>1
  <2>5. size(n - 1) \in Nat /\ size(n) \in Nat
    BY <1>1, <2>1
  <2> HIDE DEF size
  <2>6. QED
    BY <2>1, <2>3, <2>4, <2>5
<1>4. bound + 1 \in H
  <2> HIDE DEF H
  <2>1. \A n \in 0..(bound + 1) : n \in H
    BY <1>2, <1>3, UpTo
  <2>2. QED
    BY <2>1
<1>5. size(bound + 1) >= bound + 1 /\ size(bound + 1) \in Nat
  BY <1>4
<1>6. size(bound + 1) <= Cardinality(V)
  BY FS_Subset
<1>7. Cardinality(V) \in Nat
  BY FS_CardinalityType
<1> HIDE DEF size
<1>8. QED
  BY <1>5, <1>6, <1>7
=============================================================================
