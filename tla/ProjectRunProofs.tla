---------------------------- MODULE ProjectRunProofs ---------------------------
(***************************************************************************)
(* Proofs about runs over a project and its cache, for any files, imports, *)
(* workers, edits, crashes and lost entries: a worker finds the entries it *)
(* needs, a key names what its entry was computed from, what a run reports *)
(* was computed from what it read, and, where no two files of a run can be *)
(* imported by one name, what a run reports is what an analysis from       *)
(* scratch reports and the runs implement those of AnalyzeProject.         *)
(***************************************************************************)
EXTENDS ProjectRun, Closures

\* Equal keys have equal results, whatever the root and the contents.
KeysSuffice ==
    \A q, r \in Roots, s, t \in Contents :
        \A m \in Analysable(r, s), n \in Analysable(q, t) :
            Key(Graph(r, s), s, m) = Key(Graph(q, t), t, n) => FromScratch(r, s, m) = FromScratch(q, t, n)

\* No two files a run finds can be imported by one name.
DistinctNames ==
    \A r \in Roots : \A found \in SUBSET Under[r] : \A x, y \in found :
        Range(ImportNames[r][found][x]) \cap Range(ImportNames[r][found][y]) # {} => x = y

\* Plugins tell the same of a file under every root.
SameContexts == \A q, r \in Roots, m \in Modules : Context[r][m] = Context[q][m]

-----------------------------------------------------------------------------
(* Module graphs.                                                          *)

IsGraph(g) == g.modules \subseteq Modules /\ \A m \in g.modules : Edges(g, m) \subseteq g.modules

\* Imports lead to modules that are there and can be parsed.
LEMMA GraphFacts ==
    ASSUME NEW r \in Roots, NEW s
    PROVE  /\ Graph(r, s).modules = Analysable(r, s)
           /\ Analysable(r, s) \subseteq Modules
           /\ \A m \in Analysable(r, s) :
                 /\ Graph(r, s).name[m] = NameOf(r, s, m)
                 /\ Graph(r, s).names[m] = NamesOf(r, s, m)
                 /\ Graph(r, s).resolved[m] = Resolved(r, s, m)
           /\ IsGraph(Graph(r, s))
<1> DEFINE g == Graph(r, s)
<1>1. /\ g.modules = Analysable(r, s)
      /\ \A m \in Analysable(r, s) :
            /\ g.name[m] = NameOf(r, s, m) /\ g.names[m] = NamesOf(r, s, m)
            /\ g.resolved[m] = Resolved(r, s, m)
  BY DEF Graph
<1>2. Under[r] \subseteq Modules
  BY ModulesAssumption
<1>3. Analysable(r, s) \subseteq Modules
  BY <1>2 DEF Analysable, Discovered
<1>4. ASSUME NEW m, NEW n PROVE Chosen(r, s, m, n) \subseteq Analysable(r, s)
  <2>1. Holders(r, s, m, n) \subseteq Analysable(r, s)
    BY DEF Holders
  <2>2. Nearest(r, s, m, n) \subseteq Holders(r, s, m, n)
    BY DEF Nearest
  <2>3. QED
    BY <2>1, <2>2 DEF Chosen
<1>5. ASSUME NEW m \in Analysable(r, s) PROVE Edges(g, m) \subseteq Analysable(r, s)
  <2>1. \A x \in Resolved(r, s, m) : x.to \subseteq Analysable(r, s)
    BY <1>4 DEF Resolved
  <2>2. Edges(g, m) = UNION {x.to : x \in Resolved(r, s, m)}
    BY <1>1 DEF Edges
  <2>3. QED
    BY <2>1, <2>2
<1> HIDE DEF g
<1>6. QED
  BY <1>1, <1>3, <1>5 DEF IsGraph, g

Leads(g) == [x \in g.modules |-> Edges(g, x)]

\* Reach iterates the import edges, as often as there are modules.
LEMMA ReachIterates ==
    ASSUME NEW g, IsGraph(g), NEW m \in g.modules
    PROVE  \E f : /\ Iteration(f, Cardinality(Modules), g.modules, Leads(g), {m})
                  /\ Reach(g, m) = f[Cardinality(Modules)]
<1> DEFINE N == Cardinality(Modules)
           V == g.modules
           step(f, n) == IF n = 0 THEN {m} ELSE UNION {{x} \cup Edges(g, x) : x \in f[n - 1]}
           reached == CHOOSE f : f = [n \in 0..N |-> step(f, n)]
<1>1. N \in Nat
  BY ModulesAssumption, FS_CardinalityType
<1>2. Leads(g) \in [V -> SUBSET V] /\ \A x \in V : Leads(g)[x] = Edges(g, x)
  BY DEF Leads, IsGraph
<1>3. ASSUME NEW f, Iteration(f, N, V, Leads(g), {m}) PROVE f = [n \in 0..N |-> step(f, n)]
  <2>1. f \in [0..N -> SUBSET V]
    BY <1>3 DEF Iteration
  <2>2. ASSUME NEW n \in 0..N PROVE f[n] = step(f, n)
    <3>1. CASE n = 0
      BY <1>3, <3>1 DEF Iteration
    <3>2. CASE n # 0
      <4>1. n \in 1..N /\ n - 1 \in 0..N
        BY <1>1, <3>2
      <4>2. f[n] = f[n - 1] \cup UNION {Leads(g)[x] : x \in f[n - 1]} /\ f[n - 1] \subseteq V
        BY <1>3, <4>1 DEF Iteration
      <4>3. UNION {{x} \cup Edges(g, x) : x \in f[n - 1]} = f[n - 1] \cup UNION {Leads(g)[x] : x \in f[n - 1]}
        BY <1>2, <4>2
      <4>4. QED
        BY <3>2, <4>2, <4>3
    <3>3. QED
      BY <3>1, <3>2
  <2> HIDE DEF step
  <2>3. QED
    BY <2>1, <2>2
<1>4. ASSUME NEW f, f = [n \in 0..N |-> step(f, n)], NEW h, Iteration(h, N, V, Leads(g), {m})
      PROVE  Iteration(f, N, V, Leads(g), {m})
  <2> DEFINE H == {n \in Nat : n <= N => f[n] = h[n]}
  <2>1. h = [n \in 0..N |-> step(h, n)] /\ h \in [0..N -> SUBSET V]
    BY <1>3, <1>4 DEF Iteration
  <2>2. 0 \in H
    BY <1>1, <1>4, <2>1
  <2>3. ASSUME NEW n \in 1..N, n - 1 \in H PROVE n \in H
    <3>1. f[n - 1] = h[n - 1] /\ n \in 0..N /\ n # 0
      BY <1>1, <2>3
    <3>2. f[n] = step(f, n)
      <4> HIDE DEF step
      <4>1. QED
        BY <1>4, <3>1
    <3>3. h[n] = step(h, n)
      <4> HIDE DEF step
      <4>1. QED
        BY <2>1, <3>1
    <3>4. step(f, n) = step(h, n)
      BY <3>1
    <3> HIDE DEF step
    <3>5. n \in Nat /\ f[n] = h[n]
      BY <1>1, <3>1, <3>2, <3>3, <3>4
    <3>6. QED
      BY <3>5
  <2>4. \A n \in 0..N : n \in H
    <3> HIDE DEF H
    <3>1. QED
      BY <1>1, <2>2, <2>3, UpTo
  <2>5. f = h
    <3>1. \A n \in 0..N : f[n] = h[n]
      BY <2>4
    <3>2. f = [n \in 0..N |-> f[n]] /\ h = [n \in 0..N |-> h[n]]
      BY <1>4, <2>1
    <3>3. QED
      BY <3>1, <3>2
  <2>6. QED
    BY <1>4, <2>5
<1>5. PICK h : Iteration(h, N, V, Leads(g), {m})
  <2>1. {m} \in SUBSET V
    OBVIOUS
  <2> HIDE DEF N, V
  <2>2. QED
    BY <1>1, <1>2, <2>1, IterationExists
<1>6. reached = [n \in 0..N |-> step(reached, n)]
  <2>1. h = [n \in 0..N |-> step(h, n)]
    BY <1>3, <1>5
  <2> HIDE DEF step
  <2>2. QED
    BY <2>1
<1>7. Reach(g, m) = reached[N]
  BY DEF Reach
<1> HIDE DEF reached, step
<1>8. QED
  BY <1>4, <1>5, <1>6, <1>7

\* Reach(g, m) is the least set that holds m and what its members import.
LEMMA ReachFacts ==
    ASSUME NEW g, IsGraph(g), NEW m \in g.modules
    PROVE  /\ m \in Reach(g, m)
           /\ Reach(g, m) \subseteq g.modules
           /\ \A x \in Reach(g, m) : Edges(g, x) \subseteq Reach(g, m)
           /\ \A C : m \in C /\ (\A x \in C \cap g.modules : Edges(g, x) \subseteq C) => Reach(g, m) \subseteq C
<1> DEFINE N == Cardinality(Modules)
           V == g.modules
           E == Leads(g)
<1>1. IsFiniteSet(V) /\ N \in Nat /\ Cardinality(V) <= N /\ N <= N
  BY ModulesAssumption, FS_CardinalityType, FS_Subset DEF IsGraph
<1>2. E \in [V -> SUBSET V] /\ \A x \in V : E[x] = Edges(g, x)
  BY DEF Leads, IsGraph
<1>3. PICK f : Iteration(f, N, V, E, {m}) /\ Reach(g, m) = f[N]
  BY ReachIterates
<1>s. {m} \in SUBSET V
  OBVIOUS
<1> HIDE DEF E, N
<1>4. f[N] \subseteq V
  BY <1>1, <1>3 DEF Iteration
<1>5. ClosedUnder(f[N], E)
  <2> HIDE DEF V
  <2>1. QED
    BY <1>1, <1>2, <1>3, <1>s, IterationCloses
<1>6. {m} \subseteq f[N]
  <2> HIDE DEF V
  <2>1. QED
    BY <1>1, <1>2, <1>3, <1>s, IterationGrows
<1>7. ASSUME NEW C, m \in C, \A x \in C \cap V : Edges(g, x) \subseteq C PROVE f[N] \subseteq C
  <2> DEFINE S == {m}
  <2>1. S \in SUBSET V /\ S \subseteq C
    BY <1>7
  <2>2. ClosedUnder(C \cap V, E)
    BY <1>2, <1>7 DEF ClosedUnder
  <2>3. Iteration(f, N, V, E, S)
    BY <1>3
  <2> HIDE DEF S, V
  <2>4. \A n \in 0..N : f[n] \subseteq C
    BY <1>1, <1>2, <2>1, <2>2, <2>3, IterationIsLeast
  <2>5. QED
    BY <1>1, <2>4
<1>8. QED
  BY <1>2, <1>3, <1>4, <1>5, <1>6, <1>7 DEF ClosedUnder

\* Imports of imports are imports.
LEMMA ReachTransitive ==
    ASSUME NEW g, IsGraph(g), NEW m \in g.modules, NEW x \in Reach(g, m)
    PROVE  Reach(g, x) \subseteq Reach(g, m)
<1>1. x \in g.modules
  BY ReachFacts
<1>2. QED
  BY <1>1, ReachFacts

-----------------------------------------------------------------------------
(* Components and waves.                                                   *)

\* The members of a component reach the same modules, and have the same component.
LEMMA ComponentFacts ==
    ASSUME NEW g, IsGraph(g), NEW m \in g.modules
    PROVE  /\ m \in Component(g, m)
           /\ Component(g, m) \subseteq Reach(g, m)
           /\ \A x \in Component(g, m) : x \in g.modules /\ Reach(g, x) = Reach(g, m)
           /\ \A x \in Component(g, m) : Component(g, x) = Component(g, m)
<1>1. m \in Component(g, m) /\ Component(g, m) \subseteq Reach(g, m)
  BY ReachFacts DEF Component
<1>2. ASSUME NEW x \in Component(g, m) PROVE x \in g.modules /\ Reach(g, x) = Reach(g, m)
  <2>1. x \in Reach(g, m) /\ m \in Reach(g, x)
    BY DEF Component
  <2>2. x \in g.modules
    BY <2>1, ReachFacts
  <2>3. QED
    BY <2>1, <2>2, ReachTransitive
<1>3. ASSUME NEW x \in Component(g, m) PROVE Component(g, x) = Component(g, m)
  <2>1. x \in g.modules /\ Reach(g, x) = Reach(g, m) /\ m \in Reach(g, x) /\ x \in Reach(g, m)
    BY <1>2 DEF Component
  <2>2. ASSUME NEW y \in Reach(g, m) PROVE x \in Reach(g, y) <=> m \in Reach(g, y)
    <3>1. y \in g.modules
      BY ReachFacts
    <3>2. QED
      BY <2>1, <3>1, ReachTransitive
  <2>3. QED
    BY <2>1, <2>2 DEF Component
<1>4. QED
  BY <1>1, <1>2, <1>3

\* The modules outside a component whose results its own depend on.
LEMMA ComponentNeeds ==
    ASSUME NEW g, IsGraph(g), NEW m \in g.modules
    PROVE  UNION {Reach(g, x) : x \in Component(g, m)} = Reach(g, m)
BY ComponentFacts

\* What a member of a component imports is in it or outside.
LEMMA OutsideFacts ==
    ASSUME NEW g, NEW c, NEW x \in c
    PROVE  Edges(g, x) \subseteq c \cup Outside(g, c)
<1> SUFFICES ASSUME NEW y \in Edges(g, x), y \notin c PROVE y \in Outside(g, c)
  OBVIOUS
<1>1. y \in UNION {Edges(g, m) : m \in c}
  OBVIOUS
<1>2. QED
  BY <1>1 DEF Outside

\* Where the modules of ready import nothing else, a component of the next wave has none
\* of them, and imports nothing but them and itself.
LEMMA WaveFacts ==
    ASSUME NEW g, IsGraph(g), NEW ready \in SUBSET g.modules,
           \A x \in ready : Edges(g, x) \subseteq ready, NEW c \in Wave(g, ready)
    PROVE  \E m \in g.modules \ ready :
              /\ c = Component(g, m)
              /\ c \subseteq g.modules /\ c \cap ready = {}
              /\ Reach(g, m) \subseteq c \cup ready
<1>1. PICK m \in g.modules \ ready : c = Component(g, m) /\ Outside(g, c) \subseteq ready
  BY DEF Wave
<1>2. Reach(g, m) \subseteq g.modules
  BY ReachFacts
<1>3. m \in c /\ c \subseteq Reach(g, m) /\ \A x \in c : x \in g.modules /\ Reach(g, x) = Reach(g, m)
  BY <1>1, ComponentFacts
<1>4. ASSUME NEW x \in c \cap ready PROVE FALSE
  <2>1. Reach(g, x) \subseteq ready
    BY <1>3, ReachFacts
  <2>2. m \in Reach(g, x)
    BY <1>3, ReachFacts
  <2>3. QED
    BY <2>1, <2>2
<1>5. \A x \in c \cup ready : Edges(g, x) \subseteq c \cup ready
  BY <1>1, OutsideFacts
<1>6. Reach(g, m) \subseteq c \cup ready
  <2> DEFINE C == c \cup ready
  <2>1. m \in C /\ \A x \in C \cap g.modules : Edges(g, x) \subseteq C
    BY <1>3, <1>5
  <2> HIDE DEF C
  <2>2. Reach(g, m) \subseteq C
    BY <2>1, ReachFacts
  <2>3. QED
    BY <2>2 DEF C
<1>7. QED
  BY <1>1, <1>2, <1>3, <1>4, <1>6

\* With the next wave, the modules that are ready still import nothing else.
LEMMA WaveCloses ==
    ASSUME NEW g, IsGraph(g), NEW ready \in SUBSET g.modules,
           \A x \in ready : Edges(g, x) \subseteq ready
    PROVE  LET next == ready \cup UNION Wave(g, ready)
           IN  next \subseteq g.modules /\ \A x \in next : Edges(g, x) \subseteq next
<1> DEFINE next == ready \cup UNION Wave(g, ready)
<1>1. \A c \in Wave(g, ready) : c \subseteq g.modules
  BY WaveFacts
<1>2. ASSUME NEW c \in Wave(g, ready), NEW x \in c PROVE Edges(g, x) \subseteq next
  <2>1. Outside(g, c) \subseteq ready
    BY DEF Wave
  <2>2. Edges(g, x) \subseteq c \cup ready
    BY <2>1, OutsideFacts
  <2>3. QED
    BY <2>2
<1>3. QED
  BY <1>1, <1>2

-----------------------------------------------------------------------------
(* Keys.                                                                   *)

\* A key is that of one module.
LEMMA KeysName ==
    ASSUME NEW g, NEW s, NEW m, NEW h, NEW t, NEW n, Key(g, s, m) = Key(h, t, n)
    PROVE  /\ m = n
           /\ s[Conf] = t[Conf] /\ Own(g, s, m) = Own(h, t, n)
           /\ {Own(g, s, x) : x \in Reach(g, m) \ {m}} = {Own(h, t, x) : x \in Reach(h, n) \ {n}}
<1>1. /\ s[Conf] = t[Conf] /\ Own(g, s, m) = Own(h, t, n)
      /\ {Own(g, s, x) : x \in Reach(g, m) \ {m}} = {Own(h, t, x) : x \in Reach(h, n) \ {n}}
  BY DEF Key
<1>2. m = n
  BY <1>1 DEF Own
<1>3. QED
  BY <1>1, <1>2

\* Contents of equal keys have the modules reached in common, with their names and texts.
LEMMA KeysAgree ==
    ASSUME NEW g, IsGraph(g), NEW h, IsGraph(h), NEW s, NEW t, NEW m \in g.modules \cap h.modules,
           Key(g, s, m) = Key(h, t, m)
    PROVE  /\ Reach(g, m) = Reach(h, m)
           /\ \A x \in Reach(g, m) : Own(g, s, x) = Own(h, t, x) /\ g.names[x] = h.names[x] /\ s[x] = t[x]
<1>1. {Own(g, s, x) : x \in Reach(g, m)} = {Own(h, t, x) : x \in Reach(h, m)}
  <2>1. /\ Own(g, s, m) = Own(h, t, m)
        /\ {Own(g, s, x) : x \in Reach(g, m) \ {m}} = {Own(h, t, x) : x \in Reach(h, m) \ {m}}
    BY KeysName
  <2>2. m \in Reach(g, m) /\ m \in Reach(h, m)
    BY ReachFacts
  <2>3. QED
    BY <2>1, <2>2
<1>2. \A x, y : Own(g, s, x) = Own(h, t, y) => x = y /\ g.names[x] = h.names[y] /\ s[x] = t[y]
  BY DEF Own
<1>3. \A x \in Reach(g, m) : \E y \in Reach(h, m) : Own(g, s, x) = Own(h, t, y)
  BY <1>1
<1>4. \A y \in Reach(h, m) : \E x \in Reach(g, m) : Own(g, s, x) = Own(h, t, y)
  BY <1>1
<1>5. ASSUME NEW x \in Reach(g, m)
      PROVE  x \in Reach(h, m) /\ Own(g, s, x) = Own(h, t, x) /\ g.names[x] = h.names[x] /\ s[x] = t[x]
  BY <1>2, <1>3
<1>6. ASSUME NEW y \in Reach(h, m) PROVE y \in Reach(g, m)
  <2>1. PICK x \in Reach(g, m) : Own(g, s, x) = Own(h, t, y)
    BY <1>4
  <2>2. QED
    BY <1>2, <2>1
<1>7. QED
  BY <1>5, <1>6

-----------------------------------------------------------------------------
(* Keys under distinct names.                                              *)

\* At most one file holds a name, and it is the one chosen.
LEMMA OneHolds ==
    ASSUME DistinctNames, NEW r \in Roots, NEW s, NEW m, NEW n
    PROVE  /\ \A x, y \in Holders(r, s, m, n) : x = y
           /\ Chosen(r, s, m, n) = Holders(r, s, m, n)
<1> DEFINE found == Discovered(r, s)
           H == Holders(r, s, m, n)
<1>1. found \in SUBSET Under[r] /\ found \in SUBSET Modules
  BY ModulesAssumption DEF Discovered
<1>2. ASSUME NEW x \in H PROVE x \in found /\ n \in Range(NamesOf(r, s, x))
  <2>1. x \in found /\ (n = ModuleName(r, s, x) \/ n \in Range(NamesOf(r, s, x)))
    BY DEF Holders, Analysable
  <2>2. ImportNames[r][found][x] \in Seq(Names) \ {<<>>}
    BY <1>1, <2>1, ModulesAssumption
  <2>3. 1 \in DOMAIN NamesOf(r, s, x)
    BY <2>2 DEF NamesOf
  <2>4. ModuleName(r, s, x) \in Range(NamesOf(r, s, x))
    BY <2>3 DEF ModuleName, Range
  <2>5. QED
    BY <2>1, <2>4
<1>3. ASSUME NEW x \in H, NEW y \in H PROVE x = y
  <2>1. x \in found /\ y \in found /\ n \in Range(ImportNames[r][found][x]) \cap Range(ImportNames[r][found][y])
    BY <1>2 DEF NamesOf
  <2> HIDE DEF found
  <2>2. QED
    BY <1>1, <2>1 DEF DistinctNames
<1>4. Nearest(r, s, m, n) \subseteq H
  BY DEF Nearest
<1>5. CASE H = {}
  <2>1. Nearest(r, s, m, n) = {} /\ H = {}
    BY <1>4, <1>5
  <2>2. Chosen(r, s, m, n) = {}
    BY <2>1 DEF Chosen
  <2>3. QED
    BY <2>1, <2>2
<1>6. CASE H # {}
  <2>1. PICK x : x \in H
    BY <1>6
  <2>2. H = {x}
    BY <1>3, <2>1
  <2>3. Cardinality(H) = 1
    BY <2>2, FS_Singleton
  <2>4. QED
    BY <1>3, <2>3 DEF Chosen
<1>7. QED
  BY <1>5, <1>6

\* Contents r, s and q, t that have in common the modules of R, with their names and texts,
\* where what a module of R imports is in R.
Common(r, s, q, t, R) ==
    /\ R \subseteq Analysable(r, s) \cap Analysable(q, t)
    /\ \A x \in R : NamesOf(r, s, x) = NamesOf(q, t, x) /\ s[x] = t[x]
    /\ \A x \in R : Edges(Graph(r, s), x) \subseteq R /\ Edges(Graph(q, t), x) \subseteq R

LEMMA CommonIsSymmetric ==
    ASSUME NEW r, NEW s, NEW q, NEW t, NEW R, Common(r, s, q, t, R)
    PROVE  Common(q, t, r, s, R)
BY DEF Common

\* A name that an import of x is resolved by is held by the same files under both.
LEMMA HoldersKept ==
    ASSUME DistinctNames, NEW r \in Roots, NEW q \in Roots, NEW s, NEW t, NEW R, Common(r, s, q, t, R),
           NEW x \in R, NEW n \in Named(r, s, x)
    PROVE  Holders(r, s, x, n) = Holders(q, t, x, n)
<1>1. x \in Analysable(r, s) /\ x \in Analysable(q, t)
  BY DEF Common
<1>2. Chosen(r, s, x, n) = Holders(r, s, x, n)
  BY OneHolds
<1>3. Holders(r, s, x, n) \subseteq R
  <2>1. CASE Chosen(r, s, x, n) = {x}
    BY <1>2, <2>1
  <2>2. CASE Chosen(r, s, x, n) # {x}
    <3>1. [name |-> n, to |-> Chosen(r, s, x, n)] \in Resolved(r, s, x)
      BY <2>2 DEF Resolved
    <3>2. Chosen(r, s, x, n) \subseteq UNION {y.to : y \in Resolved(r, s, x)}
      BY <3>1
    <3>3. Edges(Graph(r, s), x) = UNION {y.to : y \in Resolved(r, s, x)}
      BY <1>1, GraphFacts DEF Edges
    <3>4. QED
      BY <1>2, <3>2, <3>3 DEF Common
  <2>3. QED
    BY <2>1, <2>2
<1>4. Holders(r, s, x, n) \subseteq Holders(q, t, x, n)
  <2> SUFFICES ASSUME NEW y \in Holders(r, s, x, n) PROVE y \in Holders(q, t, x, n)
    OBVIOUS
  <2>1. /\ NamesOf(r, s, y) = NamesOf(q, t, y) /\ NamesOf(r, s, x) = NamesOf(q, t, x)
        /\ y \in Analysable(q, t)
    BY <1>3 DEF Common
  <2>2. ModuleName(r, s, y) = ModuleName(q, t, y)
    BY <2>1 DEF ModuleName
  <2>3. QED
    BY <2>1, <2>2 DEF Holders
<1>5. Holders(r, s, x, n) # {}
  BY DEF Named
<1>6. \A y, z \in Holders(q, t, x, n) : y = z
  BY OneHolds
<1>7. QED
  BY <1>4, <1>5, <1>6

LEMMA NamedFacts ==
    ASSUME NEW r, NEW s, NEW m, NEW p
    PROVE  p \in Named(r, s, m) <=>
               \E n \in Imports[m][s[m]] : \E i \in DOMAIN Prefixes[n] :
                  /\ p = Prefixes[n][i] /\ Holders(r, s, m, p) # {}
                  /\ \A j \in 1..(i - 1) : Holders(r, s, m, Prefixes[n][j]) = {}
<1> DEFINE held(n, i) == Holders(r, s, m, Prefixes[n][i]) # {}
           longest(n) == {i \in DOMAIN Prefixes[n] : held(n, i) /\ \A j \in 1..(i - 1) : ~held(n, j)}
           named(n) == {Prefixes[n][i] : i \in longest(n)}
<1>1. Named(r, s, m) = UNION {named(n) : n \in Imports[m][s[m]]}
  BY DEF Named
<1>2. p \in Named(r, s, m) <=> \E n \in Imports[m][s[m]] : p \in named(n)
  <2> HIDE DEF named
  <2>1. QED
    BY <1>1
<1>3. QED
  BY <1>2

LEMMA LongestIsNamed ==
    ASSUME NEW r, NEW s, NEW m, NEW n \in Imports[m][s[m]], NEW i \in DOMAIN Prefixes[n],
           Holders(r, s, m, Prefixes[n][i]) # {},
           \A j \in 1..(i - 1) : Holders(r, s, m, Prefixes[n][j]) = {}
    PROVE  Prefixes[n][i] \in Named(r, s, m)
<1> DEFINE p == Prefixes[n][i]
<1>1. /\ p = Prefixes[n][i] /\ Holders(r, s, m, p) # {}
      /\ \A j \in 1..(i - 1) : Holders(r, s, m, Prefixes[n][j]) = {}
  OBVIOUS
<1> HIDE DEF p
<1>2. p \in Named(r, s, m)
  BY <1>1, NamedFacts
<1>3. QED
  BY <1>2 DEF p

\* A prefix that is the longest some file has is so under both.
LEMMA NamedKept ==
    ASSUME DistinctNames, NEW r \in Roots, NEW q \in Roots, NEW s \in Contents, NEW t \in Contents,
           NEW R, Common(r, s, q, t, R), NEW x \in R
    PROVE  Named(r, s, x) \subseteq Named(q, t, x)
<1> DEFINE here(n, i) == Holders(r, s, x, Prefixes[n][i]) # {}
           there(n, i) == Holders(q, t, x, Prefixes[n][i]) # {}
<1>1. x \in Modules /\ s[x] = t[x] /\ Imports[x][s[x]] \subseteq Names
  <2>1. x \in Modules /\ s[x] = t[x]
    BY GraphFacts DEF Common
  <2>2. s[x] \in Texts
    BY <2>1 DEF Contents, Files
  <2>3. QED
    BY <2>1, <2>2, ModulesAssumption
<1>2. SUFFICES ASSUME NEW n \in Imports[x][s[x]], NEW i \in DOMAIN Prefixes[n],
                      here(n, i), \A j \in 1..(i - 1) : ~here(n, j)
               PROVE  Prefixes[n][i] \in Named(q, t, x)
  BY NamedFacts
<1>3. DOMAIN Prefixes[n] = 1..Len(Prefixes[n]) /\ Len(Prefixes[n]) \in Nat
  BY <1>1, ModulesAssumption
<1>4. there(n, i)
  <2>1. Prefixes[n][i] \in Named(r, s, x)
    BY <1>2, LongestIsNamed
  <2>2. Holders(r, s, x, Prefixes[n][i]) = Holders(q, t, x, Prefixes[n][i])
    BY <2>1, HoldersKept
  <2>3. QED
    BY <1>2, <2>2
<1>5. ASSUME NEW j \in 1..(i - 1), there(n, j) PROVE FALSE
  <2> DEFINE T == {k \in 1..(i - 1) : there(n, k)}
  <2>1. PICK k \in T : \A l \in T : k <= l
    <3>1. T \in SUBSET Nat /\ T # {}
      BY <1>5
    <3> HIDE DEF T
    <3>2. QED
      BY <3>1, LeastNumber
  <2>2. k \in DOMAIN Prefixes[n] /\ k \in 1..(i - 1) /\ there(n, k)
    BY <1>3
  <2>3. \A l \in 1..(k - 1) : ~there(n, l)
    <3> SUFFICES ASSUME NEW l \in 1..(k - 1), there(n, l) PROVE FALSE
      OBVIOUS
    <3>1. l \in T /\ ~(k <= l)
      BY <1>3, <2>2
    <3>2. QED
      BY <2>1, <3>1
  <2>4. Prefixes[n][k] \in Named(q, t, x)
    <3>1. n \in Imports[x][t[x]]
      BY <1>1
    <3> HIDE DEF T
    <3>2. QED
      BY <2>2, <2>3, <3>1, LongestIsNamed
  <2>5. Holders(q, t, x, Prefixes[n][k]) = Holders(r, s, x, Prefixes[n][k])
    BY <2>4, HoldersKept, CommonIsSymmetric
  <2>6. QED
    BY <1>2, <2>2, <2>5
<1>6. QED
  BY <1>1, <1>4, <1>5, LongestIsNamed

\* Imports are resolved alike.
LEMMA ResolvedAlike ==
    ASSUME DistinctNames, NEW r \in Roots, NEW q \in Roots, NEW s \in Contents, NEW t \in Contents,
           NEW R, Common(r, s, q, t, R), NEW x \in R
    PROVE  Resolved(r, s, x) = Resolved(q, t, x)
<1>1. Named(r, s, x) = Named(q, t, x)
  <2>1. Named(r, s, x) \subseteq Named(q, t, x)
    BY NamedKept
  <2>2. Common(q, t, r, s, R)
    BY CommonIsSymmetric
  <2>3. Named(q, t, x) \subseteq Named(r, s, x)
    BY <2>2, NamedKept
  <2>4. QED
    BY <2>1, <2>3
<1>2. ASSUME NEW n \in Named(r, s, x) PROVE Chosen(r, s, x, n) = Chosen(q, t, x, n)
  BY HoldersKept, OneHolds
<1>3. {n \in Named(r, s, x) : Chosen(r, s, x, n) # {x}} = {n \in Named(q, t, x) : Chosen(q, t, x, n) # {x}}
  BY <1>1, <1>2
<1>4. QED
  BY <1>2, <1>3 DEF Resolved

\* Equal keys have equal results when no two files a run finds can be imported by one name,
\* plugins tell the same of a file under every root, and no advisory matches by suffix.
LEMMA DistinctNamesSuffice ==
    ASSUME DistinctNames, SameContexts, ~Suffixes
    PROVE  KeysSuffice
<1> SUFFICES ASSUME NEW q \in Roots, NEW r \in Roots, NEW s \in Contents, NEW t \in Contents,
                    NEW m \in Analysable(r, s), NEW n \in Analysable(q, t),
                    Key(Graph(r, s), s, m) = Key(Graph(q, t), t, n)
             PROVE  FromScratch(r, s, m) = FromScratch(q, t, n)
  BY DEF KeysSuffice
<1> DEFINE g == Graph(r, s)
           h == Graph(q, t)
           R == Reach(g, m)
<1>1. /\ IsGraph(g) /\ IsGraph(h)
      /\ g.modules = Analysable(r, s) /\ h.modules = Analysable(q, t)
  BY GraphFacts
<1>2. n = m /\ s[Conf] = t[Conf] /\ m \in Modules
  BY KeysName, GraphFacts
<1> HIDE DEF g, h
<1>3. /\ R = Reach(h, m)
      /\ \A x \in R : Own(g, s, x) = Own(h, t, x) /\ g.names[x] = h.names[x] /\ s[x] = t[x]
  <2>1. Key(g, s, m) = Key(h, t, m) /\ m \in g.modules \cap h.modules
    BY <1>1, <1>2 DEF g, h
  <2>2. QED
    BY <1>1, <2>1, KeysAgree
<1>4. /\ R \subseteq Analysable(r, s) \cap Analysable(q, t)
      /\ \A x \in R : Edges(g, x) \subseteq R /\ Edges(h, x) \subseteq R
  BY <1>1, <1>2, <1>3, ReachFacts
<1>5. Common(r, s, q, t, R)
  <2>1. \A x \in R : g.names[x] = NamesOf(r, s, x) /\ h.names[x] = NamesOf(q, t, x)
    BY <1>4, GraphFacts DEF g, h
  <2> HIDE DEF R
  <2>2. QED
    BY <1>3, <1>4, <2>1 DEF Common, g, h
<1>6. ASSUME NEW x \in R PROVE g.resolved[x] = h.resolved[x]
  <2> HIDE DEF R
  <2>1. Resolved(r, s, x) = Resolved(q, t, x)
    BY <1>5, ResolvedAlike
  <2>2. x \in Analysable(r, s) /\ x \in Analysable(q, t)
    BY <1>4
  <2>3. QED
    BY <2>1, <2>2, GraphFacts DEF g, h
<1>7. \A x \in R : Seen(g, s, x, s[x]) = Seen(h, t, x, t[x])
  BY <1>3, <1>6 DEF Seen
<1>8. {Seen(g, s, x, s[x]) : x \in Reach(g, m)} = {Seen(h, t, x, t[x]) : x \in Reach(h, m)}
  BY <1>3, <1>7
<1>9. Context[r][m] = Context[q][m]
  BY <1>2 DEF SameContexts
<1>10. Matched(g, m, s[m]) = {} /\ Matched(h, m, t[m]) = {}
  BY DEF Matched
<1>11. QED
  BY <1>2, <1>8, <1>9, <1>10 DEF FromScratch, g, h

-----------------------------------------------------------------------------
(* Runs.                                                                   *)

\* An entry was computed from what its key names.
Agrees(k, e) ==
    /\ e.conf = k.conf
    /\ {x.own : x \in e.seen} = {k.own} \cup k.imported

\* What e is when it stands for the result of m: an entry, in any case; with the key of
\* m if no file changes under a pool of workers; and the result itself if moreover
\* keys tell results apart.
Right(r, s, m, e) ==
    /\ e \in Entries
    /\ "pool" \notin LiveEdits => Agrees(Key(Graph(r, s), s, m), e)
    /\ "pool" \notin LiveEdits /\ KeysSuffice => e = FromScratch(r, s, m)

-----------------------------------------------------------------------------
(* The inductive invariant.                                                *)

\* The entries of the cache stand for modules of this run or of another.
OfSomeRun(k, e) == \E r \in Roots, s \in Contents : \E m \in Analysable(r, s) : k = Key(Graph(r, s), s, m) /\ Right(r, s, m, e)
CacheRight(entries) == \A k \in DOMAIN entries : entries[k] # Damaged => OfSomeRun(k, entries[k])

\* Those a run has written or read besides stand for modules it analyses.
OfRun(r, s, entries) ==
    \A k \in DOMAIN entries : \E m \in Analysable(r, s) : k = Key(Graph(r, s), s, m) /\ Right(r, s, m, entries[k])

Results(r, s, found) ==
    /\ DOMAIN found \subseteq Analysable(r, s)
    /\ \A m \in DOMAIN found : Right(r, s, m, found[m])

\* Modules that import no others.
Complete(g, d) == \A m \in d : Edges(g, m) \subseteq d

InRun == pc \in {"wave", "work", "store"}

TypeInv ==
    /\ disk \in Contents
    /\ pc \in {"idle", "read", "load", "wave", "work", "store"}
    /\ root \in Roots /\ jobs \in {"serial", "pool"} /\ caching \in BOOLEAN /\ hurt \in BOOLEAN
    /\ DOMAIN worker = Workers
    /\ \A w \in Workers : DOMAIN worker[w] = {"conf", "task", "texts", "read"}

\* Files are read in order; what has been read is what is there, unless files are edited
\* while a run reads them.
Reading ==
    /\ pc = "idle" => snap = <<>>
    /\ pc = "read" =>
          \E n \in 0..Len(Order) :
             /\ DOMAIN snap = {Order[i] : i \in 1..n} /\ Cardinality(DOMAIN snap) = n
             /\ DOMAIN snap # Files
             /\ \A f \in DOMAIN snap : snap[f] \in Texts
    /\ pc \notin {"idle", "read"} => snap \in Contents /\ graph = Graph(root, snap)
    /\ jobs \notin LiveEdits => \A f \in DOMAIN snap : snap[f] = disk[f]

Entered ==
    /\ CacheRight(cache)
    /\ IF InRun THEN OfRun(root, snap, spool) ELSE spool = <<>>

\* The modules of earlier waves have results, and import only modules of earlier waves.
Waved ==
    InRun =>
        /\ Results(root, snap, results) /\ results = [m \in DOMAIN results |-> results[m]]
        /\ done \subseteq DOMAIN results
        /\ Complete(graph, done)

Computing ==
    InRun =>
        /\ Results(root, snap, computed)
        /\ stored \subseteq DOMAIN computed
        /\ pc = "wave" => DOMAIN computed = {}
        /\ pc # "store" => stored = {}

\* No component of a wave is forgotten.
Covered ==
    /\ pc = "work" =>
          /\ pending \subseteq Wave(graph, done)
          /\ \A c \in Wave(graph, done) :
                \/ c \subseteq DOMAIN results \cup DOMAIN computed
                \/ c \in pending
                \/ \E w \in Workers : worker[w].task = c
    /\ pc = "store" => \A c \in Wave(graph, done) : c \subseteq DOMAIN results \cup DOMAIN computed

\* What a worker process knows is of this run.
WorkerRight(p, r, s, j, d, v) ==
    /\ v.conf # NoText => j = "pool" /\ v.conf \in Texts /\ (j \notin LiveEdits => v.conf = s[Conf])
    /\ v.task # {} =>
          /\ p = "work" /\ v.conf # NoText
          /\ v.task \in Wave(Graph(r, s), d)
          /\ \A m \in v.task : v.texts[m] \in Texts /\ (j \notin LiveEdits => v.texts[m] = s[m])
    /\ OfRun(r, s, v.read)

Working ==
    \A w \in Workers :
        IF InRun THEN WorkerRight(pc, root, snap, jobs, done, worker[w]) ELSE worker[w] = Idle

\* What the run knows can be found where it is kept.
Findable ==
    ~hurt /\ InRun /\ (caching \/ jobs = "pool") => \A m \in DOMAIN results \cup stored : Hit(Kept, Key(graph, snap, m))

ReportRight(a) ==
    a # NoReport =>
        \E r \in Roots, s \in Contents :
            /\ a = [root |-> r, snap |-> s, entries |-> a.entries]
            /\ a.entries = [m \in Analysable(r, s) |-> a.entries[m]]
            /\ Results(r, s, a.entries)

RunInv ==
    /\ TypeInv /\ Reading /\ Entered /\ Waved /\ Computing /\ Covered /\ Working /\ Findable
    /\ ReportRight(report)

-----------------------------------------------------------------------------
(* Entries.                                                                *)

\* What reading a module contributes to a result.
LEMMA SeenTyped ==
    ASSUME NEW r \in Roots, NEW s, NEW m \in Analysable(r, s), NEW text \in Texts
    PROVE  Seen(Graph(r, s), s, m, text) \in SeenModules
<1> DEFINE g == Graph(r, s)
           found == Discovered(r, s)
<1>1. m \in Modules /\ m \in found /\ found \in SUBSET Modules
  BY GraphFacts, ModulesAssumption DEF Analysable, Discovered
<1>2. \A x \in found : NamesOf(r, s, x) \in Seq(Names) \ {<<>>} /\ ModuleName(r, s, x) \in Names
  <2> SUFFICES ASSUME NEW x \in found PROVE NamesOf(r, s, x) \in Seq(Names) \ {<<>>} /\ ModuleName(r, s, x) \in Names
    OBVIOUS
  <2>1. ImportNames[r][found][x] \in Seq(Names) \ {<<>>}
    <3> HIDE DEF found
    <3>1. QED
      BY <1>1, ModulesAssumption
  <2>2. NamesOf(r, s, x) \in Seq(Names) \ {<<>>}
    BY <2>1 DEF NamesOf
  <2>3. NamesOf(r, s, x)[1] \in Names
    BY <2>2
  <2>4. QED
    BY <2>2, <2>3 DEF ModuleName
<1>3. NameOf(r, s, m) \in Names \cup Modules
  <2>1. DottedPath[r][m] \in Names \cup Modules
    BY <1>1, ModulesAssumption
  <2>2. ModuleName(r, s, m) \in Names
    BY <1>1, <1>2
  <2>3. NameOf(r, s, m) \in {ModuleName(r, s, m), DottedPath[r][m], m}
    BY DEF NameOf
  <2>4. QED
    BY <1>1, <2>1, <2>2, <2>3
<1>4. g.name[m] \in Names \cup Modules /\ g.names[m] \in Seq(Names) /\ g.resolved[m] = Resolved(r, s, m)
  BY <1>1, <1>2, <1>3, GraphFacts
<1> HIDE DEF g, found
<1>5. [Own(g, s, m) EXCEPT !.text = text] \in Owns
  BY <1>1, <1>4 DEF Own, Owns
<1>6. Named(r, s, m) \subseteq Names
  <2> SUFFICES ASSUME NEW p \in Named(r, s, m) PROVE p \in Names
    OBVIOUS
  <2>1. PICK x : x \in Holders(r, s, m, p)
    BY NamedFacts
  <2>2. x \in Discovered(r, s) /\ (p = ModuleName(r, s, x) \/ p \in Range(NamesOf(r, s, x)))
    BY <2>1 DEF Holders, Analysable
  <2>3. NamesOf(r, s, x) \in Seq(Names) /\ ModuleName(r, s, x) \in Names
    BY <1>2, <2>2 DEF found
  <2>4. Range(NamesOf(r, s, x)) \subseteq Names
    BY <2>3 DEF Range
  <2>5. QED
    BY <2>2, <2>3, <2>4
<1>7. \A p : Chosen(r, s, m, p) \subseteq Modules
  <2>1. \A p : Chosen(r, s, m, p) \subseteq Holders(r, s, m, p)
    BY DEF Chosen, Nearest
  <2>2. \A p : Holders(r, s, m, p) \subseteq Modules
    BY GraphFacts DEF Holders
  <2>3. QED
    BY <2>1, <2>2
<1>8. g.resolved[m] \in SUBSET [name : Names, to : SUBSET Modules]
  BY <1>4, <1>6, <1>7 DEF Resolved
<1>9. QED
  BY <1>5, <1>8 DEF Seen, SeenModules, g

\* The modules a module's symbols are matched with have names.
LEMMA MatchedTyped ==
    ASSUME NEW g, NEW m \in Modules, NEW text \in Texts
    PROVE  Matched(g, m, text) \in SUBSET Names
<1>1. Derives[m][text] \in SUBSET Names
  BY ModulesAssumption
<1>2. QED
  BY <1>1 DEF Matched

\* An entry can stand for every module with its key.
LEMMA RightForItsKey ==
    ASSUME NEW q \in Roots, NEW r \in Roots, NEW s \in Contents, NEW t \in Contents,
           NEW m \in Analysable(r, s), NEW n \in Analysable(q, t), Key(Graph(r, s), s, m) = Key(Graph(q, t), t, n),
           NEW e, Right(r, s, m, e)
    PROVE  Right(q, t, n, e)
BY DEF Right, KeysSuffice

\* What the analysis of a component gives for its members stands for them, when what it
\* read of them is theirs and what it imported stands for what they import.
LEMMA AnalysedIsRight ==
    ASSUME root \in Roots, snap \in Contents, graph = Graph(root, snap),
           NEW m \in Analysable(root, snap), NEW c, c = Component(graph, m),
           NEW conf \in Texts, NEW texts, \A x \in c : texts[x] \in Texts,
           "pool" \notin LiveEdits => conf = snap[Conf] /\ \A x \in c : texts[x] = snap[x],
           NEW imported, DOMAIN imported = Needed(c),
           \A y \in Needed(c) : Right(root, snap, y, imported[y])
    PROVE  /\ DOMAIN Analysed(c, conf, texts, imported) = c
           /\ c \subseteq Analysable(root, snap)
           /\ \A x \in c : Right(root, snap, x, Analysed(c, conf, texts, imported)[x])
<1> DEFINE made == Analysed(c, conf, texts, imported)
           read == {Seen(graph, snap, x, texts[x]) : x \in c}
           fetched == UNION {imported[y].seen : y \in DOMAIN imported}
<1>0. IsGraph(graph) /\ graph.modules = Analysable(root, snap) /\ graph.modules \subseteq Modules
  BY GraphFacts
<1>1. m \in graph.modules /\ Reach(graph, m) \subseteq graph.modules
  BY <1>0, ReachFacts
<1>2. /\ m \in c /\ c \subseteq Reach(graph, m)
      /\ \A x \in c : x \in graph.modules /\ x \in Modules /\ Reach(graph, x) = Reach(graph, m)
  BY <1>0, <1>1, ComponentFacts
<1>3. Needed(c) = Reach(graph, m) \ c
  BY <1>0, <1>1, ComponentNeeds DEF Needed
<1>4. DOMAIN made = c
  BY DEF Analysed
<1>5. ASSUME NEW x \in c
      PROVE  made[x] = [conf |-> conf, context |-> Context[root][x], matched |-> Matched(graph, x, texts[x]),
                        seen |-> read \cup fetched]
  BY DEF Analysed
<1>conf. \A x \in c : made[x].conf = conf
  BY DEF Analysed
<1>seen. \A x \in c : made[x].seen = read \cup fetched
  BY DEF Analysed
<1> HIDE DEF made
<1>6. ASSUME NEW x \in c PROVE made[x] \in Entries
  <2>1. x \in Modules /\ Matched(graph, x, texts[x]) \in SUBSET Names
    BY <1>2, MatchedTyped
  <2>2. read \in SUBSET SeenModules
    BY <1>0, <1>2, SeenTyped
  <2>3. fetched \in SUBSET SeenModules
    BY DEF Right, Entries
  <2>4. Context[root][x] \in Contexts
    BY <2>1 DEF Contexts
  <2> HIDE DEF read, fetched
  <2>5. read \cup fetched \in SUBSET SeenModules
    BY <2>2, <2>3
  <2>6. [conf |-> conf, context |-> Context[root][x], matched |-> Matched(graph, x, texts[x]),
         seen |-> read \cup fetched] \in Entries
    BY <2>1, <2>4, <2>5 DEF Entries
  <2>7. QED
    BY <1>5, <2>6
<1>7. ASSUME "pool" \notin LiveEdits PROVE read = {Seen(graph, snap, x, snap[x]) : x \in c}
  BY <1>7
<1>8. ASSUME "pool" \notin LiveEdits, NEW x \in c PROVE Agrees(Key(graph, snap, x), made[x])
  <2> DEFINE owns(S) == {Own(graph, snap, z) : z \in S}
  <2>1. \A z : Seen(graph, snap, z, snap[z]).own = Own(graph, snap, z)
    BY DEF Seen, Own
  <2>2. {z.own : z \in read} = owns(c)
    BY <1>7, <1>8, <2>1
  <2>3. ASSUME NEW y \in Needed(c) PROVE {z.own : z \in imported[y].seen} = owns(Reach(graph, y))
    <3>1. y \in Reach(graph, y)
      BY <1>0, <1>1, <1>3, ReachFacts
    <3>2. {z.own : z \in imported[y].seen} = {Own(graph, snap, y)} \cup {Own(graph, snap, z) : z \in Reach(graph, y) \ {y}}
      BY <1>8 DEF Right, Agrees, Key
    <3>3. QED
      BY <3>1, <3>2
  <2>4. ASSUME NEW y \in Needed(c) PROVE y \in Reach(graph, y) /\ Reach(graph, y) \subseteq Reach(graph, m)
    BY <1>0, <1>1, <1>3, ReachFacts, ReachTransitive
  <2>5. owns(Needed(c)) \subseteq {z.own : z \in fetched}
    <3> SUFFICES ASSUME NEW y \in Needed(c) PROVE Own(graph, snap, y) \in {z.own : z \in fetched}
      OBVIOUS
    <3>1. Own(graph, snap, y) \in {z.own : z \in imported[y].seen}
      BY <2>3, <2>4
    <3>2. imported[y].seen \subseteq fetched
      OBVIOUS
    <3> HIDE DEF fetched
    <3>3. QED
      BY <3>1, <3>2
  <2>6. {z.own : z \in fetched} \subseteq owns(Reach(graph, m))
    <3> SUFFICES ASSUME NEW z \in fetched PROVE z.own \in owns(Reach(graph, m))
      OBVIOUS
    <3>1. PICK y \in Needed(c) : z \in imported[y].seen
      OBVIOUS
    <3>2. z.own \in owns(Reach(graph, y))
      BY <2>3, <3>1
    <3>3. QED
      BY <2>4, <3>2
  <2> HIDE DEF read, fetched
  <2>7. {z.own : z \in read \cup fetched} = owns(Reach(graph, m))
    BY <1>2, <1>3, <2>2, <2>5, <2>6
  <2>8. owns(Reach(graph, m)) = {Own(graph, snap, x)} \cup {Own(graph, snap, z) : z \in Reach(graph, x) \ {x}}
    BY <1>2
  <2>9. QED
    <3>1. Key(graph, snap, x).conf = snap[Conf]
      BY DEF Key
    <3>2. made[x].conf = conf /\ made[x].seen = read \cup fetched
      BY <1>conf, <1>seen
    <3>3. conf = snap[Conf]
      BY <1>8
    <3>4. {z.own : z \in made[x].seen} = owns(Reach(graph, m))
      BY <2>7, <3>2
    <3>5. {Key(graph, snap, x).own} \cup Key(graph, snap, x).imported = owns(Reach(graph, m))
      BY <2>8 DEF Key
    <3> HIDE DEF owns
    <3>6. QED
      BY <3>1, <3>2, <3>3, <3>4, <3>5 DEF Agrees
<1>9. ASSUME "pool" \notin LiveEdits, KeysSuffice, NEW x \in c PROVE made[x] = FromScratch(root, snap, x)
  <2> DEFINE all(S) == {Seen(graph, snap, z, snap[z]) : z \in S}
  <2>1. read = all(c)
    BY <1>7, <1>9
  <2>2. ASSUME NEW y \in Needed(c) PROVE imported[y].seen = all(Reach(graph, y))
    BY <1>9 DEF Right, FromScratch
  <2>3. ASSUME NEW y \in Needed(c) PROVE y \in Reach(graph, y) /\ Reach(graph, y) \subseteq Reach(graph, m)
    BY <1>0, <1>1, <1>3, ReachFacts, ReachTransitive
  <2>4. all(Needed(c)) \subseteq fetched
    <3> SUFFICES ASSUME NEW y \in Needed(c) PROVE Seen(graph, snap, y, snap[y]) \in fetched
      OBVIOUS
    <3>1. Seen(graph, snap, y, snap[y]) \in imported[y].seen
      BY <2>2, <2>3
    <3>2. QED
      BY <3>1
  <2>5. fetched \subseteq all(Reach(graph, m))
    <3> SUFFICES ASSUME NEW z \in fetched PROVE z \in all(Reach(graph, m))
      OBVIOUS
    <3>1. PICK y \in Needed(c) : z \in imported[y].seen
      OBVIOUS
    <3>2. z \in all(Reach(graph, y))
      BY <2>2, <3>1
    <3>3. QED
      BY <2>3, <3>2
  <2> HIDE DEF read, fetched
  <2>6. read \cup fetched = all(Reach(graph, m))
    BY <1>2, <1>3, <2>1, <2>4, <2>5
  <2>7. texts[x] = snap[x] /\ conf = snap[Conf] /\ Reach(graph, x) = Reach(graph, m)
    BY <1>2, <1>9
  <2>8. QED
    BY <1>5, <2>6, <2>7 DEF FromScratch
<1>10. QED
  BY <1>0, <1>1, <1>2, <1>4, <1>6, <1>8, <1>9 DEF Right, made

-----------------------------------------------------------------------------
(* Stores of entries.                                                      *)

\* What is empty holds nothing wrong, and a worker that has not started knows nothing wrong.
LEMMA EmptyIsRight ==
    ASSUME NEW p, NEW r, NEW s, NEW j, NEW d
    PROVE  OfRun(r, s, <<>>) /\ Results(r, s, <<>>) /\ WorkerRight(p, r, s, j, d, Idle)
<1>1. OfRun(r, s, <<>>) /\ Results(r, s, <<>>)
  BY DEF OfRun, Results
<1>2. Idle.conf = NoText /\ Idle.task = {} /\ Idle.read = <<>>
  BY DEF Idle
<1>3. QED
  BY <1>1, <1>2 DEF WorkerRight

\* Entries that stand for results are not damaged.
LEMMA RightIsWhole ==
    ASSUME NEW r, NEW s, NEW m, NEW e, Right(r, s, m, e)
    PROVE  e # Damaged
BY RunAssumption DEF Right

\* What is found under the key of a module stands for it.
LEMMA OfRunFinds ==
    ASSUME NEW r, NEW s, NEW entries, OfRun(r, s, entries), NEW m, Key(Graph(r, s), s, m) \in DOMAIN entries
    PROVE  m \in Analysable(r, s) /\ Right(r, s, m, entries[Key(Graph(r, s), s, m)])
<1>1. PICK n \in Analysable(r, s) : Key(Graph(r, s), s, m) = Key(Graph(r, s), s, n) /\ Right(r, s, n, entries[Key(Graph(r, s), s, m)])
  BY DEF OfRun
<1>2. n = m
  BY <1>1, KeysName
<1>3. QED
  BY <1>1, <1>2

LEMMA CacheFinds ==
    ASSUME NEW r \in Roots, NEW s \in Contents, NEW entries, CacheRight(entries),
           NEW m \in Analysable(r, s), Hit(entries, Key(Graph(r, s), s, m))
    PROVE  Right(r, s, m, entries[Key(Graph(r, s), s, m)])
<1>1. OfSomeRun(Key(Graph(r, s), s, m), entries[Key(Graph(r, s), s, m)])
  BY DEF CacheRight, Hit
<1>2. PICK q \in Roots, t \in Contents : \E n \in Analysable(q, t) :
          Key(Graph(r, s), s, m) = Key(Graph(q, t), t, n) /\ Right(q, t, n, entries[Key(Graph(r, s), s, m)])
  BY <1>1 DEF OfSomeRun
<1>3. QED
  BY <1>2, RightForItsKey

\* An entry is added under its key.
LEMMA OfRunGrows ==
    ASSUME NEW r, NEW s, NEW entries, OfRun(r, s, entries),
           NEW m \in Analysable(r, s), NEW e, Right(r, s, m, e)
    PROVE  OfRun(r, s, With(entries, Key(Graph(r, s), s, m), e))
BY DEF OfRun, With

LEMMA CacheGrows ==
    ASSUME NEW entries, CacheRight(entries), NEW k, NEW e, e = Damaged \/ OfSomeRun(k, e)
    PROVE  CacheRight(With(entries, k, e))
BY DEF CacheRight, With

LEMMA StillHit ==
    ASSUME NEW entries, NEW k, NEW e, e # Damaged
    PROVE  /\ Hit(With(entries, k, e), k)
           /\ \A x : Hit(entries, x) => Hit(With(entries, k, e), x)
BY DEF Hit, With

\* Results are added.
LEMMA ResultsGrow ==
    ASSUME NEW r, NEW s, NEW found, Results(r, s, found), NEW more, Results(r, s, more)
    PROVE  /\ Results(r, s, Updated(found, more))
           /\ DOMAIN Updated(found, more) = DOMAIN found \cup DOMAIN more
<1>1. DOMAIN Updated(found, more) = DOMAIN found \cup DOMAIN more
  BY DEF Updated
<1>2. \A m \in DOMAIN found \cup DOMAIN more :
          Updated(found, more)[m] = IF m \in DOMAIN more THEN more[m] ELSE found[m]
  BY DEF Updated
<1>3. Results(r, s, Updated(found, more))
  BY <1>1, <1>2 DEF Results
<1>4. QED
  BY <1>1, <1>3

LEMMA OfRunUpdated ==
    ASSUME NEW r, NEW s, NEW found, OfRun(r, s, found), NEW more, OfRun(r, s, more)
    PROVE  OfRun(r, s, Updated(found, more))
<1>1. DOMAIN Updated(found, more) = DOMAIN found \cup DOMAIN more
  BY DEF Updated
<1>2. \A m \in DOMAIN found \cup DOMAIN more :
          Updated(found, more)[m] = IF m \in DOMAIN more THEN more[m] ELSE found[m]
  BY DEF Updated
<1>3. QED
  BY <1>1, <1>2 DEF OfRun

\* The graph of a run is that of what it has read.
LEMMA GraphOfRun ==
    ASSUME RunInv, pc = "load" \/ InRun
    PROVE  root \in Roots /\ snap \in Contents /\ graph = Graph(root, snap)
BY DEF RunInv, TypeInv, Reading, InRun

\* A component of the wave needs only modules of earlier waves.
LEMMA WaveNeeds ==
    ASSUME RunInv, InRun, NEW c \in Wave(graph, done)
    PROVE  /\ \E m \in Analysable(root, snap) : c = Component(graph, m)
           /\ c # {} /\ c \subseteq Analysable(root, snap)
           /\ Needed(c) \subseteq done /\ Needed(c) \subseteq DOMAIN results
<1>0. IsGraph(graph) /\ graph.modules = Analysable(root, snap)
  BY GraphFacts, GraphOfRun
<1>1. done \in SUBSET graph.modules /\ done \subseteq DOMAIN results /\ \A x \in done : Edges(graph, x) \subseteq done
  BY <1>0 DEF RunInv, Waved, Results, Complete
<1>2. PICK m \in graph.modules \ done :
          /\ c = Component(graph, m)
          /\ c \subseteq graph.modules /\ c \cap done = {}
          /\ Reach(graph, m) \subseteq c \cup done
  BY <1>0, <1>1, WaveFacts
<1>3. Needed(c) = Reach(graph, m) \ c
  BY <1>0, <1>2, ComponentNeeds DEF Needed
<1>4. m \in c
  BY <1>0, <1>2, ComponentFacts
<1>5. QED
  BY <1>0, <1>1, <1>2, <1>3, <1>4

-----------------------------------------------------------------------------
(* The invariant holds at first.                                           *)

LEMMA InitInv ==
    ASSUME Init
    PROVE  RunInv
<1> USE DEF Init
<1>1. TypeInv
  <2>1. disk \in Contents
    BY RunAssumption DEF Contents
  <2>2. DOMAIN worker = Workers /\ \A w \in Workers : DOMAIN worker[w] = {"conf", "task", "texts", "read"}
    BY DEF Idle
  <2>3. QED
    BY <2>1, <2>2 DEF TypeInv
<1>2. ~InRun
  BY DEF InRun
<1>3. Reading
  BY DEF Reading
<1>4. Entered
  BY <1>2 DEF Entered, CacheRight
<1>5. Waved /\ Computing /\ Covered /\ Findable
  BY <1>2 DEF Waved, Computing, Covered, Findable, InRun
<1>6. Working
  BY <1>2 DEF Working
<1>7. ReportRight(report)
  BY DEF ReportRight
<1>8. QED
  BY <1>1, <1>3, <1>4, <1>5, <1>6, <1>7 DEF RunInv

-----------------------------------------------------------------------------
(* Every action keeps it.                                                  *)

LEMMA BeginStep ==
    ASSUME RunInv, NEW r \in Roots, NEW j \in Jobs, NEW c \in BOOLEAN, Begin(r, j, c)
    PROVE  RunInv'
<1>1. /\ pc = "idle" /\ pc' = "read" /\ root' = r /\ jobs' = j /\ caching' = c /\ snap' = <<>> /\ hurt' = FALSE
      /\ UNCHANGED <<disk, report, cache, spool, worker>>
  BY DEF Begin, progress
<1>2. ~InRun /\ ~InRun'
  BY <1>1 DEF InRun
<1>3. TypeInv'
  BY <1>1, RunAssumption DEF RunInv, TypeInv
<1>4. Reading'
  <2>1. DOMAIN snap' = {}
    BY <1>1
  <2>2. DOMAIN snap' = {Order[i] : i \in 1..0} /\ Cardinality(DOMAIN snap') = 0
    BY <2>1, FS_EmptySet
  <2>3. 0 \in 0..Len(Order) /\ Conf \in Files
    BY RunAssumption DEF Files
  <2>4. \E n \in 0..Len(Order) :
             /\ DOMAIN snap' = {Order[i] : i \in 1..n} /\ Cardinality(DOMAIN snap') = n
             /\ DOMAIN snap' # Files
             /\ \A f \in DOMAIN snap' : snap'[f] \in Texts
    BY <2>1, <2>2, <2>3
  <2>5. QED
    BY <1>1, <2>1, <2>4 DEF Reading
<1>5. Entered'
  BY <1>1, <1>2 DEF RunInv, Entered
<1>6. Waved' /\ Computing' /\ Covered' /\ Findable'
  BY <1>1, <1>2 DEF Waved, Computing, Covered, Findable
<1>7. Working'
  BY <1>1, <1>2 DEF RunInv, Working
<1>8. ReportRight(report)'
  BY <1>1 DEF RunInv
<1>9. QED
  BY <1>3, <1>4, <1>5, <1>6, <1>7, <1>8 DEF RunInv

\* The next file in order is one that has not been read.
LEMMA NextFile ==
    ASSUME RunInv, pc = "read"
    PROVE  LET f == Order[Cardinality(DOMAIN snap) + 1]
           IN  /\ f \in Files \ DOMAIN snap
               /\ \E n \in 0..Len(Order) :
                     /\ DOMAIN snap \cup {f} = {Order[i] : i \in 1..n}
                     /\ Cardinality(DOMAIN snap \cup {f}) = n
<1> DEFINE f == Order[Cardinality(DOMAIN snap) + 1]
<1>1. PICK n \in 0..Len(Order) :
             /\ DOMAIN snap = {Order[i] : i \in 1..n} /\ Cardinality(DOMAIN snap) = n
             /\ DOMAIN snap # Files
  BY DEF RunInv, Reading
<1>2. Len(Order) \in Nat /\ DOMAIN Order = 1..Len(Order)
  BY RunAssumption
<1>3. n # Len(Order)
  BY <1>1, <1>2, RunAssumption
<1>4. n + 1 \in DOMAIN Order /\ f = Order[n + 1] /\ n + 1 \in 0..Len(Order) /\ n \in Nat
  <2>1. n \in Nat /\ n + 1 \in 1..Len(Order) /\ n + 1 \in 0..Len(Order)
    <3> DEFINE last == Len(Order)
    <3>1. last \in Nat /\ n \in 0..last /\ n # last
      BY <1>2, <1>3
    <3> HIDE DEF last
    <3>2. n \in Nat /\ n + 1 \in 1..last /\ n + 1 \in 0..last
      BY <3>1
    <3>3. QED
      BY <3>2 DEF last
  <2>2. f = Order[n + 1]
    BY <1>1
  <2> HIDE DEF f
  <2>3. QED
    BY <1>2, <2>1, <2>2
<1>5. f \in Files
  BY <1>4, RunAssumption
<1>6. f \notin DOMAIN snap
  <2> SUFFICES ASSUME f \in DOMAIN snap PROVE FALSE
    OBVIOUS
  <2>1. PICK i \in 1..n : f = Order[i]
    BY <1>1
  <2>2. i \in DOMAIN Order /\ i # n + 1
    BY <1>2, <1>4
  <2>3. QED
    BY <1>4, <2>1, <2>2, RunAssumption
<1>7. DOMAIN snap \cup {f} = {Order[i] : i \in 1..(n + 1)}
  <2>1. 1..(n + 1) = 1..n \cup {n + 1}
    BY <1>4
  <2>2. {Order[i] : i \in 1..(n + 1)} = {Order[i] : i \in 1..n} \cup {Order[n + 1]}
    BY <2>1
  <2>3. QED
    BY <1>1, <1>4, <2>2
<1>8. Cardinality(DOMAIN snap \cup {f}) = n + 1
  <2>1. IsFiniteSet(Files)
    BY ModulesAssumption, FS_AddElement DEF Files
  <2>2. DOMAIN snap \subseteq Files
    <3>1. \A i \in 1..n : Order[i] \in Files
      BY <1>2, RunAssumption
    <3>2. QED
      BY <1>1, <3>1
  <2>3. IsFiniteSet(DOMAIN snap)
    BY <2>1, <2>2, FS_Subset
  <2>4. QED
    BY <1>1, <1>6, <2>3, FS_AddElement
<1>9. QED
  BY <1>4, <1>5, <1>6, <1>7, <1>8

LEMMA ReadFileStep ==
    ASSUME RunInv, ReadFile
    PROVE  RunInv'
<1> DEFINE f == Order[Cardinality(DOMAIN snap) + 1]
<1>1. /\ pc = "read" /\ snap' = With(snap, f, disk[f])
      /\ pc' = IF DOMAIN snap' = Files THEN "load" ELSE "read"
      /\ graph' = IF DOMAIN snap' = Files THEN Graph(root, snap') ELSE <<>>
      /\ UNCHANGED <<disk, report, root, jobs, caching, cache, spool, worker, hurt>>
  BY DEF ReadFile
<1>2. ~InRun /\ ~InRun' /\ pc' \in {"load", "read"}
  BY <1>1 DEF InRun
<1>3. TypeInv'
  BY <1>1, <1>2 DEF RunInv, TypeInv
<1>4. Reading'
  <2>1. f \in Files
    BY <1>1, NextFile
  <2>2. PICK n \in 0..Len(Order) :
            DOMAIN snap \cup {f} = {Order[i] : i \in 1..n} /\ Cardinality(DOMAIN snap \cup {f}) = n
    BY <1>1, NextFile
  <2> HIDE DEF f
  <2>3. DOMAIN snap' = DOMAIN snap \cup {f}
    BY <1>1 DEF With
  <2>4. \A g \in DOMAIN snap' : snap'[g] = IF g = f THEN disk[f] ELSE snap[g]
    BY <1>1 DEF With
  <2>5. disk[f] \in Texts
    BY <2>1 DEF RunInv, TypeInv, Contents
  <2>6. \A g \in DOMAIN snap' : snap'[g] \in Texts
    BY <1>1, <2>3, <2>4, <2>5 DEF RunInv, Reading
  <2>7. jobs' \notin LiveEdits => \A g \in DOMAIN snap' : snap'[g] = disk'[g]
    BY <1>1, <2>3, <2>4 DEF RunInv, Reading
  <2>8. snap' = [g \in DOMAIN snap' |-> snap'[g]]
    BY <1>1 DEF With
  <2>9. pc' = "load" => snap' \in Contents
    BY <1>1, <2>6, <2>8 DEF Contents
  <2>10. pc' = "read" => DOMAIN snap' # Files
    BY <1>1
  <2>11. pc' = "load" => graph' = Graph(root', snap')
    BY <1>1
  <2>12. QED
    BY <1>2, <2>2, <2>3, <2>6, <2>7, <2>9, <2>10, <2>11 DEF Reading
<1>5. Entered'
  BY <1>1, <1>2 DEF RunInv, Entered
<1>6. Waved' /\ Computing' /\ Covered' /\ Findable'
  BY <1>2 DEF Waved, Computing, Covered, Findable
<1>7. Working'
  BY <1>1, <1>2 DEF RunInv, Working
<1>8. ReportRight(report)'
  BY <1>1 DEF RunInv
<1>9. QED
  BY <1>3, <1>4, <1>5, <1>6, <1>7, <1>8 DEF RunInv

LEMMA LoadStep ==
    ASSUME RunInv, Load
    PROVE  RunInv'
<1> DEFINE hits == {x \in Analysable(root, snap) : caching /\ Hit(cache, KeyOf(x))}
<1>0. root \in Roots /\ snap \in Contents /\ graph = Graph(root, snap) /\ graph.modules = Analysable(root, snap)
  BY GraphOfRun, GraphFacts DEF Load
<1>1. /\ pc = "load" /\ pc' = "wave"
      /\ results' = [m \in hits |-> cache[KeyOf(m)]]
      /\ done' = {} /\ computed' = <<>> /\ stored' = {}
      /\ UNCHANGED <<disk, report, root, jobs, caching, graph, snap, cache, spool, worker, hurt>>
  BY <1>0 DEF Load, run
<1>2. ~InRun /\ InRun'
  BY <1>1 DEF InRun
<1>3. root \in Roots /\ snap \in Contents /\ snap' = snap /\ root' = root
  BY <1>1 DEF RunInv, TypeInv, Reading
<1>4. DOMAIN results' = hits
  BY <1>1
<1>5. TypeInv'
  BY <1>1 DEF RunInv, TypeInv
<1>6. Reading'
  BY <1>1 DEF RunInv, Reading
<1>7. Entered'
  BY <1>1, <1>2, EmptyIsRight DEF RunInv, Entered
<1>8. Results(root, snap, results')
  <2>1. \A m \in hits : Right(root, snap, m, cache[Key(graph, snap, m)])
    BY <1>0, CacheFinds DEF RunInv, Entered, KeyOf
  <2>2. \A m \in hits : results'[m] = cache[Key(graph, snap, m)]
    BY <1>1 DEF KeyOf
  <2>3. QED
    BY <1>4, <2>1, <2>2 DEF Results
<1>9. Waved'
  BY <1>1, <1>3, <1>8 DEF Waved, Complete
<1>10. Computing'
  BY <1>1, EmptyIsRight DEF Computing
<1>11. Covered'
  BY <1>1 DEF Covered
<1>12. Working'
  BY <1>1, <1>2, EmptyIsRight DEF RunInv, Working
<1>13. Findable'
  BY <1>1, <1>3, <1>4 DEF Findable, Kept, KeyOf
<1>14. ReportRight(report)'
  BY <1>1 DEF RunInv
<1>15. QED
  BY <1>5, <1>6, <1>7, <1>9, <1>10, <1>11, <1>12, <1>13, <1>14 DEF RunInv

LEMMA NextWaveStep ==
    ASSUME RunInv, NextWave
    PROVE  RunInv'
<1>1. /\ pc = "wave" /\ pc' = "work"
      /\ pending' = {c \in Wave(graph, done) : ~(c \subseteq DOMAIN results)}
      /\ UNCHANGED <<disk, report, root, jobs, caching, graph, snap, cache, spool, results, done, computed, stored, worker, hurt>>
  BY DEF NextWave, run
<1>2. InRun /\ InRun'
  BY <1>1 DEF InRun
<1>3. TypeInv' /\ Reading'
  BY <1>1 DEF RunInv, TypeInv, Reading
<1>4. Entered' /\ ReportRight(report)'
  BY <1>1, <1>2 DEF RunInv, Entered
<1>5. Waved' /\ Computing'
  BY <1>1, <1>2 DEF RunInv, Waved, Computing
<1>6. Covered'
  BY <1>1 DEF Covered
<1>7. Working'
  <2>1. \A w \in Workers : WorkerRight("wave", root, snap, jobs, done, worker[w])
    BY <1>1, <1>2 DEF RunInv, Working
  <2>2. \A w \in Workers : WorkerRight("work", root, snap, jobs, done, worker[w])
    BY <2>1 DEF WorkerRight
  <2>3. QED
    BY <1>1, <1>2, <2>2 DEF Working
<1>8. Findable'
  BY <1>1, <1>2 DEF RunInv, Findable, Kept
<1>9. QED
  BY <1>3, <1>4, <1>5, <1>6, <1>7, <1>8 DEF RunInv

\* The sources and results a component is analysed from in this process.
LEMMA AnalyseHereStep ==
    ASSUME RunInv, NEW c \in pending, AnalyseHere(c)
    PROVE  RunInv'
<1> DEFINE texts == Restrict(snap, c)
           imported == Restrict(results, Needed(c))
           made == Analysed(c, snap[Conf], texts, imported)
<1>1. /\ pc = "work" /\ pc' = "work"
      /\ pending' = pending \ {c} /\ computed' = Updated(computed, made)
      /\ UNCHANGED <<disk, report, root, jobs, caching, graph, snap, cache, spool, results, done, stored, worker, hurt>>
  BY DEF AnalyseHere, run
<1>2. /\ InRun /\ InRun' /\ root \in Roots /\ snap \in Contents /\ graph = Graph(root, snap)
      /\ c \in Wave(graph, done)
  BY <1>1 DEF InRun, RunInv, TypeInv, Reading, Covered
<1>3. PICK m \in Analysable(root, snap) : c = Component(graph, m)
  BY <1>2, WaveNeeds
<1>4. c \subseteq Analysable(root, snap) /\ Needed(c) \subseteq DOMAIN results
  BY <1>2, WaveNeeds
<1>5. \A x \in c : texts[x] \in Texts /\ texts[x] = snap[x]
  <2>1. c \subseteq Files /\ Conf \in Files
    BY <1>2, <1>4, GraphFacts DEF Files
  <2>2. \A x \in c : texts[x] = snap[x]
    BY <2>1 DEF Restrict
  <2>3. QED
    BY <1>2, <2>1, <2>2 DEF Contents
<1>6. DOMAIN imported = Needed(c) /\ \A y \in Needed(c) : Right(root, snap, y, imported[y])
  <2>1. \A y \in Needed(c) : Right(root, snap, y, results[y])
    BY <1>2, <1>4 DEF RunInv, Waved, Results
  <2>2. DOMAIN imported = Needed(c) /\ \A y \in Needed(c) : imported[y] = results[y]
    BY <1>4 DEF Restrict
  <2>3. QED
    BY <2>1, <2>2
<1>7. snap[Conf] \in Texts
  BY <1>2 DEF Contents, Files
<1> HIDE DEF texts, imported
<1>8. DOMAIN made = c /\ Results(root, snap, made)
  BY <1>2, <1>3, <1>4, <1>5, <1>6, <1>7, AnalysedIsRight DEF Results
<1> HIDE DEF made
<1>9. Results(root, snap, computed') /\ DOMAIN computed' = DOMAIN computed \cup c
  BY <1>1, <1>2, <1>8, ResultsGrow DEF RunInv, Computing
<1>10. TypeInv' /\ Reading'
  BY <1>1 DEF RunInv, TypeInv, Reading
<1>11. Entered' /\ ReportRight(report)'
  BY <1>1, <1>2 DEF RunInv, Entered
<1>12. Waved'
  BY <1>1, <1>2 DEF RunInv, Waved
<1>13. Computing'
  BY <1>1, <1>2, <1>9 DEF RunInv, Computing
<1>14. Covered'
  BY <1>1, <1>9 DEF RunInv, Covered
<1>15. Working'
  BY <1>1, <1>2 DEF RunInv, Working
<1>16. Findable'
  BY <1>1, <1>2 DEF RunInv, Findable, Kept
<1>17. QED
  BY <1>10, <1>11, <1>12, <1>13, <1>14, <1>15, <1>16 DEF RunInv

LEMMA StartWorkerStep ==
    ASSUME RunInv, NEW w \in Workers, StartWorker(w)
    PROVE  RunInv'
<1>1. /\ pc = "work" /\ pc' = "work" /\ jobs = "pool" /\ worker[w].conf = NoText
      /\ worker' = [worker EXCEPT ![w].conf = disk[Conf]]
      /\ UNCHANGED <<disk, report, root, jobs, caching, graph, snap, cache, spool, results, done, pending, computed, stored, hurt>>
  BY DEF StartWorker, run, progress
<1>2. InRun /\ InRun' /\ DOMAIN worker = Workers /\ DOMAIN worker[w] = {"conf", "task", "texts", "read"}
  BY <1>1 DEF InRun, RunInv, TypeInv
<1>3. /\ DOMAIN worker' = Workers
      /\ worker'[w] = [worker[w] EXCEPT !.conf = disk[Conf]]
      /\ \A v \in Workers \ {w} : worker'[v] = worker[v]
  BY <1>1, <1>2
<1>4. /\ DOMAIN worker'[w] = {"conf", "task", "texts", "read"}
      /\ worker'[w].conf = disk[Conf] /\ worker'[w].task = worker[w].task
      /\ worker'[w].texts = worker[w].texts /\ worker'[w].read = worker[w].read
  BY <1>2, <1>3
<1>5. TypeInv'
  BY <1>1, <1>3, <1>4 DEF RunInv, TypeInv
<1>6. Reading'
  BY <1>1 DEF RunInv, Reading
<1>7. Entered' /\ ReportRight(report)'
  BY <1>1, <1>2 DEF RunInv, Entered
<1>8. Waved' /\ Computing'
  BY <1>1, <1>2 DEF RunInv, Waved, Computing
<1>9. Covered'
  <2>1. \A v \in Workers : worker'[v].task = worker[v].task
    BY <1>3, <1>4
  <2>2. QED
    BY <1>1, <2>1 DEF RunInv, Covered
<1>10. Working'
  <2>1. \A v \in Workers : WorkerRight(pc, root, snap, jobs, done, worker[v])
    BY <1>2 DEF RunInv, Working
  <2>2. /\ disk[Conf] \in Texts
        /\ jobs \notin LiveEdits => disk[Conf] = snap[Conf]
    <3>1. snap \in Contents /\ disk \in Contents
      BY <1>1 DEF RunInv, TypeInv, Reading
    <3>2. Conf \in Files /\ DOMAIN snap = Files
      BY <3>1 DEF Contents, Files
    <3>3. QED
      BY <3>1, <3>2 DEF RunInv, Reading, Contents
  <2>3. WorkerRight(pc, root, snap, jobs, done, worker'[w])
    BY <1>1, <1>2, <1>4, <2>1, <2>2 DEF WorkerRight
  <2>4. QED
    BY <1>1, <1>2, <1>3, <2>1, <2>3 DEF Working
<1>11. Findable'
  BY <1>1, <1>2 DEF RunInv, Findable, Kept
<1>12. QED
  BY <1>5, <1>6, <1>7, <1>8, <1>9, <1>10, <1>11 DEF RunInv

LEMMA TakeTaskStep ==
    ASSUME RunInv, NEW c \in pending, NEW w \in Workers, TakeTask(w, c)
    PROVE  RunInv'
<1>1. /\ pc = "work" /\ pc' = "work" /\ worker[w].conf # NoText /\ worker[w].task = {}
      /\ pending' = pending \ {c}
      /\ worker' = [worker EXCEPT ![w].task = c, ![w].texts = Restrict(disk, c)]
      /\ UNCHANGED <<disk, report, root, jobs, caching, graph, snap, cache, spool, results, done, computed, stored, hurt>>
  BY DEF TakeTask, run
<1>2. InRun /\ InRun' /\ DOMAIN worker = Workers /\ DOMAIN worker[w] = {"conf", "task", "texts", "read"}
  BY <1>1 DEF InRun, RunInv, TypeInv
<1>3. /\ DOMAIN worker' = Workers
      /\ worker'[w] = [worker[w] EXCEPT !.task = c, !.texts = Restrict(disk, c)]
      /\ \A v \in Workers \ {w} : worker'[v] = worker[v]
  BY <1>1, <1>2
<1>4. /\ DOMAIN worker'[w] = {"conf", "task", "texts", "read"}
      /\ worker'[w].conf = worker[w].conf /\ worker'[w].task = c
      /\ worker'[w].texts = Restrict(disk, c) /\ worker'[w].read = worker[w].read
  BY <1>2, <1>3
<1>5. TypeInv'
  BY <1>1, <1>3, <1>4 DEF RunInv, TypeInv
<1>6. Reading'
  BY <1>1 DEF RunInv, Reading
<1>7. Entered' /\ ReportRight(report)'
  BY <1>1, <1>2 DEF RunInv, Entered
<1>8. Waved' /\ Computing'
  BY <1>1, <1>2 DEF RunInv, Waved, Computing
<1>9. c \in Wave(graph, done) /\ c # {} /\ c \subseteq Analysable(root, snap) /\ graph = Graph(root, snap)
  BY <1>1, <1>2, WaveNeeds, GraphOfRun DEF RunInv, Covered
<1>10. Covered'
  <2> SUFFICES ASSUME NEW d \in Wave(graph, done)
               PROVE  \/ d \subseteq DOMAIN results \cup DOMAIN computed
                      \/ d \in pending'
                      \/ \E v \in Workers : worker'[v].task = d
    BY <1>1 DEF RunInv, Covered
  <2>1. CASE d = c
    BY <1>4, <2>1
  <2>2. CASE d # c /\ d \in pending
    BY <1>1, <2>2
  <2>3. CASE \E v \in Workers : worker[v].task = d
    <3>1. PICK v \in Workers : worker[v].task = d
      BY <2>3
    <3>2. d # {}
      BY <1>2, WaveNeeds
    <3>3. v # w
      BY <1>1, <3>1, <3>2
    <3>4. QED
      BY <1>3, <3>1, <3>3
  <2>4. QED
    BY <1>1, <2>1, <2>2, <2>3 DEF RunInv, Covered
<1>11. Working'
  <2>1. \A v \in Workers : WorkerRight(pc, root, snap, jobs, done, worker[v])
    BY <1>2 DEF RunInv, Working
  <2>2. \A m \in c : /\ worker'[w].texts[m] \in Texts
                     /\ jobs \notin LiveEdits => worker'[w].texts[m] = snap[m]
    <3>1. snap \in Contents /\ disk \in Contents /\ root \in Roots
      BY <1>1 DEF RunInv, TypeInv, Reading
    <3>2. c \subseteq Files
      BY <1>9, <3>1, GraphFacts DEF Files
    <3>3. DOMAIN snap = Files /\ DOMAIN disk = Files
      BY <3>1 DEF Contents
    <3>4. \A m \in c : Restrict(disk, c)[m] = disk[m]
      BY <3>2, <3>3 DEF Restrict
    <3>5. \A m \in c : disk[m] \in Texts /\ (jobs \notin LiveEdits => snap[m] = disk[m])
      BY <3>1, <3>2, <3>3 DEF RunInv, Reading, Contents
    <3>6. QED
      BY <1>4, <3>4, <3>5
  <2>3. WorkerRight(pc, root, snap, jobs, done, worker'[w])
    BY <1>1, <1>4, <1>9, <2>1, <2>2 DEF WorkerRight
  <2>4. QED
    BY <1>1, <1>2, <1>3, <2>1, <2>3 DEF Working
<1>12. Findable'
  BY <1>1, <1>2 DEF RunInv, Findable, Kept
<1>13. QED
  BY <1>5, <1>6, <1>7, <1>8, <1>10, <1>11, <1>12 DEF RunInv

\* An entry a worker imports stands for its module.
LEMMA ImportedIsRight ==
    ASSUME RunInv, InRun, NEW w \in Workers, NEW c, NEW y \in Needed(c), y \in Analysable(root, snap),
           KeyOf(y) \in DOMAIN worker[w].read \/ Hit(Kept, KeyOf(y))
    PROVE  Right(root, snap, y, Imported(w, c)[y])
<1>1. /\ root \in Roots /\ snap \in Contents /\ graph = Graph(root, snap)
      /\ OfRun(root, snap, worker[w].read) /\ OfRun(root, snap, spool) /\ CacheRight(cache)
  BY DEF RunInv, TypeInv, Reading, Entered, Working, WorkerRight, InRun
<1>2. Imported(w, c)[y] = IF KeyOf(y) \in DOMAIN worker[w].read THEN worker[w].read[KeyOf(y)] ELSE Kept[KeyOf(y)]
  BY DEF Imported
<1>3. CASE KeyOf(y) \in DOMAIN worker[w].read
  BY <1>1, <1>2, <1>3, OfRunFinds DEF KeyOf
<1>4. CASE KeyOf(y) \notin DOMAIN worker[w].read /\ caching
  <2>1. Kept = cache /\ Hit(cache, Key(graph, snap, y))
    BY <1>4 DEF Kept, KeyOf
  <2>2. QED
    BY <1>1, <1>2, <1>4, <2>1, CacheFinds DEF KeyOf
<1>5. CASE KeyOf(y) \notin DOMAIN worker[w].read /\ ~caching
  <2>1. Kept = spool /\ Key(graph, snap, y) \in DOMAIN spool
    BY <1>5 DEF Kept, KeyOf, Hit
  <2>2. QED
    BY <1>1, <1>2, <1>5, <2>1, OfRunFinds DEF KeyOf
<1>6. QED
  BY <1>3, <1>4, <1>5

LEMMA FinishTaskStep ==
    ASSUME RunInv, NEW w \in Workers, FinishTask(w)
    PROVE  RunInv'
<1> DEFINE c == worker[w].task
           imported == Imported(w, c)
           read == [k \in {KeyOf(m) : m \in DOMAIN imported} |-> imported[CHOOSE m \in DOMAIN imported : KeyOf(m) = k]]
           made == Analysed(c, worker[w].conf, worker[w].texts, imported)
<1>0. computed' = Updated(computed, made)
  BY DEF FinishTask
<1>1. /\ pc = "work" /\ pc' = "work" /\ c # {} /\ Able(w)
      /\ worker' = [worker EXCEPT ![w].task = {}, ![w].texts = <<>>, ![w].read = Updated(@, read)]
      /\ UNCHANGED <<disk, report, root, jobs, caching, graph, snap, cache, spool, results, done, pending, stored, hurt>>
  BY DEF FinishTask, run
<1>2. /\ InRun /\ InRun' /\ root \in Roots /\ snap \in Contents /\ graph = Graph(root, snap)
      /\ DOMAIN worker = Workers /\ DOMAIN worker[w] = {"conf", "task", "texts", "read"}
  BY <1>1 DEF InRun, RunInv, TypeInv, Reading
<1>3. \A v \in Workers : WorkerRight(pc, root, snap, jobs, done, worker[v])
  BY <1>2 DEF RunInv, Working
<1>4. /\ c \in Wave(graph, done) /\ worker[w].conf \in Texts
      /\ \A x \in c : worker[w].texts[x] \in Texts
      /\ "pool" \notin LiveEdits => worker[w].conf = snap[Conf] /\ \A x \in c : worker[w].texts[x] = snap[x]
  BY <1>1, <1>2, <1>3 DEF WorkerRight
<1>5. PICK m \in Analysable(root, snap) : c = Component(graph, m)
  BY <1>2, <1>4, WaveNeeds
<1>6. DOMAIN imported = Needed(c) /\ Needed(c) \subseteq Analysable(root, snap)
  BY <1>2, <1>4, WaveNeeds DEF Imported, RunInv, Waved, Results
<1>7. \A y \in Needed(c) : Right(root, snap, y, imported[y])
  BY <1>1, <1>2, <1>6, ImportedIsRight DEF Able
<1>8. OfRun(root, snap, read)
  <2> SUFFICES ASSUME NEW k \in DOMAIN read
               PROVE  \E y \in Analysable(root, snap) : k = Key(graph, snap, y) /\ Right(root, snap, y, read[k])
    BY <1>2 DEF OfRun
  <2> DEFINE y == CHOOSE y \in DOMAIN imported : KeyOf(y) = k
  <2>1. \E x \in DOMAIN imported : KeyOf(x) = k
    OBVIOUS
  <2>2. y \in DOMAIN imported /\ KeyOf(y) = k
    BY <2>1
  <2>3. read[k] = imported[y]
    OBVIOUS
  <2> HIDE DEF y, read, imported
  <2>4. QED
    BY <1>6, <1>7, <2>2, <2>3 DEF KeyOf
<1> HIDE DEF read, imported, c
<1>9. DOMAIN made = c /\ Results(root, snap, made)
  BY <1>2, <1>4, <1>5, <1>6, <1>7, AnalysedIsRight DEF Results
<1> HIDE DEF made
<1>10. Results(root, snap, computed') /\ DOMAIN computed' = DOMAIN computed \cup c
  <2>1. Results(root, snap, computed)
    BY <1>2 DEF RunInv, Computing
  <2>2. Results(root, snap, made) /\ DOMAIN made = c
    BY <1>9
  <2>3. Results(root, snap, Updated(computed, made)) /\ DOMAIN Updated(computed, made) = DOMAIN computed \cup DOMAIN made
    BY <2>1, <2>2, ResultsGrow
  <2>4. QED
    BY <1>0, <2>2, <2>3
<1>11. /\ DOMAIN worker' = Workers
       /\ worker'[w] = [worker[w] EXCEPT !.task = {}, !.texts = <<>>, !.read = Updated(@, read)]
       /\ \A v \in Workers \ {w} : worker'[v] = worker[v]
  BY <1>1, <1>2
<1>12. /\ DOMAIN worker'[w] = {"conf", "task", "texts", "read"}
       /\ worker'[w].conf = worker[w].conf /\ worker'[w].task = {}
       /\ worker'[w].read = Updated(worker[w].read, read)
  BY <1>2, <1>11
<1>13. TypeInv'
  BY <1>1, <1>11, <1>12 DEF RunInv, TypeInv
<1>14. Reading'
  BY <1>1 DEF RunInv, Reading
<1>15. Entered' /\ ReportRight(report)'
  BY <1>1, <1>2 DEF RunInv, Entered
<1>16. Waved'
  BY <1>1, <1>2 DEF RunInv, Waved
<1>17. Computing'
  BY <1>1, <1>2, <1>10 DEF RunInv, Computing
<1>18. Covered'
  <2> SUFFICES ASSUME NEW d \in Wave(graph, done)
               PROVE  \/ d \subseteq DOMAIN results \cup DOMAIN computed'
                      \/ d \in pending
                      \/ \E v \in Workers : worker'[v].task = d
    BY <1>1 DEF RunInv, Covered
  <2>1. CASE d = c
    BY <1>10, <2>1
  <2>2. CASE d \subseteq DOMAIN results \cup DOMAIN computed
    BY <1>10, <2>2
  <2>3. CASE d # c /\ \E v \in Workers : worker[v].task = d
    <3>1. PICK v \in Workers : worker[v].task = d
      BY <2>3
    <3>2. v # w
      BY <2>3, <3>1 DEF c
    <3>3. QED
      BY <1>11, <3>1, <3>2
  <2>4. QED
    BY <1>1, <2>1, <2>2, <2>3 DEF RunInv, Covered
<1>19. Working'
  <2>1. OfRun(root, snap, worker'[w].read)
    BY <1>3, <1>8, <1>12, OfRunUpdated DEF WorkerRight
  <2>2. WorkerRight(pc, root, snap, jobs, done, worker'[w])
    BY <1>3, <1>12, <2>1 DEF WorkerRight
  <2>3. QED
    BY <1>1, <1>2, <1>3, <1>11, <2>2 DEF Working
<1>20. Findable'
  BY <1>1, <1>2 DEF RunInv, Findable, Kept
<1>21. QED
  BY <1>13, <1>14, <1>15, <1>16, <1>17, <1>18, <1>19, <1>20 DEF RunInv

\* With what has been computed, what a run knows is right, and its waves stay complete.
LEMMA WaveResults ==
    ASSUME RunInv, InRun
    PROVE  /\ Results(root, snap, Updated(results, computed))
           /\ DOMAIN Updated(results, computed) = DOMAIN results \cup DOMAIN computed
<1>1. Results(root, snap, results) /\ Results(root, snap, computed)
  BY DEF RunInv, Waved, Computing
<1>2. QED
  BY <1>1, ResultsGrow

LEMMA WaveEnds ==
    ASSUME RunInv, InRun, \A c \in Wave(graph, done) : c \subseteq DOMAIN results \cup DOMAIN computed,
           results' = Updated(results, computed), done' = done \cup UNION Wave(graph, done),
           UNCHANGED <<root, snap>>
    PROVE  /\ Results(root, snap, results') /\ results' = [m \in DOMAIN results' |-> results'[m]]
           /\ DOMAIN results' = DOMAIN results \cup DOMAIN computed
           /\ done' \subseteq DOMAIN results'
           /\ Complete(graph, done')
<1>0. IsGraph(graph) /\ graph.modules = Analysable(root, snap)
  BY GraphFacts, GraphOfRun
<1>1. root \in Roots /\ Results(root, snap, results) /\ Results(root, snap, computed)
      /\ done \subseteq DOMAIN results /\ Complete(graph, done)
  BY DEF RunInv, TypeInv, Waved, Computing
<1>2. /\ Results(root, snap, results') /\ results' = [m \in DOMAIN results' |-> results'[m]]
      /\ DOMAIN results' = DOMAIN results \cup DOMAIN computed
  <2>1. Results(root, snap, results') /\ DOMAIN results' = DOMAIN results \cup DOMAIN computed
    BY WaveResults
  <2>2. results' = [m \in DOMAIN results' |-> results'[m]]
    BY DEF Updated
  <2>3. QED
    BY <2>1, <2>2
<1>3. done' \subseteq DOMAIN results'
  BY <1>1, <1>2
<1>4. done \in SUBSET graph.modules /\ \A x \in done : Edges(graph, x) \subseteq done
  BY <1>0, <1>1 DEF Results, Complete
<1>5. Complete(graph, done')
  BY <1>0, <1>4, WaveCloses DEF Complete
<1>6. QED
  BY <1>2, <1>3, <1>5

LEMMA CollectStep ==
    ASSUME RunInv, Collect
    PROVE  RunInv'
<1>1. /\ pc = "work" /\ pending = {} /\ \A w \in Workers : worker[w].task = {}
      /\ UNCHANGED <<disk, report, root, jobs, caching, graph, snap, cache, spool, pending, stored, worker, hurt>>
  BY DEF Collect, run
<1>2. InRun /\ root \in Roots /\ snap \in Contents
  BY <1>1 DEF InRun, RunInv, TypeInv, Reading
<1>3. \A c \in Wave(graph, done) : c \subseteq DOMAIN results \cup DOMAIN computed
  BY <1>1, <1>2, WaveNeeds DEF RunInv, Covered
<1>4. \A d : \A p \in {"wave", "store"}, w \in Workers : WorkerRight(p, root, snap, jobs, d, worker[w])
  <2>1. \A w \in Workers : WorkerRight(pc, root, snap, jobs, done, worker[w])
    BY <1>2 DEF RunInv, Working
  <2>2. QED
    BY <1>1, <2>1 DEF WorkerRight
<1>5. CASE jobs = "pool" \/ caching
  <2>1. pc' = "store" /\ UNCHANGED <<results, done, computed>>
    BY <1>5 DEF Collect
  <2>2. InRun'
    BY <2>1 DEF InRun
  <2>3. TypeInv' /\ Reading'
    BY <1>1, <2>1 DEF RunInv, TypeInv, Reading
  <2>4. Entered' /\ ReportRight(report)'
    BY <1>1, <1>2, <2>2 DEF RunInv, Entered
  <2>5. Waved' /\ Computing'
    BY <1>1, <1>2, <2>1, <2>2 DEF RunInv, Waved, Computing
  <2>6. Covered'
    BY <1>1, <1>3, <2>1 DEF Covered
  <2>7. Working'
    <3>1. \A w \in Workers : WorkerRight("store", root, snap, jobs, done, worker[w])
      BY <1>4
    <3>2. QED
      BY <1>1, <2>1, <2>2, <3>1 DEF Working
  <2>8. Findable'
    BY <1>1, <1>2, <2>1, <2>2 DEF RunInv, Findable, Kept
  <2>9. QED
    BY <2>3, <2>4, <2>5, <2>6, <2>7, <2>8 DEF RunInv
<1>6. CASE ~(jobs = "pool" \/ caching)
  <2>1. /\ pc' = "wave" /\ results' = Updated(results, computed)
        /\ done' = done \cup UNION Wave(graph, done) /\ computed' = <<>>
    BY <1>6 DEF Collect
  <2>2. InRun'
    BY <2>1 DEF InRun
  <2>3. TypeInv' /\ Reading'
    BY <1>1, <2>1 DEF RunInv, TypeInv, Reading
  <2>4. Entered' /\ ReportRight(report)'
    BY <1>1, <1>2, <2>2 DEF RunInv, Entered
  <2>5. Waved'
    BY <1>1, <1>2, <1>3, <2>1, WaveEnds DEF Waved
  <2>6. Computing'
    <3>1. stored = {}
      BY <1>1, <1>2 DEF RunInv, Computing
    <3>2. QED
      BY <1>1, <2>1, <3>1, EmptyIsRight DEF Computing
  <2>7. Covered'
    BY <2>1 DEF Covered
  <2>8. Working'
    <3>1. \A w \in Workers : WorkerRight("wave", root, snap, jobs, done', worker[w])
      BY <1>4
    <3>2. QED
      BY <1>1, <2>1, <2>2, <3>1 DEF Working
  <2>9. Findable'
    BY <1>1, <1>6 DEF Findable
  <2>10. QED
    BY <2>3, <2>4, <2>5, <2>6, <2>7, <2>8, <2>9 DEF RunInv
<1>7. QED
  BY <1>5, <1>6

LEMMA StoreStep ==
    ASSUME RunInv, NEW m \in DOMAIN computed, Store(m)
    PROVE  RunInv'
<1>0. graph = Graph(root, snap)
  BY GraphOfRun DEF Store, InRun
<1>1. /\ pc = "store" /\ pc' = "store" /\ stored' = stored \cup {m}
      /\ UNCHANGED <<disk, report, root, jobs, caching, graph, snap, results, done, pending, computed, worker, hurt>>
  BY DEF Store, run
<1>2. InRun /\ InRun' /\ root \in Roots /\ snap \in Contents
  BY <1>1 DEF InRun, RunInv, TypeInv, Reading
<1>3. m \in Analysable(root, snap) /\ Right(root, snap, m, computed[m])
  BY <1>2 DEF RunInv, Computing, Results
<1>4. computed[m] # Damaged
  BY <1>3, RightIsWhole
<1>5. CacheRight(cache) /\ OfRun(root, snap, spool)
  BY <1>2 DEF RunInv, Entered
<1>6. CacheRight(cache') /\ OfRun(root, snap, spool') /\ Kept' = With(Kept, KeyOf(m), computed[m])
  <2>1. CASE caching
    <3>1. cache' = With(cache, Key(graph, snap, m), computed[m]) /\ spool' = spool
      BY <2>1 DEF Store, KeyOf
    <3>2. OfSomeRun(Key(graph, snap, m), computed[m])
      BY <1>0, <1>2, <1>3 DEF OfSomeRun
    <3>3. CacheRight(cache')
      BY <1>5, <3>1, <3>2, CacheGrows
    <3>4. QED
      BY <1>1, <1>5, <2>1, <3>1, <3>3 DEF Kept, KeyOf
  <2>2. CASE ~caching
    <3>1. spool' = With(spool, Key(graph, snap, m), computed[m]) /\ cache' = cache
      BY <2>2 DEF Store, KeyOf
    <3>2. OfRun(root, snap, spool')
      BY <1>0, <1>3, <1>5, <3>1, OfRunGrows
    <3>3. QED
      BY <1>1, <1>5, <2>2, <3>1, <3>2 DEF Kept, KeyOf
  <2>3. QED
    BY <2>1, <2>2
<1>7. TypeInv' /\ Reading'
  BY <1>1 DEF RunInv, TypeInv, Reading
<1>8. Entered' /\ ReportRight(report)'
  BY <1>1, <1>2, <1>6 DEF RunInv, Entered
<1>9. Waved' /\ Computing'
  BY <1>1, <1>2 DEF RunInv, Waved, Computing
<1>10. Covered'
  BY <1>1 DEF RunInv, Covered
<1>11. Working'
  BY <1>1, <1>2 DEF RunInv, Working
<1>12. Findable'
  <2> SUFFICES ASSUME ~hurt', caching' \/ jobs' = "pool", NEW x \in DOMAIN results' \cup stored'
               PROVE  Hit(Kept', Key(graph', snap', x))
    BY DEF Findable
  <2>1. CASE x = m
    BY <1>1, <1>4, <1>6, <2>1, StillHit DEF KeyOf
  <2>2. CASE x # m
    <3>1. Hit(Kept, Key(graph, snap, x))
      BY <1>1, <1>2, <2>2 DEF RunInv, Findable
    <3>2. QED
      BY <1>1, <1>4, <1>6, <3>1, StillHit
  <2>3. QED
    BY <2>1, <2>2
<1>13. QED
  BY <1>7, <1>8, <1>9, <1>10, <1>11, <1>12 DEF RunInv

LEMMA EndWaveStep ==
    ASSUME RunInv, EndWave
    PROVE  RunInv'
<1>1. /\ pc = "store" /\ pc' = "wave" /\ stored = DOMAIN computed
      /\ results' = Updated(results, computed) /\ done' = done \cup UNION Wave(graph, done)
      /\ computed' = <<>> /\ stored' = {}
      /\ UNCHANGED <<disk, report, root, jobs, caching, graph, snap, cache, spool, pending, worker, hurt>>
  BY DEF EndWave, run
<1>2. InRun /\ InRun'
  BY <1>1 DEF InRun
<1>3. TypeInv' /\ Reading'
  BY <1>1 DEF RunInv, TypeInv, Reading
<1>4. Entered' /\ ReportRight(report)'
  BY <1>1, <1>2 DEF RunInv, Entered
<1>5. /\ Results(root, snap, results') /\ results' = [m \in DOMAIN results' |-> results'[m]]
      /\ DOMAIN results' = DOMAIN results \cup DOMAIN computed
      /\ done' \subseteq DOMAIN results' /\ Complete(graph, done')
  <2>1. \A c \in Wave(graph, done) : c \subseteq DOMAIN results \cup DOMAIN computed
    BY <1>1 DEF RunInv, Covered
  <2>2. QED
    BY <1>1, <1>2, <2>1, WaveEnds
<1>6. Waved'
  BY <1>1, <1>5 DEF Waved
<1>7. Computing'
  BY <1>1, EmptyIsRight DEF Computing
<1>8. Covered'
  BY <1>1 DEF Covered
<1>9. Working'
  <2>1. \A w \in Workers : WorkerRight(pc, root, snap, jobs, done, worker[w])
    BY <1>2 DEF RunInv, Working
  <2>2. \A w \in Workers : WorkerRight("wave", root, snap, jobs, done', worker[w])
    BY <1>1, <2>1 DEF WorkerRight
  <2>3. QED
    BY <1>1, <1>2, <2>2 DEF Working
<1>10. Findable'
  BY <1>1, <1>2, <1>5 DEF RunInv, Findable, Kept
<1>11. QED
  BY <1>3, <1>4, <1>6, <1>7, <1>8, <1>9, <1>10 DEF RunInv

\* What ends a run, whatever it is.
LEMMA ClosedStep ==
    ASSUME RunInv, Closed, ReportRight(report')
    PROVE  RunInv'
<1>1. /\ pc' = "idle" /\ spool' = <<>> /\ worker' = [w \in Workers |-> Idle]
      /\ jobs' = "serial" /\ caching' = FALSE /\ snap' = <<>> /\ hurt' = FALSE
      /\ UNCHANGED <<disk, root, cache>>
  BY DEF Closed
<1>2. ~InRun'
  BY <1>1 DEF InRun
<1>3. TypeInv'
  <2>1. DOMAIN worker' = Workers /\ \A w \in Workers : DOMAIN worker'[w] = {"conf", "task", "texts", "read"}
    BY <1>1 DEF Idle
  <2>2. QED
    BY <1>1, <2>1 DEF RunInv, TypeInv
<1>4. Reading'
  <2>1. DOMAIN snap' = {}
    BY <1>1
  <2>2. QED
    BY <1>1, <2>1 DEF Reading
<1>5. Entered'
  BY <1>1, <1>2 DEF RunInv, Entered
<1>6. Waved' /\ Computing' /\ Covered' /\ Findable'
  BY <1>1, <1>2 DEF Waved, Computing, Covered, Findable
<1>7. Working'
  BY <1>1, <1>2 DEF Working
<1>8. QED
  BY <1>3, <1>4, <1>5, <1>6, <1>7 DEF RunInv

\* The results of a run that has done every module are those of all modules.
LEMMA AllResults ==
    ASSUME RunInv, pc = "wave", done = Analysable(root, snap)
    PROVE  /\ results = [m \in Analysable(root, snap) |-> results[m]]
           /\ Results(root, snap, results)
<1>1. InRun
  BY DEF InRun
<1>2. /\ Results(root, snap, results) /\ results = [m \in DOMAIN results |-> results[m]]
      /\ done \subseteq DOMAIN results
  BY <1>1 DEF RunInv, Waved
<1>3. DOMAIN results = Analysable(root, snap)
  BY <1>2 DEF Results
<1>4. QED
  BY <1>2, <1>3

LEMMA FinishStep ==
    ASSUME RunInv, Finish
    PROVE  RunInv'
<1>1. pc = "wave" /\ done = Analysable(root, snap) /\ Closed
      /\ report' = [root |-> root, snap |-> snap, entries |-> results]
  BY GraphOfRun, GraphFacts DEF Finish, InRun
<1>2. root \in Roots /\ snap \in Contents
  BY <1>1 DEF RunInv, TypeInv, Reading
<1>3. report'.entries = results /\ report' = [root |-> root, snap |-> snap, entries |-> report'.entries]
  BY <1>1
<1>4. ReportRight(report')
  BY <1>1, <1>2, <1>3, AllResults DEF ReportRight
<1>5. QED
  BY <1>1, <1>4, ClosedStep

\* A worker that misses an entry, and a run that is killed, leave the report as it was.
LEMMA AbortStep ==
    ASSUME RunInv, (\E w \in Workers : FailTask(w)) \/ Crash
    PROVE  RunInv'
<1>1. Closed /\ report' = report
  BY DEF FailTask, Crash
<1>2. ReportRight(report')
  BY <1>1 DEF RunInv
<1>3. QED
  BY <1>1, <1>2, ClosedStep

LEMMA EditStep ==
    ASSUME RunInv, NEW f \in Files, NEW t \in Texts, Edit(f, t)
    PROVE  RunInv'
<1>1. /\ pc = "idle" \/ jobs \in LiveEdits
      /\ disk' = [disk EXCEPT ![f] = t]
      /\ UNCHANGED <<pc, report, root, jobs, caching, graph, snap, cache, spool, results, done, pending, computed, stored,
                     worker, hurt>>
  BY DEF Edit, run, progress
<1>2. InRun' <=> InRun
  BY <1>1 DEF InRun
<1>3. TypeInv'
  BY <1>1 DEF RunInv, TypeInv, Contents
<1>4. Reading'
  <2>1. jobs \notin LiveEdits => DOMAIN snap = {}
    BY <1>1 DEF RunInv, Reading
  <2>2. QED
    BY <1>1, <2>1 DEF RunInv, Reading
<1>5. Entered' /\ ReportRight(report)'
  BY <1>1, <1>2 DEF RunInv, Entered
<1>6. Waved' /\ Computing'
  BY <1>1, <1>2 DEF RunInv, Waved, Computing
<1>7. Covered'
  BY <1>1 DEF RunInv, Covered
<1>8. Working'
  BY <1>1, <1>2 DEF RunInv, Working
<1>9. Findable'
  BY <1>1, <1>2 DEF RunInv, Findable, Kept
<1>10. QED
  BY <1>3, <1>4, <1>5, <1>6, <1>7, <1>8, <1>9 DEF RunInv

LEMMA DamageStep ==
    ASSUME RunInv, NEW k \in DOMAIN cache, Damage(k)
    PROVE  RunInv'
<1>1. /\ cache' = With(cache, k, Damaged) /\ hurt' = TRUE
      /\ UNCHANGED <<disk, pc, report, root, jobs, caching, graph, snap, spool, results, done, pending, computed, stored, worker>>
  BY DEF Damage, run, progress
<1>2. InRun' <=> InRun
  BY <1>1 DEF InRun
<1>3. TypeInv' /\ Reading'
  BY <1>1 DEF RunInv, TypeInv, Reading
<1>4. CacheRight(cache')
  BY <1>1, CacheGrows DEF RunInv, Entered
<1>5. Entered' /\ ReportRight(report)'
  BY <1>1, <1>2, <1>4 DEF RunInv, Entered
<1>6. Waved' /\ Computing'
  BY <1>1, <1>2 DEF RunInv, Waved, Computing
<1>7. Covered'
  BY <1>1 DEF RunInv, Covered
<1>8. Working'
  BY <1>1, <1>2 DEF RunInv, Working
<1>9. Findable'
  BY <1>1 DEF Findable
<1>10. QED
  BY <1>3, <1>5, <1>6, <1>7, <1>8, <1>9 DEF RunInv

LEMMA StutterStep ==
    ASSUME RunInv, UNCHANGED vars
    PROVE  RunInv'
<1>1. UNCHANGED <<disk, pc, report, root, jobs, caching, graph, snap, cache, spool, results, done, pending, computed, stored,
                  worker, hurt>>
  BY DEF vars, run, progress
<1>2. InRun' <=> InRun
  BY <1>1 DEF InRun
<1>3. TypeInv' /\ Reading'
  BY <1>1 DEF RunInv, TypeInv, Reading
<1>4. Entered' /\ ReportRight(report)' /\ Waved' /\ Computing'
  BY <1>1, <1>2 DEF RunInv, Entered, Waved, Computing
<1>5. Covered' /\ Working'
  BY <1>1, <1>2 DEF RunInv, Covered, Working
<1>6. Findable'
  BY <1>1, <1>2 DEF RunInv, Findable, Kept
<1>7. QED
  BY <1>3, <1>4, <1>5, <1>6 DEF RunInv

\* Every step keeps the invariant.
LEMMA NextInv ==
    ASSUME RunInv, [Next]_vars
    PROVE  RunInv'
<1>1. CASE \E r \in Roots, j \in Jobs, c \in BOOLEAN : Begin(r, j, c)
  BY <1>1, BeginStep
<1>2. CASE Work
  <2>1. CASE ReadFile
    BY <2>1, ReadFileStep
  <2>2. CASE Load
    BY <2>2, LoadStep
  <2>3. CASE NextWave
    BY <2>3, NextWaveStep
  <2>4. CASE Collect
    BY <2>4, CollectStep
  <2>5. CASE EndWave
    BY <2>5, EndWaveStep
  <2>6. CASE Finish
    BY <2>6, FinishStep
  <2>7. CASE \E c \in pending : AnalyseHere(c)
    BY <2>7, AnalyseHereStep
  <2>8. CASE \E c \in pending : \E w \in Workers : TakeTask(w, c)
    BY <2>8, TakeTaskStep
  <2>9. CASE \E w \in Workers : StartWorker(w)
    BY <2>9, StartWorkerStep
  <2>10. CASE \E w \in Workers : FinishTask(w)
    BY <2>10, FinishTaskStep
  <2>11. CASE \E w \in Workers : FailTask(w)
    BY <2>11, AbortStep
  <2>12. CASE \E m \in DOMAIN computed : Store(m)
    BY <2>12, StoreStep
  <2>13. QED
    BY <1>2, <2>1, <2>2, <2>3, <2>4, <2>5, <2>6, <2>7, <2>8, <2>9, <2>10, <2>11, <2>12 DEF Work
<1>3. CASE \E f \in Files, t \in Texts : Edit(f, t)
  BY <1>3, EditStep
<1>4. CASE Crash
  BY <1>4, AbortStep
<1>5. CASE \E k \in DOMAIN cache : Damage(k)
  BY <1>5, DamageStep
<1>6. CASE UNCHANGED vars
  BY <1>6, StutterStep
<1>7. QED
  BY <1>1, <1>2, <1>3, <1>4, <1>5, <1>6 DEF Next

-----------------------------------------------------------------------------
(* What it says of the runs.                                               *)

\* Every state of the runs satisfies the invariant, whatever is edited, killed or lost.
THEOREM RunInvariant == Spec => []RunInv
<1>1. Init => RunInv
  BY InitInv
<1>2. RunInv /\ [Next]_vars => RunInv'
  BY NextInv
<1>3. QED
  BY <1>1, <1>2, PTL DEF Spec

\* A worker finds every entry its component imports unless one was lost during the run, even
\* if files are edited under a pool.
THEOREM ImportsSpooled == Spec => []ImportsAreSpooled
<1>1. ASSUME RunInv PROVE ImportsAreSpooled
  <2> SUFFICES ASSUME ~hurt, NEW w \in Workers, NEW m \in Needed(worker[w].task)
               PROVE  Hit(Kept, KeyOf(m))
    BY DEF ImportsAreSpooled
  <2>1. worker[w].task # {}
    BY DEF Needed
  <2>2. InRun
    BY <1>1, <2>1 DEF RunInv, Working, Idle
  <2>3. jobs = "pool" /\ worker[w].task \in Wave(graph, done)
    BY <1>1, <2>1, <2>2, GraphOfRun DEF RunInv, Working, WorkerRight
  <2>4. m \in DOMAIN results
    BY <1>1, <2>2, <2>3, WaveNeeds
  <2>5. QED
    BY <1>1, <2>2, <2>3, <2>4 DEF RunInv, Findable, KeyOf
<1>2. QED
  BY <1>1, RunInvariant, PTL

\* A key names exactly what its entry was computed from, provided no file is edited while a
\* pool of workers reads the files again: then the code breaks it (engine.py 1083).
THEOREM CacheIsSound ==
    ASSUME "pool" \notin LiveEdits
    PROVE  Spec => []CacheSound
<1>1. ASSUME RunInv PROVE CacheSound
  <2> SUFFICES ASSUME NEW k \in DOMAIN cache, cache[k] # Damaged
               PROVE  cache[k].conf = k.conf /\ {x.own : x \in cache[k].seen} = {k.own} \cup k.imported
    BY DEF CacheSound
  <2>1. OfSomeRun(k, cache[k])
    BY <1>1 DEF RunInv, Entered, CacheRight
  <2>2. Agrees(k, cache[k])
    BY <2>1 DEF OfSomeRun, Right
  <2>3. QED
    BY <2>2 DEF Agrees
<1>2. QED
  BY <1>1, RunInvariant, PTL

\* Under the same condition, a run reports a result for every module it found, and each was
\* computed from the configuration, the files and the names of what the module imports, as
\* the run read them: no result of other contents is served, whatever the cache holds.
Reported(r, s, m, e) ==
    /\ e.conf = s[Conf]
    /\ {x.own : x \in e.seen} = {Own(Graph(r, s), s, x) : x \in Reach(Graph(r, s), m)}

ReportsCurrent ==
    report # NoReport =>
        /\ DOMAIN report.entries = Analysable(report.root, report.snap)
        /\ \A m \in DOMAIN report.entries : Reported(report.root, report.snap, m, report.entries[m])

LEMMA ReportPicked ==
    ASSUME RunInv, report # NoReport
    PROVE  /\ report.root \in Roots /\ report.snap \in Contents
           /\ DOMAIN report.entries = Analysable(report.root, report.snap)
           /\ \A m \in DOMAIN report.entries : Right(report.root, report.snap, m, report.entries[m])
<1>1. PICK r \in Roots, s \in Contents :
          /\ report = [root |-> r, snap |-> s, entries |-> report.entries]
          /\ report.entries = [m \in Analysable(r, s) |-> report.entries[m]]
          /\ Results(r, s, report.entries)
  BY DEF RunInv, ReportRight
<1>2. report.root = r /\ report.snap = s
  BY <1>1
<1>3. DOMAIN report.entries = Analysable(r, s)
  BY <1>1
<1>4. QED
  BY <1>1, <1>2, <1>3 DEF Results

\* What a run reports is of every module it could analyse, and each result is of what this run
\* read, whatever the cache held, provided no file is edited while a pool works (engine.py,
\* analyze_project: a result is served under a key of all the module imports).
THEOREM ReportsAreCurrent ==
    ASSUME "pool" \notin LiveEdits
    PROVE  Spec => []ReportsCurrent
<1>1. ASSUME RunInv PROVE ReportsCurrent
  <2> SUFFICES ASSUME report # NoReport, NEW m \in DOMAIN report.entries
               PROVE  Reported(report.root, report.snap, m, report.entries[m])
    BY <1>1, ReportPicked DEF ReportsCurrent
  <2> DEFINE r == report.root
             s == report.snap
             g == Graph(r, s)
             e == report.entries[m]
  <2>1. r \in Roots /\ m \in Analysable(r, s) /\ Right(r, s, m, e)
    BY <1>1, ReportPicked
  <2>2. Agrees(Key(g, s, m), e)
    BY <2>1 DEF Right
  <2> HIDE DEF r, s, e
  <2>3. m \in Reach(g, m)
    BY <2>1, GraphFacts, ReachFacts
  <2>4. {Own(g, s, m)} \cup {Own(g, s, x) : x \in Reach(g, m) \ {m}} = {Own(g, s, x) : x \in Reach(g, m)}
    BY <2>3
  <2>5. QED
    BY <2>2, <2>4 DEF Agrees, Key, Reported, r, s, e
<1>2. QED
  BY <1>1, RunInvariant, PTL

\* Under the same condition, and when moreover no two files a run finds can be imported by one
\* name, plugins tell the same of a file under every root and no advisory matches symbols by
\* suffix, what a run reports is what an analysis from scratch of what it read reports.
THEOREM ResultsAreSound ==
    ASSUME "pool" \notin LiveEdits, DistinctNames, SameContexts, ~Suffixes
    PROVE  Spec => []ResultsSound
<1>1. ASSUME RunInv PROVE ResultsSound
  BY <1>1, ReportPicked, DistinctNamesSuffice DEF ResultsSound, Right
<1>2. QED
  BY <1>1, RunInvariant, PTL

-----------------------------------------------------------------------------
(* The runs implement those of AnalyzeProject.                             *)

\* What AnalyzeProject makes of the files is what the runs make of them.
LEMMA SameReport ==
    ASSUME NEW r, NEW s
    PROVE  Promise!Report(r, s) =
               [root |-> r, snap |-> s, entries |-> [m \in Analysable(r, s) |-> FromScratch(r, s, m)]]
<1>1. Promise!Discovered(r, s) = Discovered(r, s) /\ Promise!Analysable(r, s) = Analysable(r, s)
  BY DEF Promise!Analysable, Promise!Discovered, Analysable, Discovered
<1>2. ASSUME NEW m PROVE /\ Promise!NamesOf(r, s, m) = NamesOf(r, s, m)
                         /\ Promise!ModuleName(r, s, m) = ModuleName(r, s, m)
  BY <1>1 DEF Promise!NamesOf, Promise!ModuleName, NamesOf, ModuleName
<1>3. ASSUME NEW m PROVE Promise!NameOf(r, s, m) = NameOf(r, s, m)
  BY Zenon DEF Promise!NameOf, Promise!NamesOf, Promise!ModuleName, Promise!Discovered,
               NameOf, NamesOf, ModuleName, Discovered
<1>4. ASSUME NEW m, NEW n PROVE Promise!Holders(r, s, m, n) = Holders(r, s, m, n)
  BY Zenon DEF Promise!Holders, Promise!Analysable, Promise!NamesOf, Promise!ModuleName, Promise!Discovered,
               Promise!Range, Holders, Analysable, NamesOf, ModuleName, Discovered, Range
<1>5. ASSUME NEW m, NEW n PROVE Promise!Nearest(r, s, m, n) = Nearest(r, s, m, n)
  BY Zenon DEF Promise!Nearest, Promise!Holders, Promise!Analysable, Promise!NamesOf, Promise!ModuleName,
               Promise!Discovered, Promise!Range, Nearest, Holders, Analysable, NamesOf, ModuleName, Discovered, Range
<1>6. ASSUME NEW m, NEW n PROVE Promise!Chosen(r, s, m, n) = Chosen(r, s, m, n)
  BY <1>4, <1>5, Zenon DEF Promise!Chosen, Chosen, Promise!Cardinality, Cardinality
<1>7. ASSUME NEW m PROVE Promise!Named(r, s, m) = Named(r, s, m)
  BY Zenon DEF Promise!Named, Promise!Holders, Promise!Analysable, Promise!NamesOf, Promise!ModuleName,
               Promise!Discovered, Promise!Range, Named, Holders, Analysable, NamesOf, ModuleName, Discovered, Range
<1>8. ASSUME NEW m PROVE Promise!Resolved(r, s, m) = Resolved(r, s, m)
  BY <1>6, <1>7 DEF Promise!Resolved, Resolved
<1>9. Promise!Graph(r, s) = Graph(r, s)
  BY <1>1, <1>2, <1>3, <1>8 DEF Promise!Graph, Graph
<1>10. ASSUME NEW g, NEW m PROVE Promise!Reach(g, m) = Reach(g, m)
  BY Zenon DEF Promise!Reach, Promise!Edges, Promise!Cardinality, Reach, Edges, Cardinality
<1>11. ASSUME NEW g, NEW m, NEW text PROVE /\ Promise!Seen(g, s, m, text) = Seen(g, s, m, text)
                                           /\ Promise!Matched(g, m, text) = Matched(g, m, text)
  BY Zenon DEF Promise!Seen, Promise!Own, Promise!Matched, Promise!Range, Seen, Own, Matched, Range
<1>12. ASSUME NEW m PROVE Promise!FromScratch(r, s, m) = FromScratch(r, s, m)
  <2> DEFINE g == Graph(r, s)
  <2>1. {Promise!Seen(g, s, x, s[x]) : x \in Promise!Reach(g, m)} = {Seen(g, s, x, s[x]) : x \in Reach(g, m)}
    BY <1>10, <1>11
  <2>2. Promise!Matched(g, m, s[m]) = Matched(g, m, s[m])
    BY <1>11
  <2> HIDE DEF g
  <2>3. QED
    BY <1>9, <2>1, <2>2 DEF Promise!FromScratch, FromScratch, g
<1>13. QED
  BY <1>1, <1>12 DEF Promise!Report

\* Runs begin as those of an analyzer without cache, waves or processes.
LEMMA InitRefines ==
    ASSUME Init
    PROVE  Promise!AbstractInit
BY RunAssumption DEF Init, Promise!AbstractInit, Phase, Files, Promise!Files

\* Every step is one of theirs, or changes nothing they have.
LEMMA NextRefines ==
    ASSUME RunInv, "pool" \notin LiveEdits, KeysSuffice, [Next]_vars
    PROVE  [Promise!Edit \/ Promise!Begin \/ Promise!ReadFile \/ Promise!Answer \/ Promise!Abort]_Promise!abstractVars
<1> DEFINE kept == UNCHANGED <<disk, root, snap, report>>
<1> USE DEF Promise!Files, Files
<1>1. CASE \E r \in Roots, j \in Jobs, c \in BOOLEAN : Begin(r, j, c)
  <2>1. pc = "idle" /\ pc' = "read" /\ root' \in Roots /\ snap' = <<>> /\ UNCHANGED <<disk, report>>
    BY <1>1 DEF Begin
  <2>2. Phase = "idle" /\ Phase' = "read"
    BY <2>1 DEF Phase
  <2>3. Promise!Begin
    BY <2>1, <2>2 DEF Promise!Begin
  <2>4. QED
    BY <2>3
<1>2. CASE ReadFile
  <2> DEFINE f == Order[Cardinality(DOMAIN snap) + 1]
  <2>1. /\ pc = "read" /\ snap' = With(snap, f, disk[f])
        /\ pc' = IF DOMAIN snap' = Files THEN "load" ELSE "read"
        /\ UNCHANGED <<disk, root, report>>
    BY <1>2 DEF ReadFile, run
  <2>2. f \in Files \ DOMAIN snap
    BY <2>1, NextFile
  <2> HIDE DEF f
  <2>3. Phase = "read" /\ Phase' = IF DOMAIN snap' = Files THEN "analyse" ELSE "read"
    BY <2>1 DEF Phase
  <2>4. snap' = [g \in DOMAIN snap \cup {f} |-> IF g = f THEN disk[f] ELSE snap[g]]
    BY <2>1 DEF With
  <2>5. Promise!ReadFile
    BY <2>1, <2>2, <2>3, <2>4 DEF Promise!ReadFile
  <2>6. QED
    BY <2>5
<1>3. CASE Finish
  <2>1. /\ pc = "wave" /\ pc' = "idle" /\ done = Analysable(root, snap)
        /\ report' = [root |-> root, snap |-> snap, entries |-> results]
        /\ snap' = <<>> /\ UNCHANGED <<disk, root>>
    BY <1>3, GraphOfRun, GraphFacts DEF Finish, Closed, InRun
  <2>2. results = [m \in Analysable(root, snap) |-> results[m]] /\ Results(root, snap, results)
    BY <2>1, AllResults
  <2>3. \A m \in Analysable(root, snap) : results[m] = FromScratch(root, snap, m)
    BY <2>2 DEF Results, Right
  <2>4. results = [m \in Analysable(root, snap) |-> FromScratch(root, snap, m)]
    BY <2>2, <2>3
  <2>5. Phase = "analyse" /\ Phase' = "idle"
    BY <2>1 DEF Phase
  <2>6. Promise!Answer
    BY <2>1, <2>4, <2>5, SameReport DEF Promise!Answer
  <2>7. QED
    BY <2>6
<1>4. CASE (\E w \in Workers : FailTask(w)) \/ Crash
  <2>1. pc # "idle" /\ pc' = "idle" /\ snap' = <<>> /\ UNCHANGED <<disk, root, report>>
    BY <1>4 DEF FailTask, Crash, Closed
  <2>2. Phase # "idle" /\ Phase' = "idle"
    BY <2>1 DEF Phase
  <2>3. Promise!Abort
    BY <2>1, <2>2 DEF Promise!Abort
  <2>4. QED
    BY <2>3
<1>5. CASE \E f \in Files, t \in Texts : Edit(f, t)
  <2>1. /\ \E f \in Files, t \in Texts : disk' = [disk EXCEPT ![f] = t]
        /\ UNCHANGED <<pc, root, snap, report>>
    BY <1>5 DEF Edit, run
  <2>2. Phase' = Phase
    BY <2>1 DEF Phase
  <2>3. Promise!Edit
    BY <2>1, <2>2 DEF Promise!Edit
  <2>4. QED
    BY <2>3
<1>6. CASE Load \/ NextWave \/ Collect \/ EndWave \/ (\E m \in DOMAIN computed : Store(m))
           \/ (\E c \in pending : AnalyseHere(c) \/ \E w \in Workers : TakeTask(w, c))
           \/ (\E w \in Workers : StartWorker(w) \/ FinishTask(w))
  <2>1. pc \notin {"idle", "read"} /\ pc' \notin {"idle", "read"} /\ kept
    <3>1. CASE Load \/ NextWave \/ Collect \/ EndWave
      BY <3>1 DEF Load, NextWave, Collect, EndWave, run
    <3>2. CASE \E m \in DOMAIN computed : Store(m)
      BY <3>2 DEF Store, run
    <3>3. CASE \E c \in pending : AnalyseHere(c) \/ \E w \in Workers : TakeTask(w, c)
      BY <3>3 DEF AnalyseHere, TakeTask, run
    <3>4. CASE \E w \in Workers : StartWorker(w) \/ FinishTask(w)
      BY <3>4 DEF StartWorker, FinishTask, run
    <3>5. QED
      BY <1>6, <3>1, <3>2, <3>3, <3>4
  <2>2. Phase' = Phase
    BY <2>1 DEF Phase
  <2>3. QED
    BY <2>1, <2>2 DEF Promise!abstractVars
<1>7. CASE (\E k \in DOMAIN cache : Damage(k)) \/ UNCHANGED vars
  <2>1. pc' = pc /\ kept
    BY <1>7 DEF Damage, vars, run
  <2>2. Phase' = Phase
    BY <2>1 DEF Phase
  <2>3. QED
    BY <2>1, <2>2 DEF Promise!abstractVars
<1>8. QED
  BY <1>1, <1>2, <1>3, <1>4, <1>5, <1>6, <1>7 DEF Next, Work

\* Under these conditions, whatever is cached, lost, interrupted or edited, and however the work
\* is shared, the runs are those of an analyzer that reads every file once and analyses from
\* scratch.
THEOREM RunsKeepThePromise ==
    ASSUME "pool" \notin LiveEdits, DistinctNames, SameContexts, ~Suffixes
    PROVE  Spec => PromiseKept
<1>1. Init => Promise!AbstractInit
  BY InitRefines
<1>2. RunInv /\ [Next]_vars =>
          [Promise!Edit \/ Promise!Begin \/ Promise!ReadFile \/ Promise!Answer \/ Promise!Abort]_Promise!abstractVars
  BY NextRefines, DistinctNamesSuffice
<1>3. QED
  BY <1>1, <1>2, RunInvariant, PTL DEF Spec, PromiseKept, Promise!AbstractSpec
=============================================================================
