------------------------------ MODULE ModuleKeys -------------------------------
(***************************************************************************)
(* What a run of analyze_project makes of the files it has read: which     *)
(* modules it analyses and under which names, the import edges between     *)
(* them, the components and waves they are scheduled in, the cache key of  *)
(* each, and the result an analysis from scratch gives it.                 *)
(*                                                                         *)
(* Operators take the root r of the run and the contents s it has read, or *)
(* the module graph g these give.  A file is known by its path; its        *)
(* contents are a member of Texts, and what the analysis can tell of a     *)
(* text is given by the constants.  Results are modelled by what they were *)
(* computed from.                                                          *)
(***************************************************************************)
EXTENDS Naturals, FiniteSets, Sequences, Functions

CONSTANTS
    Modules,     \* the Python files that may be there
    Conf,        \* everything else a run reads: manifests, plugins, advisories
    Texts,       \* contents of a file
    Gone,        \* there is no such file
    Broken,      \* contents that cannot be parsed or resolved
    Roots,       \* directories a run may be asked to analyse
    Under,       \* Under[r]: the files under root r
    Context,     \* Context[r][m]: what plugins tell of m by its path under r
    Names,       \* dotted names
    Prefixes,    \* Prefixes[n]: n, then the packages it is in, outwards
    ImportNames, \* ImportNames[r][d][m]: the names m can be imported by when the files of
                 \* d are there, packages among them, its module name first
    StartsFrom,  \* StartsFrom[m][n]: the directory an import of m as n starts from
    DottedPath,  \* DottedPath[r][m]: the path of m under r as a dotted name, or m
    Imports,     \* Imports[m][t]: the names m imports when its contents are t
    Derives,     \* Derives[m][t]: the module names of symbols m's code derives
    Suffixes     \* whether an advisory that applies matches symbols by suffix

Files == Modules \cup {Conf}
Contents == [Files -> Texts]

ASSUME ModulesAssumption ==
    /\ IsFiniteSet(Modules)
    /\ Conf \notin Modules
    /\ Gone \in Broken /\ Broken \subseteq Texts
    /\ Under \in [Roots -> SUBSET Modules]
    /\ Prefixes \in [Names -> Seq(Names)]
    /\ ImportNames \in [Roots -> [SUBSET Modules -> [Modules -> Seq(Names) \ {<<>>}]]]
    /\ DottedPath \in [Roots -> [Modules -> Names \cup Modules]]
    /\ Imports \in [Modules -> [Texts -> SUBSET Names]]
    /\ Derives \in [Modules -> [Texts -> SUBSET Names]]
    /\ Suffixes \in BOOLEAN

-----------------------------------------------------------------------------
(* The module graph.                                                       *)

Discovered(r, s) == {m \in Under[r] : s[m] # Gone}
Analysable(r, s) == {m \in Discovered(r, s) : s[m] \notin Broken}

NamesOf(r, s, m) == ImportNames[r][Discovered(r, s)][m]
ModuleName(r, s, m) == NamesOf(r, s, m)[1]

\* A file goes by its module name when no other has it; otherwise by its path as a
\* dotted name, unless that is taken; otherwise by its path.
NameOf(r, s, m) ==
    LET found == Discovered(r, s)
        shared == {x \in found : \E y \in found \ {x} : ModuleName(r, s, y) = ModuleName(r, s, x)}
        taken == {ModuleName(r, s, x) : x \in found \ shared} \cup {DottedPath[r][x] : x \in shared \ {m}} \cup shared
    IN  IF m \notin shared THEN ModuleName(r, s, m)
        ELSE IF DottedPath[r][m] \notin taken THEN DottedPath[r][m]
        ELSE m

\* The files an import of n by m may mean: those of that module name, and those with that
\* name from a directory that one of m's own names starts from.
Holders(r, s, m, n) ==
    {x \in Analysable(r, s) :
        \/ n = ModuleName(r, s, x)
        \/ /\ n \in Range(NamesOf(r, s, x))
           /\ \E own \in Range(NamesOf(r, s, m)) : StartsFrom[x][n] = StartsFrom[m][own]}

\* Of those, the ones that start from the first directory of m's own that has any; m's
\* names give the directories, the last first.
Nearest(r, s, m, n) ==
    LET names == NamesOf(r, s, m)
        from(i) == {x \in Holders(r, s, m, n) : StartsFrom[x][n] = StartsFrom[m][names[i]]}
    IN  UNION {from(i) : i \in {k \in DOMAIN names : \A j \in (k + 1)..Len(names) : from(j) = {}}}

\* The one it does mean, if any.
Chosen(r, s, m, n) ==
    IF Cardinality(Holders(r, s, m, n)) = 1 THEN Holders(r, s, m, n)
    ELSE IF Cardinality(Nearest(r, s, m, n)) = 1 THEN Nearest(r, s, m, n)
    ELSE {}

\* The names m's imports name modules by: of each import, the longest prefix some file has.
Named(r, s, m) ==
    LET held(n, i) == Holders(r, s, m, Prefixes[n][i]) # {}
        longest(n) == {i \in DOMAIN Prefixes[n] : held(n, i) /\ \A j \in 1..(i - 1) : ~held(n, j)}
    IN  UNION {{Prefixes[n][i] : i \in longest(n)} : n \in Imports[m][s[m]]}

\* What they are resolved to; to nothing where that stays open.
Resolved(r, s, m) ==
    {[name |-> n, to |-> Chosen(r, s, m, n)] : n \in {p \in Named(r, s, m) : Chosen(r, s, m, p) # {m}}}

\* The graph of the modules that can be analysed.
Graph(r, s) ==
    LET modules == Analysable(r, s)
    IN  [modules  |-> modules,
         name     |-> [m \in modules |-> NameOf(r, s, m)],
         names    |-> [m \in modules |-> NamesOf(r, s, m)],
         resolved |-> [m \in modules |-> Resolved(r, s, m)]]

Edges(g, m) == UNION {x.to : x \in g.resolved[m]}

\* m and every module it imports, transitively, one import at a time: no chain of
\* imports that repeats no module is longer than their number.
Reach(g, m) ==
    LET reached[n \in 0..Cardinality(Modules)] ==
            IF n = 0 THEN {m} ELSE UNION {{x} \cup Edges(g, x) : x \in reached[n - 1]}
    IN  reached[Cardinality(Modules)]

ComponentOfOne(g, m) == {m}

\* The strongly connected component of m.
Component(g, m) == {x \in Reach(g, m) : m \in Reach(g, x)}

Outside(g, c) == (UNION {Edges(g, m) : m \in c}) \ c

\* The next wave once the modules of done are: the components not done yet that
\* import, outside themselves, only modules that are.
Wave(g, done) == {c \in {Component(g, m) : m \in g.modules \ done} : Outside(g, c) \subseteq done}

-----------------------------------------------------------------------------
(* Keys and results.                                                       *)

\* What a module's own fingerprint is taken of, and its key: the configuration and
\* its own fingerprint with those of everything it imports.
OwnWithoutText(g, s, m) == [file |-> m, name |-> g.name[m], names |-> g.names[m], text |-> Gone]
Own(g, s, m) == [file |-> m, name |-> g.name[m], names |-> g.names[m], text |-> s[m]]
KeyOfDirectImports(g, s, m) ==
    [conf |-> s[Conf], own |-> Own(g, s, m), imported |-> {Own(g, s, x) : x \in Edges(g, m)}]
KeyWithoutConfiguration(g, s, m) ==
    [conf |-> Gone, own |-> Own(g, s, m), imported |-> {Own(g, s, x) : x \in Reach(g, m) \ {m}}]
Key(g, s, m) ==
    [conf |-> s[Conf], own |-> Own(g, s, m), imported |-> {Own(g, s, x) : x \in Reach(g, m) \ {m}}]

\* The symbols m's code derives that belong to a module of the project, by the names
\* these go by.
Matched(g, m, text) ==
    IF Suffixes
    THEN {n \in Derives[m][text] : \E x \in g.modules : g.name[x] \in Range(Prefixes[n])}
    ELSE {}

\* What reading m, whose contents were text, contributes to its result and to that
\* of its importers: the contents, its names and what its imports were resolved to.
Seen(g, s, m, text) == [own |-> [Own(g, s, m) EXCEPT !.text = text], resolved |-> g.resolved[m]]

\* The result for m of an analysis that reads everything as it is in s.
FromScratch(r, s, m) ==
    LET g == Graph(r, s)
    IN  [conf |-> s[Conf],
         context |-> Context[r][m],
         matched |-> Matched(g, m, s[m]),
         seen |-> {Seen(g, s, x, s[x]) : x \in Reach(g, m)}]
=============================================================================
