--------------------------- MODULE TemplateRendering ---------------------------
(***************************************************************************)
(* What Django does with a project's templates, and a browser with what it *)
(* prints: a render puts a chain's blocks and includes in place, runs the  *)
(* filters they apply, and the markup is read an atom at a time.           *)
(***************************************************************************)
EXTENDS Templates

CONSTANTS
    EscapedIn(_),           \* the templates a project is established to escape
    ReachedIn(_),           \* the filters they are said to reach
    Projects,
    Names,                  \* of variables
    MaxIncludes             \* nested includes a render follows

VARIABLES
    project, rendered,      \* the project, and the name of the template rendered
    loader,                 \* the file Django's loaders give each name
    registered,             \* the filters each library in fact registers
    work,                   \* the nodes still to render, each with where it stands
    page,                   \* the browser's reading of what was printed
    printing,               \* what each open filter block was given so far, innermost last
    last                    \* the filter that was called last, and what reached it

vars == <<project, rendered, loader, registered, work, page, printing, last>>

-----------------------------------------------------------------------------
(* The browser.                                                            *)

InData == [in |-> "data", tag |-> "", attribute |-> <<>>, value |-> <<>>]
Content(b) == [InData EXCEPT !.in = IF b.tag = "script" THEN "raw" ELSE "data"]
Into(b, state) == [b EXCEPT !.in = state]
Naming(b, atom) == [b EXCEPT !.in = "attribute", !.attribute = <<atom>>, !.value = <<>>]

Tokenized(b, atom) ==
    CASE b.in = "data" -> IF atom = "<" THEN Into(b, "open") ELSE b
      [] b.in = "open" ->
            (CASE atom = "<" -> b
               [] atom = "/" -> Into(b, "close")
               [] atom = "!" -> Into(b, "declaration")
               [] atom \in Letters -> [b EXCEPT !.in = "name", !.tag = atom]
               [] OTHER -> InData)
      [] b.in = "close" ->
            (CASE atom \in Letters -> [b EXCEPT !.in = "name", !.tag = "end"]
               [] atom = ">" -> InData
               [] OTHER -> Into(b, "bogus"))
      [] b.in = "declaration" -> IF atom = "--" THEN Into(b, "dashes") ELSE IF atom = ">" THEN InData ELSE Into(b, "bogus")
      [] b.in = "bogus" -> IF atom = ">" THEN InData ELSE b
      [] b.in \in {"dashes", "comment"} ->
            IF atom = "--" THEN Into(b, "dashes") ELSE IF atom = ">" /\ b.in = "dashes" THEN InData ELSE Into(b, "comment")
      [] b.in = "name" ->
            IF atom \in Gaps THEN Into(b, "between") ELSE IF atom = ">" THEN Content(b) ELSE [b EXCEPT !.tag = "other"]
      [] b.in = "between" ->
            IF atom \in Gaps THEN b ELSE IF atom = ">" THEN Content(b) ELSE Naming(b, atom)
      [] b.in = "attribute" ->
            (CASE atom = " " -> Into(b, "after")
               [] atom = "/" -> Into(b, "between")
               [] atom = "=" -> Into(b, "value")
               [] atom = ">" -> Content(b)
               [] OTHER -> [b EXCEPT !.attribute = Append(@, atom)])
      [] b.in = "after" ->
            (CASE atom = " " -> b
               [] atom = "/" -> Into(b, "between")
               [] atom = "=" -> Into(b, "value")
               [] atom = ">" -> Content(b)
               [] OTHER -> Naming(b, atom))
      [] b.in = "value" ->
            (CASE atom = " " -> b
               [] atom = "\"" -> Into(b, "quoted")
               [] atom = ">" -> Content(b)
               [] OTHER -> Into(b, "unquoted"))
      [] b.in = "quoted" -> IF atom = "\"" THEN Into(b, "between") ELSE [b EXCEPT !.value = Append(@, atom)]
      [] b.in = "unquoted" -> IF atom = " " THEN Into(b, "between") ELSE IF atom = ">" THEN Content(b) ELSE b
      [] b.in = "raw" -> IF atom = "<" THEN Into(b, "rawOpen") ELSE b
      [] b.in = "rawOpen" -> IF atom = "/" THEN Into(b, "rawClose") ELSE IF atom = "<" THEN b ELSE Into(b, "raw")
      [] b.in = "rawClose" -> IF atom = "script" THEN Into(b, "rawName") ELSE Into(b, "raw")
      [] b.in = "rawName" ->
            IF atom = ">" THEN InData
            ELSE IF atom \in Gaps THEN [b EXCEPT !.in = "between", !.tag = "end"] ELSE Into(b, "raw")
      [] b.in = "unsafe" -> b

\* Where HTML escaping protects a printed value, and what is then read.
Protected(b) ==
    \/ b.in \in {"data", "bogus", "declaration", "comment", "dashes"}
    \/ /\ b.in = "quoted"
       /\ b.attribute[1] # "on"
       /\ b.attribute = <<"href">> => At(b.value, 1) = "/" /\ At(b.value, 2) \notin {"", "/"}
PrintedIn(b) ==
    CASE b.in = "quoted" -> [b EXCEPT !.value = Append(@, Printed)]
      [] b.in = "declaration" -> Into(b, "bogus")
      [] b.in = "dashes" -> Into(b, "comment")
      [] OTHER -> b
Unsafe == [InData EXCEPT !.in = "unsafe"]
AfterPrint(b, escaped) == IF escaped /\ Protected(b) THEN PrintedIn(b) ELSE Unsafe

-----------------------------------------------------------------------------
(* Django.                                                                 *)

\* A chain Django renders: each parent is the file its name gives, or another of that name
\* when the chain has that one already; with no such file, the render fails.
Parents(p, files, chain) ==
    UNION {IF name \notin DOMAIN files THEN {}
           ELSE IF Contains(chain, files[name]) THEN p.found[name] \ ToSet(chain)
           ELSE {files[name]} : name \in p.files[Last(chain)].extends}
RECURSIVE ChainUnder(_, _, _)
ChainUnder(p, files, chain) ==
    LET parents == Parents(p, files, chain)
    IN  IF p.files[Last(chain)].extends = {} THEN chain
        ELSE IF parents = {} THEN <<>>
        ELSE ChainUnder(p, files, Append(chain, CHOOSE f \in parents : TRUE))
Renders(p, files, path) == ChainUnder(p, files, <<path>>) # <<>>

Standing(nodes, env, chain, key, depth) ==
    [k \in DOMAIN nodes |-> [node |-> nodes[k], env |-> env, chain |-> chain, key |-> key, depth |-> depth]]
Rendering(path, env, depth) ==
    LET chain == ChainUnder(project, loader, <<path>>)
    IN  Standing(NodesAt(project, chain, RootOf(chain)), env, chain, RootOf(chain), depth)

\* What a filter names where it is applied: the latest load before it decides.
RECURSIVE Flat(_)
Flat(nodes) == FoldLeft(LAMBDA all, n : Append(all, n) \o Flat(Inside(n)), <<>>, nodes)
Replaced(top, filter) ==
    LET all == Flat(project.files[top.chain[IF top.key.name = Whole THEN Len(top.chain) ELSE top.key.level]].nodes)
        before == SubSeq(all, 1, Min({k \in DOMAIN all : all[k] = top.node}))
    IN  \E k \in DOMAIN before : before[k].op = "load" /\ filter \in registered[before[k].library]

NoCall == [at |-> "", given |-> {}, replaced |-> FALSE]
CallOf(top, given) ==
    IF top.node.filter \notin Functions THEN last
    ELSE [at |-> top.node.at, given |-> given, replaced |-> Replaced(top, top.node.filter)]
Collected(names) == [k \in DOMAIN printing |-> printing[k] \cup names]

AllLibraries(p) == {n.library : n \in {m \in UNION {Nodes(p.files[f].nodes) : f \in DOMAIN p.files} : m.op = "load"}}
MayRegister(p, library) ==
    IF library \in DjangoLibraries THEN {{}}
    ELSE IF library \notin DOMAIN p.libraries \/ \E r \in p.libraries[library] : ~r.read THEN SUBSET Functions
    ELSE {r.filters : r \in p.libraries[library]}

Init ==
    /\ project \in Projects
    /\ rendered \in DOMAIN project.found
    /\ loader \in {files \in [DOMAIN project.found -> DOMAIN project.files] :
                      \A name \in DOMAIN files : files[name] \in project.found[name]}
    /\ Renders(project, loader, loader[rendered])
    /\ registered \in {r \in [AllLibraries(project) -> SUBSET Functions] :
                          \A l \in DOMAIN r : r[l] \in MayRegister(project, l)}
    /\ work = Rendering(loader[rendered], [v \in Names |-> {v}], 0)
    /\ page = InData
    /\ printing = <<>>
    /\ last = NoCall

Top == Head(work)
GoOn(nodes) == work' = nodes \o Tail(work)
Doing(op) == work # <<>> /\ Top.node.op = op
Still == UNCHANGED <<project, rendered, loader, registered>>
Here(nodes) == Standing(nodes, Top.env, Top.chain, Top.key, Top.depth)

PrintMarkup ==
    /\ Doing("markup")
    /\ page' = FoldLeft(Tokenized, page, Top.node.atoms)
    /\ GoOn(<<>>)
    /\ Still /\ UNCHANGED <<printing, last>>

PrintVariable ==
    /\ Doing("variable")
    /\ LET given == Top.env[Top.node.name]
           call == CallOf(Top, given)
           escaped == Top.node.filter \in EscapingFilters \cup {NoFilter} /\ ~Replaced(Top, Top.node.filter)
       IN  /\ last' = call
           /\ page' = AfterPrint(page, escaped)
           /\ printing' = Collected(given)
    /\ GoOn(<<>>)
    /\ Still

RenderBlock ==
    /\ Doing("block") \/ Doing("super")
    /\ LET key == Resolved(project, Top.chain, Top.key, Top.node)
       IN  GoOn(Standing(NodesAt(project, Top.chain, key), Top.env, Top.chain, key, Top.depth))
    /\ Still /\ UNCHANGED <<page, printing, last>>

RenderConditional ==
    /\ Doing("conditional")
    /\ GoOn(<<>>) \/ GoOn(Here(Top.node.nodes))
    /\ Still /\ UNCHANGED <<page, printing, last>>

RenderWith ==
    /\ Doing("with")
    /\ LET env == [Top.env EXCEPT ![Top.node.name] = Top.env[Top.node.value]]
       IN  GoOn(Standing(Top.node.nodes, env, Top.chain, Top.key, Top.depth))
    /\ Still /\ UNCHANGED <<page, printing, last>>

\* An include that is not found, or whose chain is broken, is an error: the render ends.
RenderInclude ==
    /\ Doing("include")
    /\ Top.depth < MaxIncludes
    /\ LET n == Top.node
           env == [v \in Names |-> IF v \in DOMAIN n.with THEN Top.env[n.with[v]]
                                   ELSE IF n.only THEN {} ELSE Top.env[v]]
       IN  IF n.name \in DOMAIN loader /\ Renders(project, loader, loader[n.name])
           THEN GoOn(Rendering(loader[n.name], env, Top.depth + 1))
           ELSE work' = <<>>
    /\ Still /\ UNCHANGED <<page, printing, last>>

\* A filter block: what it holds is rendered, then given to the filter.
Filtering(node) == [node EXCEPT !.op = "filtering"]
OpenFilter ==
    /\ Doing("filter")
    /\ GoOn(Here(Top.node.nodes) \o <<[Top EXCEPT !.node = Filtering(@)]>>)
    /\ printing' = Append(printing, {})
    /\ Still /\ UNCHANGED <<page, last>>
CloseFilter ==
    /\ Doing("filtering")
    /\ last' = CallOf([Top EXCEPT !.node = [@ EXCEPT !.op = "filter"]], Last(printing))
    /\ printing' = Front(printing)
    /\ GoOn(<<>>)
    /\ Still /\ UNCHANGED page

LoadLibrary == Doing("load") /\ GoOn(<<>>) /\ Still /\ UNCHANGED <<page, printing, last>>

Next ==
    \/ PrintMarkup \/ PrintVariable \/ RenderBlock \/ RenderConditional \/ RenderWith
    \/ RenderInclude \/ OpenFilter \/ CloseFilter \/ LoadLibrary
Spec == Init /\ [][Next]_vars

-----------------------------------------------------------------------------
(* Properties.                                                             *)

\* What a template established to escape prints, whatever the conditions on the way and
\* whichever files the loaders find, stands where HTML escaping protects it (docstring of
\* taint/templates.py; escaped_templates).
EscapedPrintsAreProtected == page.in = "unsafe" => rendered \notin EscapedIn(project)

\* Every filter of Django's own libraries that a render calls is among those its template
\* reaches, with the context names that reach its value, or the engine says which library
\* it could not tell (project_templates).
CallsAreReached ==
    LET said == ReachedIn(project)
    IN  (last # NoCall /\ ~last.replaced /\ last.at \notin said.unread) =>
            /\ last.at \in said.calls
            /\ Cardinality(project.found[rendered]) = 1 =>
                   \E f \in said.filters[rendered] : f.at = last.at /\ last.given \subseteq f.value

\* A filter a project library replaces is claimed as no call of the built-in, unless the
\* engine cannot tell.
ReplacedIsNotClaimed == last.replaced => last.at \notin ReachedIn(project).calls
=============================================================================
