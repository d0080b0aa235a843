------------------------------ MODULE Templates -------------------------------
(***************************************************************************)
(* The Django templates of a project, as their syntax gives them, and the  *)
(* chains of templates extending one another; and the filters rendering    *)
(* applies with the names free in the template that reach the value of     *)
(* each (taint/templates.py): each file is read under its scopes, and what *)
(* each include reaches is mapped through its bindings.                    *)
(*                                                                         *)
(* A project has its template files by path, the paths of each template    *)
(* name, and the tag libraries: [files, found, libraries].                 *)
(***************************************************************************)
EXTENDS Naturals, SequencesExt, FiniteSetsExt

CONSTANTS
    EscapingFilters,    \* Django's filters that escape, or leave what they are given to be escaped
    DjangoLibraries,    \* tag libraries of its own
    Functions,          \* the filters of those
    PageLimit,          \* bound of the code: atoms of a page
    VariantLimit        \* bound of the code: pages of a template

\* Nodes.  Markup is a sequence of atoms; a variable is printed through filters, each
\* application having a name of its own; a tag around nodes may render them or not.
Markup(atoms) == [op |-> "markup", atoms |-> atoms]
Variable(name, filter, at) == [op |-> "variable", name |-> name, filter |-> filter, at |-> at]
Super == [op |-> "super"]
Block(name, nodes) == [op |-> "block", name |-> name, nodes |-> nodes]
Include(name) == [op |-> "include", name |-> name, with |-> <<>>, only |-> FALSE]
IncludeWith(name, bindings, only) == [op |-> "include", name |-> name, with |-> bindings, only |-> only]
Conditional(nodes) == [op |-> "conditional", nodes |-> nodes]
With(name, value, nodes) == [op |-> "with", name |-> name, value |-> value, nodes |-> nodes]
Filtered(filter, at, nodes) == [op |-> "filter", filter |-> filter, at |-> at, nodes |-> nodes]
Load(library) == [op |-> "load", library |-> library]

File(extends, nodes) == [extends |-> extends, nodes |-> nodes]
Project(files, found, libraries) == [files |-> files, found |-> found, libraries |-> libraries]

NoFilter == ""
Inside(node) == IF node.op \in {"block", "conditional", "with", "filter"} THEN node.nodes ELSE <<>>
RECURSIVE Nodes(_)
Nodes(nodes) == ToSet(nodes) \cup UNION {Nodes(Inside(n)) : n \in ToSet(nodes)}

\* The definition of a block in a file; the root's nodes have no block's name.
Whole == "page"
Defines(file, name) == name = Whole \/ \E n \in Nodes(file.nodes) : n.op = "block" /\ n.name = name
Definition(file, name) ==
    IF name = Whole THEN file.nodes
    ELSE (CHOOSE n \in Nodes(file.nodes) : n.op = "block" /\ n.name = name).nodes

\* What a block, or block.super, renders where it stands in a chain: the most derived
\* definition, or the next one up from the one it stands in.  No level is 0.
LevelFrom(project, chain, name, from) ==
    Min({l \in from..Len(chain) : Defines(project.files[chain[l]], name)} \cup {Len(chain) + 1})
Resolved(project, chain, key, node) ==
    IF node.op = "block" THEN [name |-> node.name, level |-> LevelFrom(project, chain, node.name, 1)]
    ELSE LET level == LevelFrom(project, chain, key.name, key.level + 1)
         IN  [name |-> key.name, level |-> IF key.name = Whole \/ level > Len(chain) THEN 0 ELSE level]
NodesAt(project, chain, key) ==
    IF key.level = 0 THEN <<>> ELSE Definition(project.files[chain[key.level]], key.name)
RootOf(chain) == [name |-> Whole, level |-> Len(chain)]

-----------------------------------------------------------------------------
(* Libraries of the project: what the files of one name register.          *)

Registers(filters) == [read |-> TRUE, filters |-> filters]
UnreadLibrary == [read |-> FALSE, filters |-> {}]

Library(readings) ==
    LET certain == {f \in Functions : \A r \in readings : f \in r.filters}
    IN  IF \E r \in readings : ~r.read THEN [certain |-> {}, uncertain |-> Functions]
        ELSE [certain |-> certain, uncertain |-> (UNION {r.filters : r \in readings}) \ certain]

\* What is behind a filter after the libraries loaded so far: the latest that replaces it,
\* or may, decides.
Overrides(project, library, filter) ==
    IF library \in DjangoLibraries THEN "no"
    ELSE IF library \notin DOMAIN project.libraries THEN "unsure"
    ELSE LET known == Library(project.libraries[library])
         IN  IF filter \in known.certain THEN "yes" ELSE IF filter \in known.uncertain THEN "unsure" ELSE "no"
BehindLatest(project, loaded, filter) ==
    IF filter \notin Functions THEN "none"
    ELSE IF loaded = <<>> \/ Overrides(project, Last(loaded), filter) = "no" THEN "builtin"
    ELSE Overrides(project, Last(loaded), filter)
Behind(project, loaded, filter) ==
    LET latest == Max({k \in DOMAIN loaded : Overrides(project, loaded[k], filter) # "no"} \cup {0})
    IN  IF filter \notin Functions THEN "none"
        ELSE IF latest = 0 THEN "builtin"
        ELSE Overrides(project, loaded[latest], filter)

-----------------------------------------------------------------------------
(* Reading one file.                                                       *)

Free(scope, names) == UNION {IF name \in DOMAIN scope THEN scope[name] ELSE {name} : name \in names}

Applied(project, read, filter, at, value, block) ==
    CASE Behind(project, read.loaded, filter) = "builtin" ->
            [read EXCEPT !.applied = @ \cup {[at |-> at, value |-> value, block |-> block]}, !.printed = @ \cup value]
      [] Behind(project, read.loaded, filter) = "unsure" ->
            [read EXCEPT !.unresolved = @ \cup {at}, !.printed = @ \cup value]
      [] OTHER -> [read EXCEPT !.printed = @ \cup value]

RECURSIVE ReadUnder(_, _, _, _, _)
ReadUnder(project, nodes, scope, block, before) ==
    LET step(read, n) ==
        CASE n.op = "variable" -> Applied(project, read, n.filter, n.at, Free(scope, {n.name}), block)
          [] n.op = "filter" ->
                 LET inside == ReadUnder(project, n.nodes, scope, block, [read EXCEPT !.printed = {}])
                 IN  Applied(project, [inside EXCEPT !.printed = @ \cup read.printed], n.filter, n.at, inside.printed, block)
          [] n.op = "with" ->
                 ReadUnder(project, n.nodes, (n.name :> Free(scope, {n.value})) @@ scope, block, read)
          [] n.op = "conditional" -> ReadUnder(project, n.nodes, scope, block, read)
          [] n.op = "block" -> ReadUnder(project, n.nodes, scope, n.name, read)
          [] n.op = "include" ->
                 [read EXCEPT !.references = @ \cup
                    {[name |-> n.name, only |-> n.only, scope |-> scope, block |-> block,
                      bindings |-> [v \in DOMAIN n.with |-> Free(scope, {n.with[v]})]]}]
          [] n.op = "load" -> [read EXCEPT !.loaded = Append(@, n.library)]
          [] OTHER -> read
    IN  FoldLeft(step, before, nodes)
ReadScopes(project, path) ==
    ReadUnder(project, project.files[path].nodes, <<>>, Whole,
              [applied |-> {}, references |-> {}, loaded |-> <<>>, printed |-> {}, unresolved |-> {}])

-----------------------------------------------------------------------------
(* One page: a chain put together, its blocks placed.                      *)

\* A name of one file renders that file.
Readable(project, name) == name \in DOMAIN project.found /\ Cardinality(project.found[name]) = 1
FileOf(project, name) == CHOOSE p \in project.found[name] : TRUE

RECURSIVE ChainUp(_, _)
ChainUp(project, chain) ==
    LET extends == project.files[Last(chain)].extends
        above == {FileOf(project, name) : name \in {n \in extends : Readable(project, n)}} \ ToSet(chain)
    IN  IF extends = {} THEN [chain |-> chain, known |-> TRUE]
        ELSE IF above = {} THEN [chain |-> chain, known |-> FALSE]
        ELSE ChainUp(project, Append(chain, CHOOSE p \in above : TRUE))

RECURSIVE Own(_)
Own(nodes) == ToSet(nodes) \cup UNION {Own(Inside(n)) : n \in {m \in ToSet(nodes) : m.op # "block"}}
Extended(file, block) == \E n \in Own(Definition(file, block)) : n.op = "super"
Held(nodes) == {n.name : n \in {m \in Own(nodes) : m.op = "block"}}

\* The definitions of a placed block that render: the most derived, and the next one up
\* while a definition renders block.super.
Definitions(project, chain, block) ==
    {l \in DOMAIN chain :
        /\ Defines(project.files[chain[l]], block)
        /\ \A m \in 1..l - 1 : Defines(project.files[chain[m]], block) => Extended(project.files[chain[m]], block)}
RECURSIVE Placed(_, _, _)
Placed(project, chain, blocks) ==
    LET more == blocks \cup UNION {UNION {Held(Definition(project.files[chain[l]], b)) :
                                             l \in Definitions(project, chain, b)} : b \in blocks}
    IN  IF more = blocks THEN blocks ELSE Placed(project, chain, more)

Page(project, name) ==
    LET up == ChainUp(project, <<FileOf(project, name)>>)
        chain == up.chain
        root == project.files[Last(chain)]
        all == {n.name : n \in {m \in UNION {Nodes(project.files[chain[l]].nodes) : l \in DOMAIN chain} : m.op = "block"}}
        placed == Placed(project, chain, IF up.known THEN Held(root.nodes) ELSE all)
        renders(level, block) ==
            IF block = Whole THEN up.known /\ level = Len(chain)
            ELSE block \in placed /\ level \in Definitions(project, chain, block)
        read(level) == ReadScopes(project, chain[level])
    IN  [applied |-> UNION {{a \in read(l).applied : renders(l, a.block)} : l \in DOMAIN chain},
         references |-> UNION {{r \in read(l).references : renders(l, r.block) /\ Readable(project, r.name)} : l \in DOMAIN chain}]

-----------------------------------------------------------------------------
(* What each template reaches: what it applies and what its references     *)
(* reach.  The templates are taken component by component, each after      *)
(* those its references reach; in a cycle the names are joined at each     *)
(* application, and a template recomputed when one it reads grew.          *)

\* The names of the referencing template that a referenced one's names read.
MapsAlone(reference, names) == names
Maps(reference, names) ==
    UNION {IF name \in DOMAIN reference.bindings THEN reference.bindings[name]
           ELSE IF reference.only THEN {} ELSE Free(reference.scope, {name}) : name \in names}
Mapped(found, reference) == {[f EXCEPT !.value = Maps(reference, @)] : f \in found}
JoinedNames(found) ==
    {[at |-> site, value |-> UNION {f.value : f \in {g \in found : g.at = site}}] : site \in {f.at : f \in found}}
Size(found) == MapThenSumSet(LAMBDA f : 1 + Cardinality(f.value), found)

AppliedIn(page) == {[at |-> a.at, value |-> a.value] : a \in page.applied}
BelowIn(page) == {r.name : r \in page.references}
ReachedFrom(page, reached) == AppliedIn(page) \cup UNION {Mapped(reached[r.name], r) : r \in page.references}

\* The components of the pages, by Tarjan's algorithm: `work` holds the pages being
\* followed, each with its references still to follow.
Entered(search, name, pages) ==
    LET at == Cardinality(DOMAIN search.index)
    IN  [search EXCEPT !.index = (name :> at) @@ @, !.low = (name :> at) @@ @, !.stack = Append(@, name),
                       !.work = Append(@, [name |-> name, left |-> BelowIn(pages[name])])]
Lowered(search, name, low) == [search EXCEPT !.low[name] = Min({@, low})]
Closed(search, current) ==
    LET from == SelectInSeq(search.stack, LAMBDA name : name = current)
    IN  IF search.low[current] # search.index[current] THEN search
        ELSE [search EXCEPT !.stack = SubSeq(@, 1, from - 1),
                            !.components = Append(@, ToSet(SubSeq(search.stack, from, Len(search.stack))))]
Returned(search, current) ==
    LET above == [Closed(search, current) EXCEPT !.work = Front(@)]
    IN  IF above.work = <<>> THEN above ELSE Lowered(above, Last(above.work).name, search.low[current])
Followed(search, pages) ==
    LET current == Last(search.work).name
        left == Last(search.work).left
        unread == left \ DOMAIN search.index
        below == CHOOSE b \in unread : TRUE
        open == {search.index[b] : b \in {c \in left : Contains(search.stack, c)}}
    IN  IF unread # {} THEN Entered([search EXCEPT !.work[Len(search.work)].left = @ \ {below}], below, pages)
        ELSE Returned(Lowered(search, current, Min(open \cup {search.low[current]})), current)
RECURSIVE SearchFrom(_, _)
SearchFrom(search, pages) ==
    IF search.work # <<>> THEN SearchFrom(Followed(search, pages), pages)
    ELSE IF DOMAIN search.index = DOMAIN pages THEN search.components
    ELSE SearchFrom(Entered(search, CHOOSE name \in DOMAIN pages : name \notin DOMAIN search.index, pages), pages)
Components(pages) ==
    SearchFrom([index |-> <<>>, low |-> <<>>, stack |-> <<>>, work |-> <<>>, components |-> <<>>], pages)

\* A component in a cycle: `pending` are the members to recompute; what a member reaches is
\* taken over when it holds more than it did, and its readers are then recomputed.
RECURSIVE SettledFrom(_, _, _, _)
SettledFrom(pages, members, reached, pending) ==
    IF pending = <<>> THEN reached
    ELSE LET member == Head(pending)
             grown == JoinedNames(ReachedFrom(pages[member], reached))
             readers == {m \in members : member \in BelowIn(pages[m])} \ ToSet(Tail(pending))
         IN  IF Size(grown) > Size(reached[member])
             THEN SettledFrom(pages, members, [reached EXCEPT ![member] = grown], Tail(pending) \o SetToSeq(readers))
             ELSE SettledFrom(pages, members, reached, Tail(pending))

\* A template outside every cycle is read once, its facts left apart.
Outside(pages, members) == \E name \in members : members = {name} /\ name \notin BelowIn(pages[name])
SettledPages(pages) ==
    LET settle(reached, members) ==
            IF Outside(pages, members)
            THEN [name \in members |-> ReachedFrom(pages[name], reached)] @@ reached
            ELSE SettledFrom(pages, members, [name \in members |-> {}] @@ reached, SetToSeq(members))
    IN  FoldLeft(settle, <<>>, Components(pages))
Settled(project) ==
    SettledPages([name \in {n \in DOMAIN project.found : Readable(project, n)} |-> Page(project, name)])

\* The project's templates: the filters each name reaches, the applications claimed, and
\* those where a library the engine cannot tell decides.
ProjectTemplates(project) ==
    LET reads == {ReadScopes(project, path) : path \in DOMAIN project.files}
        settled == Settled(project)
    IN  [filters |-> [name \in DOMAIN project.found |-> IF name \in DOMAIN settled THEN settled[name] ELSE {}],
         calls |-> UNION {{a.at : a \in r.applied} : r \in reads},
         unread |-> UNION {r.unresolved : r \in reads}]

-----------------------------------------------------------------------------
(* One reading of a template's markup (taint/templates.py, _read_markup):  *)
(* whether everything it prints stands where escaping protects it.  Markup *)
(* is a sequence of atoms: punctuation, names, and markers for what is     *)
(* printed, for template tags and for markup inserted from elsewhere.      *)

Printed == "{{}}"
Tag == "{%%}"
Inserted == "{%include%}"

Letters == {"a", "href", "on", "script"}    \* a plain name, a URL attribute, an event, a raw text element
Gaps == {" ", "/"}

NotRead == [escapes |-> FALSE, open |-> FALSE, settled |-> FALSE]

At(html, k) == IF k \in DOMAIN html THEN html[k] ELSE ""
NextOf(html, from, atoms) ==
    Min({k \in DOMAIN html : k >= from /\ html[k] \in atoms} \cup {Len(html) + 1})
SkipGap(html, from) == Min({k \in from..Len(html) : html[k] # " "} \cup {Len(html) + 1})

\* The attributes of a tag from a position to its end, as the HTML tokenizer reads them.
RECURSIVE AttributesFrom(_, _, _)
AttributesFrom(html, k, read) ==
    IF k > Len(html) \/ At(html, k) = ">" THEN [attributes |-> read, end |-> k]
    ELSE IF html[k] \in Gaps THEN AttributesFrom(html, k + 1, read)
    ELSE LET stop == NextOf(html, k + 1, {" ", "/", ">", "="})
             equals == SkipGap(html, stop)
             start == SkipGap(html, equals + 1)
             end == IF At(html, start) = "\"" THEN Min({NextOf(html, start + 1, {"\""}), Len(html)})
                    ELSE NextOf(html, start, {" ", ">"}) - 1
             attribute(value) == [name |-> SubSeq(html, k, stop - 1), value |-> value]
         IN  IF At(html, equals) = "="
             THEN AttributesFrom(html, end + 1, Append(read, attribute(SubSeq(html, start, end))))
             ELSE AttributesFrom(html, stop, Append(read, attribute(<<>>)))

\* A URL begins with something no scheme can follow; a template tag could leave it out.
SafeUrlPrefix(value) ==
    LET prefix == SubSeq(value, 2, NextOf(value, 1, {Printed}) - 1)
    IN  /\ ~Contains(prefix, Tag)
        /\ At(prefix, 1) = "/" /\ At(prefix, 2) # "/"
AttributeEscapes(a) ==
    /\ ~Contains(a.name, Printed)
    /\ Contains(a.value, Printed) =>
           /\ a.value[1] = "\""
           /\ a.name[1] # "on"
           /\ a.name = <<"href">> => SafeUrlPrefix(a.value)
AttributesEscape(attributes) == \A n \in DOMAIN attributes : AttributeEscapes(attributes[n])

\* Constructs, where they start: the position after them, whether they are closed, and
\* whether they are accepted.
Construct(end, closed, accepted) == [end |-> end, closed |-> closed, accepted |-> accepted]
Within(html, from, end) == ToSet(SubSeq(html, from, end - 1))

OpensRawText(html, k) ==
    /\ At(html, k + 1) = "script" /\ At(html, k + 2) \in Gaps \cup {">"}
    /\ NextOf(html, k + 2, {">"}) <= Len(html)
RawText(html, k) ==
    LET content == NextOf(html, k + 2, {">"}) + 1
        closes == {c \in content..Len(html) :
                      html[c] = "<" /\ At(html, c + 1) = "/" /\ At(html, c + 2) = "script"
                      /\ At(html, SkipGap(html, c + 3)) = ">"}
        close == Min(closes \cup {Len(html) + 1})
        end == IF closes = {} THEN close ELSE SkipGap(html, close + 3) + 1
        head == AttributesFrom(SubSeq(html, k, content - 1), 1, <<>>).attributes
    IN  Construct(end, closes # {},
                  /\ Printed \notin Within(html, content, close)
                  /\ Inserted \notin Within(html, k, end)
                  /\ AttributesEscape(head))

StartTag(html, k) ==
    LET name == NextOf(html, k + 1, {" ", "/", ">"})
        read == AttributesFrom(html, name, <<>>)
        closed == At(html, read.end) = ">"
        end == IF closed THEN read.end + 1 ELSE read.end
    IN  Construct(end, closed,
                  /\ Printed \notin Within(html, k, name)
                  /\ Inserted \notin Within(html, k, end)
                  /\ AttributesEscape(read.attributes))

EndTag(html, k) ==
    LET stop == NextOf(html, k, {">"})
        end == IF stop > Len(html) THEN stop ELSE stop + 1
    IN  Construct(end, stop <= Len(html), Within(html, k, end) \cap {Printed, Inserted} = {})

\* What is printed or inserted right after an opener would complete it.
CompletedFrom(html, k) ==
    LET after == Min({n \in k + 1..Len(html) : html[n] \notin Gaps} \cup {Len(html) + 1})
    IN  \/ At(html, after) \in {Printed, Inserted}
        \/ At(html, k + 1) = "!" /\ At(html, k + 2) = Inserted
EndsInOpener(html) ==
    \E k \in DOMAIN html :
        /\ html[k] = "<"
        /\ \/ \A n \in k + 1..Len(html) : html[n] \in Gaps
           \/ At(html, k + 1) = "!" /\ k + 1 = Len(html)

\* A comment ends at its close or at its first template tag.  Where it may end later,
\* other readings resume: this one must be in data there.
CommentAt(html, k) ==
    LET closes == {c \in k + 2..Len(html) : html[c] = "--" /\ At(html, c + 1) = ">"}
        hidden == Min(closes \cup {Len(html) + 1})
        tags == {c \in k + 3..hidden - 1 : html[c] = Tag}
    IN  [closed |-> closes # {},
         inserts |-> \E c \in k + 3..hidden - 1 : html[c] = Inserted,
         end |-> IF tags # {} THEN Min(tags) + 1 ELSE Min({hidden + 2, Len(html) + 1}),
         resumes |-> IF tags = {} THEN {}
                     ELSE {c + 1 : c \in tags \ {Min(tags)}} \cup (IF closes = {} THEN {} ELSE {hidden + 2}),
         left |-> tags # {} /\ closes = {},
         hides |-> tags = {} /\ closes = {}]

\* Whether a point where another reading resumes lies inside a construct.
ResumesInside(points, start, end) == \E p \in points : start < p /\ p < end

RECURSIVE ReadFrom(_, _)
ReadFrom(html, r) ==
    LET k == NextOf(html, r.position, {"<"})
        crossed(end) == ResumesInside(r.resumes, k, end)
        past(c) == IF ~c.accepted \/ crossed(c.end) THEN NotRead
                   ELSE ReadFrom(html, [r EXCEPT !.position = c.end, !.open = ~c.closed])
        comment == CommentAt(html, k)
    IN  IF k > Len(html)
        THEN [escapes |-> TRUE, open |-> r.open, settled |-> ~r.open /\ ~r.left /\ ~EndsInOpener(html)]
        ELSE CASE At(html, k + 1) = "!" /\ At(html, k + 2) = "--" ->
                    IF comment.inserts \/ crossed(comment.end) THEN NotRead
                    ELSE IF comment.hides THEN [NotRead EXCEPT !.escapes = TRUE]
                    ELSE ReadFrom(html, [r EXCEPT !.position = comment.end, !.open = FALSE,
                                                  !.left = @ \/ comment.left, !.resumes = @ \cup comment.resumes])
               [] OpensRawText(html, k) -> past(RawText(html, k))
               [] At(html, k + 1) \in Letters /\ ~OpensRawText(html, k) -> past(StartTag(html, k))
               [] At(html, k + 1) = "/" /\ At(html, k + 2) \in Letters -> past(EndTag(html, k))
               [] OTHER -> IF CompletedFrom(html, k) THEN NotRead
                           ELSE ReadFrom(html, [r EXCEPT !.position = k + 1])

ReadMarkup(html) ==
    ReadFrom(html, [position |-> 1, open |-> FALSE, left |-> FALSE, resumes |-> {}])

-----------------------------------------------------------------------------
(* The templates established to escape everything they render: each file is*)
(* read on its own, and once more with the pages it renders put together.  *)

\* Whether the syntax lets a file escape.
Escaping(file) ==
    \A n \in Nodes(file.nodes) :
        /\ n.op \in {"variable", "filter"} => n.filter \in EscapingFilters \cup {NoFilter}
        /\ n.op = "load" => n.library \in DjangoLibraries

RECURSIVE Flattened(_)
Flattened(nodes) ==
    FoldLeft(LAMBDA html, n : html \o
        (CASE n.op = "markup" -> n.atoms
           [] n.op \in {"variable", "super"} -> <<Printed>>
           [] n.op \in {"include", "load"} -> <<Tag>>
           [] OTHER -> <<Tag>> \o Flattened(n.nodes) \o <<Tag>>), <<>>, nodes)

-----------------------------------------------------------------------------
(* Pages.                                                                  *)

NoPage == {}

\* The chains from a file to a root, for each file that each name may be.
RECURSIVE ChainsFrom(_, _)
ChainsFrom(project, chain) ==
    LET file == project.files[Last(chain)]
        parents(name) == (IF name \in DOMAIN project.found THEN project.found[name] ELSE {}) \ ToSet(chain)
    IN  IF ~Escaping(file) \/ Cardinality(file.extends) > 1 THEN {<<>>}
        ELSE IF file.extends = {} THEN {chain}
        ELSE LET all == UNION {parents(name) : name \in file.extends}
             IN  IF all = {} THEN {<<>>} ELSE UNION {ChainsFrom(project, Append(chain, p)) : p \in all}
Chains(project, path) ==
    LET chains == ChainsFrom(project, <<path>>)
    IN  IF <<>> \in chains \/ Cardinality(chains) > VariantLimit THEN {} ELSE chains

\* The includes of a chain's page; a block that holds itself makes it none.
Unrenderable == [op |-> "unrenderable"]
RECURSIVE IncludesOf(_, _, _, _)
IncludesOf(project, chain, keys, nodes) ==
    UNION {CASE n.op = "include" -> {n}
             [] n.op \in {"block", "super"} ->
                    LET key == Resolved(project, chain, Last(keys), n)
                    IN  IF Contains(keys, key) /\ key.level # 0 THEN {Unrenderable}
                        ELSE IncludesOf(project, chain, Append(keys, key), NodesAt(project, chain, key))
             [] OTHER -> IncludesOf(project, chain, keys, Inside(n))
           : n \in ToSet(nodes)}
IncludesIn(project, chain) ==
    IncludesOf(project, chain, <<RootOf(chain)>>, NodesAt(project, chain, RootOf(chain)))
Targets(project, path) == UNION {IncludesIn(project, chain) : chain \in Chains(project, path)}

\* What an include puts in a page, given the pages put together so far: a page of its one
\* file, or inserted markup for one of several, or for one on the way to itself.
InsertedFor(name) == [markup |-> <<Inserted>>, inserted |-> {name}]
Included(project, pages, waiting, name) ==
    LET path == CHOOSE p \in project.found[name] : TRUE
    IN  IF Cardinality(project.found[name]) > 1 \/ path \in waiting \/ Cardinality(pages[path]) > 1 THEN InsertedFor(name)
        ELSE CHOOSE page \in pages[path] : TRUE
Joined(a, b) == [markup |-> a.markup \o b.markup, inserted |-> a.inserted \cup b.inserted]
Atoms(atoms) == [markup |-> atoms, inserted |-> {}]
RECURSIVE PutTogether(_, _, _, _, _, _)
PutTogether(project, pages, waiting, chain, key, nodes) ==
    LET inner(k, ns) == PutTogether(project, pages, waiting, chain, k, ns)
    IN  FoldLeft(LAMBDA page, n : Joined(page,
            CASE n.op = "markup" -> Atoms(n.atoms)
              [] n.op = "variable" -> Atoms(<<Printed>>)
              [] n.op = "load" -> Atoms(<<Tag>>)
              [] n.op = "include" -> Included(project, pages, waiting, n.name)
              [] n.op \in {"block", "super"} ->
                     LET k == Resolved(project, chain, key, n) IN inner(k, NodesAt(project, chain, k))
              [] OTHER -> Joined(Joined(Atoms(<<Tag>>), inner(key, n.nodes)), Atoms(<<Tag>>))),
            Atoms(<<>>), nodes)

\* The pages of a file, once those of the files it includes are put together.
RenderedPages(project, pages, waiting, path) ==
    LET chains == Chains(project, path)
        targets == Targets(project, path)
        known(n) ==
            /\ n # Unrenderable
            /\ n.name \in DOMAIN project.found
            /\ Cardinality(project.found[n.name]) = 1 =>
                   \E p \in project.found[n.name] : p \in waiting \/ pages[p] # NoPage
        made == {PutTogether(project, pages, waiting, chain, RootOf(chain), NodesAt(project, chain, RootOf(chain))) :
                    chain \in chains}
    IN  IF \A n \in targets : known(n)
        THEN IF \A page \in made : Len(page.markup) <= PageLimit THEN made ELSE NoPage
        ELSE NoPage
RECURSIVE PagesWith(_, _, _, _)
PagesWith(project, pages, waiting, path) ==
    IF path \in DOMAIN pages THEN pages
    ELSE LET single == {n \in Targets(project, path) \ {Unrenderable} :
                           n.name \in DOMAIN project.found /\ Cardinality(project.found[n.name]) = 1}
             needed == (UNION {project.found[n.name] : n \in single}) \ (waiting \cup {path})
             below == FoldLeft(LAMBDA found, p : PagesWith(project, found, waiting \cup {path}, p), pages, SetToSeq(needed))
         IN  [p \in DOMAIN below \cup {path} |->
                 IF p \in DOMAIN below THEN below[p]
                 ELSE RenderedPages(project, below, waiting \cup {path}, path)]
Pages(project) ==
    FoldLeft(LAMBDA found, p : PagesWith(project, found, {}, p), <<>>, SetToSeq(DOMAIN project.files))

-----------------------------------------------------------------------------
(* Verdicts.                                                               *)

RECURSIVE GrowOpen(_, _)
GrowOpen(extends, open) ==
    LET more == open \cup {name \in DOMAIN extends : extends[name] \cap open # {}}
    IN  IF more = open THEN open ELSE GrowOpen(extends, more)
RECURSIVE ShrinkEscaped(_, _)
ShrinkEscaped(requires, escaped) ==
    LET kept == {name \in escaped : requires[name] \subseteq escaped}
    IN  IF kept = escaped THEN escaped ELSE ShrinkEscaped(requires, kept)

Readings(pages) == {ReadMarkup(page.markup) : page \in pages} \cup (IF pages = NoPage THEN {NotRead} ELSE {})
EscapedAlone(project) ==
    {name \in DOMAIN project.found : \A p \in project.found[name] :
        Escaping(project.files[p]) /\ ReadMarkup(Flattened(project.files[p].nodes)).escapes}
Escaped(project) ==
    LET names == DOMAIN project.found
        pages == Pages(project)
        file(p) == project.files[p]
        alone(p) == IF Escaping(file(p)) THEN ReadMarkup(Flattened(file(p).nodes)) ELSE NotRead
        of(name, S(_)) == UNION {S(p) : p \in {q \in project.found[name] : Escaping(file(q))}}
        includesOf(p) == {n.name : n \in {m \in Nodes(file(p).nodes) : m.op = "include"}}
        extendsOf(p) == file(p).extends
        extends == [name \in names |-> of(name, extendsOf)]
        includes == [name \in names |-> of(name, includesOf)]
        open == GrowOpen(extends, {name \in names : \E p \in project.found[name] : alone(p).open})
        settled == {name \in names : \A p \in project.found[name] : \A r \in Readings(pages[p]) : r.settled}
        local == {name \in names : \A p \in project.found[name] :
                     alone(p).escapes /\ \A r \in Readings(pages[p]) : r.escapes}
        safe == {name \in local :
                    /\ includes[name] \cap open = {}
                    /\ \A p \in project.found[name] : \A page \in pages[p] : page.inserted \subseteq settled}
    IN  ShrinkEscaped([name \in names |-> extends[name] \cup includes[name]], safe)
=============================================================================
