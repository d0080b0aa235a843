------------------------------ MODULE ProjectCache ------------------------------
(***************************************************************************)
(* The cache (cache.py): the codec between what a module leaves for later  *)
(* runs and the JSON document it is stored as, and the directory of        *)
(* ProjectCache, shared by processes that store and load entries           *)
(* concurrently and may stop at any point.                                 *)
(*                                                                         *)
(* Arrays are sequences and objects are records; null is None, as in       *)
(* Python.  A mapping of names is the set of its items, in the document    *)
(* too.  Names, paths and messages are any texts.  A document of this      *)
(* format is one that encode wrote: what decode checks the types of is     *)
(* then of that type.                                                      *)
(*                                                                         *)
(* The document of an entry is written in two parts; a file holds a        *)
(* sequence of parts.                                                      *)
(*                                                                         *)
(*   file     the contents of each file of the directory: the entries,     *)
(*            named by a key, and the temporaries, named by a key and a    *)
(*            process id                                                   *)
(*   pid      the process id of each process                               *)
(*   writing  the entry each process is storing, or Nothing                *)
(*   found    what each process last loaded                                *)
(***************************************************************************)
EXTENDS Naturals, SequencesExt, FiniteSets

CONSTANTS None,
          Miss      \* what a load finds that finds nothing, or nothing it can decode

Optional(code(_), x) == IF x = None THEN None ELSE code(x)
Each(code(_), s) == [k \in DOMAIN s |-> code(s[k])]

-----------------------------------------------------------------------------
(* What a run leaves.                                                      *)

Texts == STRING
Indices == {S \in SUBSET Nat : IsFiniteSet(S)}
Symbols == {S \in SUBSET Texts : IsFiniteSet(S)}
Cleared == Seq(Nat \X Nat)
Mappings(S) == {M \in SUBSET (Texts \X S) : \A x, y \in M : x[1] = y[1] => x = y}

\* A range of lines, or a place in a file at no line.
SourceSpan ==
    {s \in [source_id : Texts, start_line : Nat \ {0}, start_column : Nat \ {0},
            end_line : Nat \cup {None}, end_column : Nat \cup {None}] : s.end_line = None <=> s.end_column = None}
FileLocation == [source_id : Texts, pointer : Texts, digest : Texts]

ModuleFunction == [name : Texts, span : SourceSpan, entry_point : Texts \cup {None}, aliases : Seq(Texts)]
SymbolRead == [function : Texts, location : SourceSpan, symbol : Texts]
RelatedLocation == [span : SourceSpan, message : Texts]
Severity == {"info", "low", "medium", "high", "critical"}
Confidence == {"low", "medium", "high"}
Finding == [rule_id : Texts, message : Texts, severity : Severity, confidence : Confidence,
            span : SourceSpan \cup FileLocation, function : Texts \cup {None},
            metadata : Mappings(Texts), related : Seq(RelatedLocation)]

Arguments == [positional : Seq(Texts \cup {None}), keywords : Seq(Texts \X (Texts \cup {None})),
              unpacked : BOOLEAN, keyword_unpacked : BOOLEAN]
\* No prior calls are none on the receiver; None, that it is not followed.
PriorCall == [symbol : Texts, location : SourceSpan, arguments : Arguments, dominates : BOOLEAN]
Target == ({"known"} \X Texts) \cup ({"external"} \X Texts) \cup {<<"unknown">>}
CallSite == [caller : Texts, location : SourceSpan, target : Target, arguments : Arguments,
             prior_calls : Seq(PriorCall) \cup {None}]

ExternalCall == [symbol : Texts, argument_dependencies : Seq(Indices),
                 keyword_dependencies : Seq((Texts \cup {None}) \X Indices),
                 location : SourceSpan, call_site : SourceSpan \cup {None}, arguments : Arguments,
                 argument_cleared : Seq(Cleared), keyword_cleared : Seq(Cleared),
                 invoked_at : SourceSpan \cup {None}]
Mutation == [parameter : Nat, field : Texts, dependencies : Indices, externals : Symbols]
NonlocalWrite == [name : Texts, dependencies : Indices, externals : Symbols, kept : BOOLEAN]
FunctionSummary == [name : Texts, parameters : Nat, return_dependencies : Indices,
                    external_calls : Seq(ExternalCall), unsupported : BOOLEAN,
                    return_externals : Symbols, mutations : Seq(Mutation), side_effects : Symbols,
                    nonlocal_writes : Seq(NonlocalWrite), static : BOOLEAN, return_cleared : Cleared]

CachedModule == [functions : Seq(ModuleFunction), summaries : Mappings(FunctionSummary),
                 sites : Seq(CallSite), findings : Seq(Finding), reads : Seq(SymbolRead)]

-----------------------------------------------------------------------------
(* Its parts, encoded and decoded.  A set is a list, in an order.          *)

EncodeSet(S) == SetToSeq(S)
DecodeSet(d) == ToSet(d)

EncodeSpan(s) == <<s.source_id, s.start_line, s.start_column, s.end_line, s.end_column>>
DecodeSpan(d) == [source_id |-> d[1], start_line |-> d[2], start_column |-> d[3], end_line |-> d[4], end_column |-> d[5]]
\* Only the place in a file is an object.
EncodeLocation(l) ==
    IF l \in FileLocation THEN <<"object", [file |-> l.source_id, pointer |-> l.pointer, digest |-> l.digest]>>
    ELSE <<"array", EncodeSpan(l)>>
DecodeLocation(d) ==
    IF d[1] = "object" THEN [source_id |-> d[2].file, pointer |-> d[2].pointer, digest |-> d[2].digest]
    ELSE DecodeSpan(d[2])

EncodeFunction(f) == <<f.name, EncodeSpan(f.span), f.entry_point, f.aliases>>
DecodeFunction(d) == [name |-> d[1], span |-> DecodeSpan(d[2]), entry_point |-> d[3], aliases |-> d[4]]
EncodeRead(r) == <<r.function, EncodeSpan(r.location), r.symbol>>
DecodeRead(d) == [function |-> d[1], location |-> DecodeSpan(d[2]), symbol |-> d[3]]

EncodeRelated(r) == <<EncodeSpan(r.span), r.message>>
DecodeRelated(d) == [span |-> DecodeSpan(d[1]), message |-> d[2]]
EncodeFinding(f) ==
    [rule |-> f.rule_id, message |-> f.message, severity |-> f.severity, confidence |-> f.confidence,
     span |-> EncodeLocation(f.span), function |-> f.function, metadata |-> f.metadata, related |-> Each(EncodeRelated, f.related)]
DecodeFinding(d) ==
    [rule_id |-> d.rule, message |-> d.message, severity |-> d.severity, confidence |-> d.confidence,
     span |-> DecodeLocation(d.span), function |-> d.function, metadata |-> d.metadata, related |-> Each(DecodeRelated, d.related)]

EncodeArguments(a) ==
    [positional |-> a.positional, keywords |-> a.keywords, unpacked |-> a.unpacked, keyword_unpacked |-> a.keyword_unpacked]
DecodeArguments(d) ==
    [positional |-> d.positional, keywords |-> d.keywords, unpacked |-> d.unpacked, keyword_unpacked |-> d.keyword_unpacked]
EncodePrior(p) == <<p.symbol, EncodeSpan(p.location), EncodeArguments(p.arguments), p.dominates>>
DecodePrior(d) == [symbol |-> d[1], location |-> DecodeSpan(d[2]), arguments |-> DecodeArguments(d[3]), dominates |-> d[4]]
EncodeTarget(t) ==
    CASE t[1] = "known"    -> [kind |-> "known", name |-> t[2]]
      [] t[1] = "external" -> [kind |-> "external", symbol |-> t[2]]
      [] OTHER             -> [kind |-> "unknown"]
DecodeTarget(d) ==
    CASE d.kind = "known"    -> <<"known", d.name>>
      [] d.kind = "external" -> <<"external", d.symbol>>
      [] d.kind = "unknown"  -> <<"unknown">>

\* No prior calls, taken for none that are known.
EncodePriorsIfAny(s) == IF s = None \/ s = <<>> THEN None ELSE Each(EncodePrior, s)
EncodePriors(s) == IF s = None THEN None ELSE Each(EncodePrior, s)
DecodePriors(d) == IF d = None THEN None ELSE Each(DecodePrior, d)
EncodeSite(s) ==
    [caller |-> s.caller, location |-> EncodeSpan(s.location), target |-> EncodeTarget(s.target),
     arguments |-> EncodeArguments(s.arguments), prior |-> EncodePriors(s.prior_calls)]
DecodeSite(d) ==
    [caller |-> d.caller, location |-> DecodeSpan(d.location), target |-> DecodeTarget(d.target),
     arguments |-> DecodeArguments(d.arguments), prior_calls |-> DecodePriors(d.prior)]

EncodeKeyword(k) == <<k[1], EncodeSet(k[2])>>
DecodeKeyword(d) == <<d[1], DecodeSet(d[2])>>
EncodeCall(c) ==
    [symbol |-> c.symbol, arguments |-> Each(EncodeSet, c.argument_dependencies),
     keywords |-> Each(EncodeKeyword, c.keyword_dependencies), location |-> EncodeSpan(c.location),
     call_site |-> Optional(EncodeSpan, c.call_site), given |-> EncodeArguments(c.arguments),
     argument_cleared |-> c.argument_cleared, keyword_cleared |-> c.keyword_cleared,
     invoked_at |-> Optional(EncodeSpan, c.invoked_at)]
DecodeCall(d) ==
    [symbol |-> d.symbol, argument_dependencies |-> Each(DecodeSet, d.arguments),
     keyword_dependencies |-> Each(DecodeKeyword, d.keywords), location |-> DecodeSpan(d.location),
     call_site |-> Optional(DecodeSpan, d.call_site), arguments |-> DecodeArguments(d.given),
     argument_cleared |-> d.argument_cleared, keyword_cleared |-> d.keyword_cleared,
     invoked_at |-> Optional(DecodeSpan, d.invoked_at)]

EncodeMutation(m) ==
    [parameter |-> m.parameter, field |-> m.field, dependencies |-> EncodeSet(m.dependencies), externals |-> EncodeSet(m.externals)]
DecodeMutation(d) ==
    [parameter |-> d.parameter, field |-> d.field, dependencies |-> DecodeSet(d.dependencies), externals |-> DecodeSet(d.externals)]
EncodeWrite(w) ==
    [name |-> w.name, dependencies |-> EncodeSet(w.dependencies), externals |-> EncodeSet(w.externals), kept |-> w.kept]
DecodeWrite(d) ==
    [name |-> d.name, dependencies |-> DecodeSet(d.dependencies), externals |-> DecodeSet(d.externals), kept |-> d.kept]
EncodeSummary(s) ==
    [name |-> s.name, parameters |-> s.parameters, returns |-> EncodeSet(s.return_dependencies),
     external_calls |-> Each(EncodeCall, s.external_calls), unsupported |-> s.unsupported,
     return_externals |-> EncodeSet(s.return_externals), mutations |-> Each(EncodeMutation, s.mutations),
     side_effects |-> EncodeSet(s.side_effects), nonlocal_writes |-> Each(EncodeWrite, s.nonlocal_writes),
     static |-> s.static, return_cleared |-> s.return_cleared]
DecodeSummary(d) ==
    [name |-> d.name, parameters |-> d.parameters, return_dependencies |-> DecodeSet(d.returns),
     external_calls |-> Each(DecodeCall, d.external_calls), unsupported |-> d.unsupported,
     return_externals |-> DecodeSet(d.return_externals), mutations |-> Each(DecodeMutation, d.mutations),
     side_effects |-> DecodeSet(d.side_effects), nonlocal_writes |-> Each(DecodeWrite, d.nonlocal_writes),
     static |-> d.static, return_cleared |-> d.return_cleared]

\* Null is none of the lists that it stands in for.
SpanCode == Texts \X Nat \X Nat \X (Nat \cup {None}) \X (Nat \cup {None})
PriorCode == Texts \X SpanCode \X Arguments \X BOOLEAN
ASSUME CodecAssumption == None \notin SpanCode \cup Seq(PriorCode)

-----------------------------------------------------------------------------
(* The document.                                                           *)

CacheFormat == 19

Encode(m) ==
    [format |-> CacheFormat, functions |-> Each(EncodeFunction, m.functions),
     summaries |-> {<<x[1], EncodeSummary(x[2])>> : x \in m.summaries}, sites |-> Each(EncodeSite, m.sites),
     findings |-> Each(EncodeFinding, m.findings), reads |-> Each(EncodeRead, m.reads)]

\* A document of another format is a miss.
Decode(d) ==
    IF d.format # CacheFormat THEN Miss
    ELSE [functions |-> Each(DecodeFunction, d.functions),
          summaries |-> {<<x[1], DecodeSummary(x[2])>> : x \in d.summaries}, sites |-> Each(DecodeSite, d.sites),
          findings |-> Each(DecodeFinding, d.findings), reads |-> Each(DecodeRead, d.reads)]

-----------------------------------------------------------------------------
(* The directory.                                                          *)

CONSTANTS Processes, Pids, Keys, Nothing,
          Entries,    \* what is stored
          MaxStarts   \* bound: how often a process is restarted

Storing == [key : Keys, entry : Entries, part : 1..3]

ASSUME CacheAssumption ==
    /\ Entries \subseteq CachedModule
    /\ Miss \notin Entries
    /\ Nothing \notin Storing
    /\ MaxStarts \in Nat

VARIABLES file, pid, writing, found, starts
vars == <<file, pid, writing, found, starts>>

Parts == 1..2
Document == [e \in Entries |-> Encode(e)]
Part(e, part) == <<Document[e], part>>
Whole(e) == <<Part(e, 1), Part(e, 2)>>
Temporary(p, k) == <<k, pid[p]>>
Without(name) == [n \in DOMAIN file \ {name} |-> file[n]]
WithFile(f, name, contents) == [n \in DOMAIN f \cup {name} |-> IF n = name THEN contents ELSE f[n]]

-----------------------------------------------------------------------------

\* The temporary is opened: created, or emptied if a stopped process left it.
Open(p, k, e) ==
    /\ writing[p] = Nothing
    /\ writing' = [writing EXCEPT ![p] = [key |-> k, entry |-> e, part |-> 1]]
    /\ file' = WithFile(file, Temporary(p, k), <<>>)
    /\ UNCHANGED <<pid, found, starts>>

WritePart(p) ==
    /\ writing[p] # Nothing
    /\ LET w == writing[p] IN
       /\ w.part \in Parts
       /\ Temporary(p, w.key) \in DOMAIN file
       /\ file' = [file EXCEPT ![Temporary(p, w.key)] = Append(@, Part(w.entry, w.part))]
       /\ writing' = [writing EXCEPT ![p].part = @ + 1]
    /\ UNCHANGED <<pid, found, starts>>

ReplaceBeforeTheEnd(p) ==
    /\ writing[p] # Nothing
    /\ LET w == writing[p] IN
       /\ Temporary(p, w.key) \in DOMAIN file
       /\ file' = WithFile(Without(Temporary(p, w.key)), <<w.key>>, file[Temporary(p, w.key)])
    /\ writing' = [writing EXCEPT ![p] = Nothing]
    /\ UNCHANGED <<pid, found, starts>>

\* Everything written, the temporary takes the entry's name.
Replace(p) ==
    /\ writing[p] # Nothing
    /\ LET w == writing[p] IN
       /\ w.part \notin Parts
       /\ Temporary(p, w.key) \in DOMAIN file
       /\ file' = WithFile(Without(Temporary(p, w.key)), <<w.key>>, file[Temporary(p, w.key)])
    /\ writing' = [writing EXCEPT ![p] = Nothing]
    /\ UNCHANGED <<pid, found, starts>>

\* A file that is not there, or does not decode, is a miss.
Decoded(contents) ==
    IF Len(contents) = 2 /\ contents = <<<<contents[1][1], 1>>, <<contents[1][1], 2>>>> THEN Decode(contents[1][1]) ELSE Miss
Stored(k) == IF <<k>> \in DOMAIN file THEN Decoded(file[<<k>>]) ELSE Miss

Load(p, k) ==
    /\ writing[p] = Nothing
    /\ found' = [found EXCEPT ![p] = <<k, Stored(k)>>]
    /\ UNCHANGED <<file, pid, writing, starts>>

\* A process stops, storing or not, and another takes its place under an id that
\* no running process has; it may be one that was used before.
Restart(p) ==
    /\ starts < MaxStarts
    /\ starts' = starts + 1
    /\ \E i \in Pids \ {pid[q] : q \in Processes \ {p}} : pid' = [pid EXCEPT ![p] = i]
    /\ writing' = [writing EXCEPT ![p] = Nothing]
    /\ UNCHANGED <<file, found>>

Init ==
    /\ file = <<>>
    /\ pid \in {f \in [Processes -> Pids] : \A p, q \in Processes : f[p] = f[q] => p = q}
    /\ writing = [p \in Processes |-> Nothing]
    /\ found = [p \in Processes |-> Miss]
    /\ starts = 0

Next ==
    \E p \in Processes :
        \/ \E k \in Keys : Load(p, k) \/ \E e \in Entries : Open(p, k, e)
        \/ WritePart(p) \/ Replace(p) \/ Restart(p)

Spec == Init /\ [][Next]_vars

-----------------------------------------------------------------------------
(* Properties.                                                             *)

TypeOK ==
    /\ DOMAIN file \subseteq {<<k>> : k \in Keys} \cup (Keys \X Pids)
    /\ \A n \in DOMAIN file : file[n] \in Seq({Part(e, part) : e \in Entries, part \in Parts})
    /\ pid \in [Processes -> Pids]
    /\ writing \in [Processes -> {Nothing} \cup Storing]
    /\ starts \in 0..MaxStarts

\* A file under an entry's name is a whole entry, whoever stopped while writing one
\* and whichever process ids came back: a temporary only ever has one writer.
EntriesAreWhole == \A k \in Keys : <<k>> \in DOMAIN file => Stored(k) # Miss

\* Concurrent stores and loads are those of a store with atomic entries.
Promise == INSTANCE AtomicCache WITH entries <- [k \in Keys |-> Stored(k)]
PromiseKept == Promise!AtomicSpec
=============================================================================
