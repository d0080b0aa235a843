--------------------------- MODULE ProjectCacheProofs ---------------------------
(***************************************************************************)
(* For any number of processes, keys, entries and process ids, a directory *)
(* of entries behaves as a store whose entries appear whole, at once.      *)
(*                                                                         *)
(* The argument.  Running processes have different ids, so the temporary a *)
(* process writes is its own: it holds what the process has written since  *)
(* it opened the file, and the whole entry once it is renamed.             *)
(***************************************************************************)
EXTENDS ProjectCache, FiniteSetTheorems, FunctionTheorems, TLAPS

\* What a process has written of an entry when part is the next to write.
Written(e, part) ==
    CASE part = 1 -> <<>>
      [] part = 2 -> <<Part(e, 1)>>
      [] OTHER -> Whole(e)

PidsDiffer == pid \in [Processes -> Pids] /\ \A p, q \in Processes : pid[p] = pid[q] => p = q

WritersInv ==
    \A p \in Processes :
        writing[p] # Nothing =>
            /\ Temporary(p, writing[p].key) \in DOMAIN file
            /\ file[Temporary(p, writing[p].key)] = Written(writing[p].entry, writing[p].part)

EntriesInv == \A k \in Keys : <<k>> \in DOMAIN file => \E e \in Entries : file[<<k>>] = Whole(e)

IInv ==
    /\ PidsDiffer
    /\ writing \in [Processes -> {Nothing} \cup Storing]
    /\ found \in [Processes -> {Miss} \cup (Keys \X ({Miss} \cup Entries))]
    /\ WritersInv
    /\ EntriesInv

-----------------------------------------------------------------------------
(* The codec: what was encoded decodes to itself, part by part.            *)

\* A list of the elements of a finite set has them all.
LEMMA SetsDecode ==
    ASSUME NEW S, IsFiniteSet(S)
    PROVE  DecodeSet(EncodeSet(S)) = S
<1> DEFINE n == Cardinality(S)
           d == EncodeSet(S)
<1>1. \E f \in [1..n -> S] : IsInjective(f)
  <2>1. PICK f : f \in Bijection(1..n, S)
    BY FS_CardinalityType DEF ExistsBijection
  <2>2. QED
    BY <2>1, Fun_BijectionProperties DEF Injection
<1>2. d \in [1..n -> S] /\ IsInjective(d)
  BY <1>1 DEF EncodeSet, SetToSeq
<1>3. d \in Injection(1..n, S)
  BY <1>2 DEF Injection
<1>4. n \in Nat /\ Cardinality(1..n) = n
  BY FS_CardinalityType, FS_Interval
<1> HIDE DEF d
<1>5. d \in Surjection(1..n, S)
  BY <1>3, <1>4, FS_Injection
<1>6. \A x \in S : \E k \in 1..n : d[k] = x
  BY <1>5 DEF Surjection
<1>7. {d[k] : k \in DOMAIN d} = S
  BY <1>2, <1>6
<1>8. QED
  BY <1>7 DEF DecodeSet, ToSet, d

LEMMA IndicesDecode == \A S \in Indices \cup Symbols : DecodeSet(EncodeSet(S)) = S
BY SetsDecode DEF Indices, Symbols

\* A sequence is the function of its elements.
LEMMA Elements ==
    ASSUME NEW S, NEW s \in Seq(S)
    PROVE  s = [k \in DOMAIN s |-> s[k]] /\ \A k \in DOMAIN s : s[k] \in S
OBVIOUS

LEMMA SpansDecode == \A s \in SourceSpan : DecodeSpan(EncodeSpan(s)) = s
BY DEF SourceSpan, DecodeSpan, EncodeSpan

LEMMA OptionalSpansDecode ==
    ASSUME NEW s \in SourceSpan \cup {None}
    PROVE  Optional(DecodeSpan, Optional(EncodeSpan, s)) = s
<1>1. CASE s = None
  BY <1>1 DEF Optional
<1>2. CASE s # None
  <2>1. s \in SourceSpan
    BY <1>2
  <2>2. Optional(EncodeSpan, s) = EncodeSpan(s)
    BY <1>2 DEF Optional
  <2>3. EncodeSpan(s) # None
    <3>1. EncodeSpan(s) \in SpanCode
      BY <2>1 DEF EncodeSpan, SourceSpan, SpanCode
    <3>2. QED
      BY <3>1, CodecAssumption
  <2>4. QED
    BY <2>1, <2>2, <2>3, SpansDecode DEF Optional
<1>3. QED
  BY <1>1, <1>2

LEMMA LocationsDecode == \A l \in SourceSpan \cup FileLocation : DecodeLocation(EncodeLocation(l)) = l
<1>1. ASSUME NEW l \in FileLocation PROVE DecodeLocation(EncodeLocation(l)) = l
  BY DEF FileLocation, DecodeLocation, EncodeLocation
<1>2. ASSUME NEW l \in SourceSpan, l \notin FileLocation PROVE DecodeLocation(EncodeLocation(l)) = l
  BY <1>2, SpansDecode DEF DecodeLocation, EncodeLocation
<1>3. QED
  BY <1>1, <1>2

LEMMA FunctionsDecode == \A f \in ModuleFunction : DecodeFunction(EncodeFunction(f)) = f
<1> TAKE f \in ModuleFunction
<1>1. DecodeSpan(EncodeSpan(f.span)) = f.span
  BY SpansDecode DEF ModuleFunction
<1>2. QED
  BY <1>1 DEF ModuleFunction, DecodeFunction, EncodeFunction

LEMMA ReadsDecode == \A r \in SymbolRead : DecodeRead(EncodeRead(r)) = r
<1> TAKE r \in SymbolRead
<1>1. DecodeSpan(EncodeSpan(r.location)) = r.location
  BY SpansDecode DEF SymbolRead
<1>2. QED
  BY <1>1 DEF SymbolRead, DecodeRead, EncodeRead

LEMMA RelatedDecodes == \A r \in RelatedLocation : DecodeRelated(EncodeRelated(r)) = r
<1> TAKE r \in RelatedLocation
<1>1. DecodeSpan(EncodeSpan(r.span)) = r.span
  BY SpansDecode DEF RelatedLocation
<1>2. QED
  BY <1>1 DEF RelatedLocation, DecodeRelated, EncodeRelated

LEMMA FindingsDecode == \A f \in Finding : DecodeFinding(EncodeFinding(f)) = f
<1> TAKE f \in Finding
<1>1. DecodeLocation(EncodeLocation(f.span)) = f.span
  BY LocationsDecode DEF Finding
<1>2. Each(DecodeRelated, Each(EncodeRelated, f.related)) = f.related
  <2>1. f.related \in Seq(RelatedLocation)
    BY DEF Finding
  <2>2. f.related = [k \in DOMAIN f.related |-> f.related[k]] /\ \A k \in DOMAIN f.related : f.related[k] \in RelatedLocation
    BY <2>1, Elements
  <2>3. QED
    BY <2>1, <2>2, RelatedDecodes DEF Each
<1>3. QED
  BY <1>1, <1>2 DEF Finding, DecodeFinding, EncodeFinding

LEMMA ArgumentsDecode == \A a \in Arguments : DecodeArguments(EncodeArguments(a)) = a
BY DEF Arguments, DecodeArguments, EncodeArguments

LEMMA PriorsDecode == \A p \in PriorCall : DecodePrior(EncodePrior(p)) = p
<1> TAKE p \in PriorCall
<1>1. DecodeSpan(EncodeSpan(p.location)) = p.location /\ DecodeArguments(EncodeArguments(p.arguments)) = p.arguments
  BY SpansDecode, ArgumentsDecode DEF PriorCall
<1>2. QED
  BY <1>1 DEF PriorCall, DecodePrior, EncodePrior

LEMMA PriorsAreCoded == \A p \in PriorCall : EncodePrior(p) \in PriorCode
<1> TAKE p \in PriorCall
<1>1. EncodeSpan(p.location) \in SpanCode
  BY DEF PriorCall, SourceSpan, EncodeSpan, SpanCode
<1>2. EncodeArguments(p.arguments) \in Arguments
  BY DEF PriorCall, Arguments, EncodeArguments
<1>3. QED
  BY <1>1, <1>2 DEF PriorCall, EncodePrior, PriorCode

LEMMA TargetsDecode == \A t \in Target : DecodeTarget(EncodeTarget(t)) = t
BY DEF Target, DecodeTarget, EncodeTarget

LEMMA SitesDecode == \A s \in CallSite : DecodeSite(EncodeSite(s)) = s
<1> TAKE s \in CallSite
<1>1. /\ DecodeSpan(EncodeSpan(s.location)) = s.location
      /\ DecodeArguments(EncodeArguments(s.arguments)) = s.arguments
      /\ DecodeTarget(EncodeTarget(s.target)) = s.target
  BY SpansDecode, ArgumentsDecode, TargetsDecode DEF CallSite
<1>2. DecodePriors(EncodePriors(s.prior_calls)) = s.prior_calls
  <2>1. CASE s.prior_calls = None
    BY <2>1 DEF DecodePriors, EncodePriors
  <2>2. CASE s.prior_calls # None
    <3>1. s.prior_calls \in Seq(PriorCall)
      BY <2>2 DEF CallSite
    <3>2. Each(EncodePrior, s.prior_calls) # None
      <4>1. \A x \in PriorCall : EncodePrior(x) \in PriorCode
        BY PriorsAreCoded
      <4>2. Each(EncodePrior, s.prior_calls) \in Seq(PriorCode)
        BY <3>1, <4>1, Elements DEF Each
      <4>3. QED
        BY <4>2, CodecAssumption
    <3>3. Each(DecodePrior, Each(EncodePrior, s.prior_calls)) = s.prior_calls
      <4>1. s.prior_calls = [k \in DOMAIN s.prior_calls |-> s.prior_calls[k]] /\ \A k \in DOMAIN s.prior_calls : s.prior_calls[k] \in PriorCall
        BY <3>1, Elements
      <4>2. QED
        BY <4>1, PriorsDecode DEF Each
    <3>4. QED
      BY <2>2, <3>2, <3>3 DEF DecodePriors, EncodePriors
  <2>3. QED
    BY <2>1, <2>2
<1>3. QED
  BY <1>1, <1>2 DEF CallSite, DecodeSite, EncodeSite

LEMMA KeywordsDecode ==
    ASSUME NEW k \in (Texts \cup {None}) \X Indices
    PROVE  DecodeKeyword(EncodeKeyword(k)) = k
<1>1. k = <<k[1], k[2]>> /\ k[2] \in Indices
  OBVIOUS
<1>2. DecodeSet(EncodeSet(k[2])) = k[2]
  BY <1>1, IndicesDecode
<1>3. QED
  BY <1>1, <1>2 DEF DecodeKeyword, EncodeKeyword

LEMMA CallsDecode == \A c \in ExternalCall : DecodeCall(EncodeCall(c)) = c
<1> TAKE c \in ExternalCall
<1>1. /\ DecodeSpan(EncodeSpan(c.location)) = c.location
      /\ Optional(DecodeSpan, Optional(EncodeSpan, c.call_site)) = c.call_site
      /\ Optional(DecodeSpan, Optional(EncodeSpan, c.invoked_at)) = c.invoked_at
      /\ DecodeArguments(EncodeArguments(c.arguments)) = c.arguments
  <2>1. /\ c.location \in SourceSpan /\ c.call_site \in SourceSpan \cup {None}
        /\ c.invoked_at \in SourceSpan \cup {None} /\ c.arguments \in Arguments
    BY DEF ExternalCall
  <2>2. QED
    BY <2>1, SpansDecode, OptionalSpansDecode, ArgumentsDecode
<1>2. Each(DecodeSet, Each(EncodeSet, c.argument_dependencies)) = c.argument_dependencies
  <2>1. c.argument_dependencies \in Seq(Indices)
    BY DEF ExternalCall
  <2>2. c.argument_dependencies = [k \in DOMAIN c.argument_dependencies |-> c.argument_dependencies[k]] /\ \A k \in DOMAIN c.argument_dependencies : c.argument_dependencies[k] \in Indices
    BY <2>1, Elements
  <2>3. QED
    BY <2>1, <2>2, IndicesDecode DEF Each
<1>3. Each(DecodeKeyword, Each(EncodeKeyword, c.keyword_dependencies)) = c.keyword_dependencies
  <2>1. c.keyword_dependencies \in Seq((Texts \cup {None}) \X Indices)
    BY DEF ExternalCall
  <2>2. c.keyword_dependencies = [k \in DOMAIN c.keyword_dependencies |-> c.keyword_dependencies[k]] /\ \A k \in DOMAIN c.keyword_dependencies : c.keyword_dependencies[k] \in (Texts \cup {None}) \X Indices
    BY <2>1, Elements
  <2>3. QED
    BY <2>1, <2>2, KeywordsDecode DEF Each
<1>4. QED
  BY <1>1, <1>2, <1>3 DEF ExternalCall, DecodeCall, EncodeCall

LEMMA MutationsDecode == \A m \in Mutation : DecodeMutation(EncodeMutation(m)) = m
<1> TAKE m \in Mutation
<1>1. DecodeSet(EncodeSet(m.dependencies)) = m.dependencies /\ DecodeSet(EncodeSet(m.externals)) = m.externals
  BY IndicesDecode DEF Mutation
<1>2. QED
  BY <1>1 DEF Mutation, DecodeMutation, EncodeMutation

LEMMA WritesDecode == \A w \in NonlocalWrite : DecodeWrite(EncodeWrite(w)) = w
<1> TAKE w \in NonlocalWrite
<1>1. DecodeSet(EncodeSet(w.dependencies)) = w.dependencies /\ DecodeSet(EncodeSet(w.externals)) = w.externals
  BY IndicesDecode DEF NonlocalWrite
<1>2. QED
  BY <1>1 DEF NonlocalWrite, DecodeWrite, EncodeWrite

LEMMA SummariesDecode == \A s \in FunctionSummary : DecodeSummary(EncodeSummary(s)) = s
<1> TAKE s \in FunctionSummary
<1>1. /\ DecodeSet(EncodeSet(s.return_dependencies)) = s.return_dependencies
      /\ DecodeSet(EncodeSet(s.return_externals)) = s.return_externals
      /\ DecodeSet(EncodeSet(s.side_effects)) = s.side_effects
  BY IndicesDecode DEF FunctionSummary
<1>2. Each(DecodeCall, Each(EncodeCall, s.external_calls)) = s.external_calls
  <2>1. s.external_calls \in Seq(ExternalCall)
    BY DEF FunctionSummary
  <2>2. s.external_calls = [k \in DOMAIN s.external_calls |-> s.external_calls[k]] /\ \A k \in DOMAIN s.external_calls : s.external_calls[k] \in ExternalCall
    BY <2>1, Elements
  <2>3. QED
    BY <2>1, <2>2, CallsDecode DEF Each
<1>3. Each(DecodeMutation, Each(EncodeMutation, s.mutations)) = s.mutations
  <2>1. s.mutations \in Seq(Mutation)
    BY DEF FunctionSummary
  <2>2. s.mutations = [k \in DOMAIN s.mutations |-> s.mutations[k]] /\ \A k \in DOMAIN s.mutations : s.mutations[k] \in Mutation
    BY <2>1, Elements
  <2>3. QED
    BY <2>1, <2>2, MutationsDecode DEF Each
<1>4. Each(DecodeWrite, Each(EncodeWrite, s.nonlocal_writes)) = s.nonlocal_writes
  <2>1. s.nonlocal_writes \in Seq(NonlocalWrite)
    BY DEF FunctionSummary
  <2>2. s.nonlocal_writes = [k \in DOMAIN s.nonlocal_writes |-> s.nonlocal_writes[k]] /\ \A k \in DOMAIN s.nonlocal_writes : s.nonlocal_writes[k] \in NonlocalWrite
    BY <2>1, Elements
  <2>3. QED
    BY <2>1, <2>2, WritesDecode DEF Each
<1>5. QED
  BY <1>1, <1>2, <1>3, <1>4 DEF FunctionSummary, DecodeSummary, EncodeSummary

LEMMA ListsDecode ==
    /\ \A s \in Seq(ModuleFunction) : Each(DecodeFunction, Each(EncodeFunction, s)) = s
    /\ \A s \in Seq(CallSite) : Each(DecodeSite, Each(EncodeSite, s)) = s
    /\ \A s \in Seq(Finding) : Each(DecodeFinding, Each(EncodeFinding, s)) = s
    /\ \A s \in Seq(SymbolRead) : Each(DecodeRead, Each(EncodeRead, s)) = s
<1>1. ASSUME NEW s \in Seq(ModuleFunction) PROVE Each(DecodeFunction, Each(EncodeFunction, s)) = s
  <2>1. s = [k \in DOMAIN s |-> s[k]] /\ \A k \in DOMAIN s : s[k] \in ModuleFunction
    BY Elements
  <2>2. QED
    BY <2>1, FunctionsDecode DEF Each
<1>2. ASSUME NEW s \in Seq(CallSite) PROVE Each(DecodeSite, Each(EncodeSite, s)) = s
  <2>1. s = [k \in DOMAIN s |-> s[k]] /\ \A k \in DOMAIN s : s[k] \in CallSite
    BY Elements
  <2>2. QED
    BY <2>1, SitesDecode DEF Each
<1>3. ASSUME NEW s \in Seq(Finding) PROVE Each(DecodeFinding, Each(EncodeFinding, s)) = s
  <2>1. s = [k \in DOMAIN s |-> s[k]] /\ \A k \in DOMAIN s : s[k] \in Finding
    BY Elements
  <2>2. QED
    BY <2>1, FindingsDecode DEF Each
<1>4. ASSUME NEW s \in Seq(SymbolRead) PROVE Each(DecodeRead, Each(EncodeRead, s)) = s
  <2>1. s = [k \in DOMAIN s |-> s[k]] /\ \A k \in DOMAIN s : s[k] \in SymbolRead
    BY Elements
  <2>2. QED
    BY <2>1, ReadsDecode DEF Each
<1>5. QED
  BY <1>1, <1>2, <1>3, <1>4

LEMMA SummaryItemsDecode ==
    ASSUME NEW S \in SUBSET (Texts \X FunctionSummary), NEW D, D = {<<x[1], EncodeSummary(x[2])>> : x \in S}
    PROVE  {<<x[1], DecodeSummary(x[2])>> : x \in D} = S
<1>1. \A x \in S : <<x[1], DecodeSummary(EncodeSummary(x[2]))>> = x
  <2> TAKE x \in S
  <2>1. x = <<x[1], x[2]>> /\ x[2] \in FunctionSummary
    OBVIOUS
  <2>2. QED
    BY <2>1, SummariesDecode
<1>2. ASSUME NEW x \in S PROVE x \in {<<y[1], DecodeSummary(y[2])>> : y \in D}
  <2> DEFINE y == <<x[1], EncodeSummary(x[2])>>
  <2>1. y \in D
    OBVIOUS
  <2>2. y[1] = x[1] /\ y[2] = EncodeSummary(x[2])
    OBVIOUS
  <2> HIDE DEF y
  <2>3. x = <<y[1], DecodeSummary(y[2])>>
    BY <1>1, <2>2
  <2>4. QED
    BY <2>1, <2>3
<1>3. ASSUME NEW y \in D PROVE <<y[1], DecodeSummary(y[2])>> \in S
  <2>1. PICK x \in S : y = <<x[1], EncodeSummary(x[2])>>
    OBVIOUS
  <2>2. QED
    BY <1>1, <2>1
<1>4. QED
  BY <1>2, <1>3

\* What a run stores of a module a later run loads: every function, summary, call site,
\* finding and read, as it was, with what is None, an empty list and a set in it.
THEOREM EncodedDecodes == \A m \in CachedModule : Decode(Encode(m)) = m
<1> TAKE m \in CachedModule
<1>1. /\ Each(DecodeFunction, Each(EncodeFunction, m.functions)) = m.functions
      /\ Each(DecodeSite, Each(EncodeSite, m.sites)) = m.sites
      /\ Each(DecodeFinding, Each(EncodeFinding, m.findings)) = m.findings
      /\ Each(DecodeRead, Each(EncodeRead, m.reads)) = m.reads
  BY ListsDecode DEF CachedModule
<1> DEFINE D == {<<x[1], EncodeSummary(x[2])>> : x \in m.summaries}
<1>2. {<<x[1], DecodeSummary(x[2])>> : x \in D} = m.summaries
  BY SummaryItemsDecode DEF CachedModule, Mappings
<1>3. /\ Encode(m).format = CacheFormat
      /\ Encode(m).functions = Each(EncodeFunction, m.functions)
      /\ Encode(m).summaries = D
      /\ Encode(m).sites = Each(EncodeSite, m.sites)
      /\ Encode(m).findings = Each(EncodeFinding, m.findings)
      /\ Encode(m).reads = Each(EncodeRead, m.reads)
  BY DEF Encode
<1> HIDE DEF D
<1>4. m = [functions |-> m.functions, summaries |-> m.summaries, sites |-> m.sites,
           findings |-> m.findings, reads |-> m.reads]
  BY DEF CachedModule
<1>5. QED
  BY <1>1, <1>2, <1>3, <1>4 DEF Decode

-----------------------------------------------------------------------------
(* Files.                                                                  *)

\* Different names of temporaries, and of entries.
LEMMA NameFacts ==
    /\ \A k, l, i : <<k>> # <<l, i>>
    /\ \A k, l : <<k>> = <<l>> => k = l
    /\ \A k, l, i, j : <<k, i>> = <<l, j>> => k = l /\ i = j
OBVIOUS

\* Decoding a whole entry gives it back.
LEMMA DecodedFacts == \A e \in Entries : Decoded(Whole(e)) = e
<1> TAKE e \in Entries
<1>1. Whole(e) = <<<<Document[e], 1>>, <<Document[e], 2>>>>
  BY DEF Whole, Part
<1>2. Decode(Document[e]) = e
  BY EncodedDecodes, CacheAssumption DEF Document
<1>3. \A d : Decoded(<<<<d, 1>>, <<d, 2>>>>) = Decode(d)
  BY DEF Decoded
<1>4. QED
  BY <1>1, <1>2, <1>3

LEMMA WrittenFacts ==
    ASSUME NEW e
    PROVE  /\ Written(e, 1) = <<>>
           /\ Append(Written(e, 1), Part(e, 1)) = Written(e, 2)
           /\ Append(Written(e, 2), Part(e, 2)) = Written(e, 3)
           /\ Written(e, 3) = Whole(e)
<1>1. Written(e, 1) = <<>> /\ Written(e, 2) = <<Part(e, 1)>> /\ Written(e, 3) = Whole(e)
  BY DEF Written
<1>2. \A x : Append(<<>>, x) = <<x>>
  OBVIOUS
<1>3. ASSUME NEW x, NEW y PROVE Append(<<x>>, y) = <<x, y>>
  <2> DEFINE a == Append(<<x>>, y)
  <2>1. <<x>> \in Seq({x, y}) /\ Len(<<x>>) = 1
    OBVIOUS
  <2>2. a \in Seq({x, y}) /\ Len(a) = 2 /\ a[1] = x /\ a[2] = y
    BY <2>1
  <2>3. a = [i \in 1..2 |-> a[i]]
    BY <2>2
  <2> HIDE DEF a
  <2>4. a = <<a[1], a[2]>>
    BY <2>3
  <2>5. QED
    BY <2>2, <2>4 DEF a
<1>4. QED
  BY <1>1, <1>2, <1>3 DEF Whole

USE DEF Temporary

-----------------------------------------------------------------------------
(* Steps.                                                                  *)

LEMMA InitIInv == Init => IInv
BY DEF Init, IInv, PidsDiffer, WritersInv, EntriesInv

LEMMA OpenIInv ==
    ASSUME IInv, NEW p \in Processes, NEW k \in Keys, NEW e \in Entries, Open(p, k, e)
    PROVE  IInv'
<1> DEFINE w == [key |-> k, entry |-> e, part |-> 1]
<1> DEFINE t == Temporary(p, k)
<1>1. w \in Storing /\ w # Nothing
  BY CacheAssumption DEF Storing
<1>2. /\ writing' = [writing EXCEPT ![p] = w] /\ pid' = pid /\ found' = found
      /\ file' = WithFile(file, t, <<>>)
  BY DEF Open
<1>3. /\ DOMAIN file' = DOMAIN file \cup {t} /\ file'[t] = <<>>
      /\ \A n \in DOMAIN file : n # t => file'[n] = file[n]
  BY <1>2 DEF WithFile
<1>4. writing' \in [Processes -> {Nothing} \cup Storing]
  BY <1>1, <1>2 DEF IInv
<1>5. ASSUME NEW q \in Processes, writing'[q] # Nothing
      PROVE  /\ <<writing'[q].key, pid'[q]>> \in DOMAIN file'
             /\ file'[<<writing'[q].key, pid'[q]>>] = Written(writing'[q].entry, writing'[q].part)
  <2>1. CASE q = p
    <3>1. writing'[q] = w /\ pid'[q] = pid[p]
      BY <1>2, <2>1 DEF IInv
    <3>2. Written(e, 1) = <<>>
      BY WrittenFacts
    <3>3. QED
      BY <1>3, <3>1, <3>2
  <2>2. CASE q # p
    <3>1. writing'[q] = writing[q] /\ pid'[q] = pid[q]
      BY <1>2, <2>2 DEF IInv
    <3>2. <<writing[q].key, pid[q]>> # t
      BY <2>2, NameFacts DEF IInv, PidsDiffer
    <3>3. QED
      BY <1>3, <1>5, <3>1, <3>2 DEF IInv, WritersInv
  <2>3. QED
    BY <2>1, <2>2
<1>6. WritersInv'
  BY <1>5 DEF WritersInv
<1>7. EntriesInv'
  BY <1>3, NameFacts DEF IInv, EntriesInv, Temporary
<1>8. QED
  BY <1>2, <1>4, <1>6, <1>7 DEF IInv, PidsDiffer

LEMMA WritePartIInv ==
    ASSUME IInv, NEW p \in Processes, WritePart(p)
    PROVE  IInv'
<1> DEFINE w == writing[p]
<1> DEFINE t == Temporary(p, w.key)
<1>1. /\ w \in Storing /\ w # Nothing /\ w.part \in 1..2
      /\ writing' = [writing EXCEPT ![p].part = @ + 1] /\ pid' = pid /\ found' = found
      /\ t \in DOMAIN file
      /\ file' = [file EXCEPT ![t] = Append(@, Part(w.entry, w.part))]
  BY DEF WritePart, Parts, IInv
<1>2. /\ writing'[p] = [w EXCEPT !.part = @ + 1]
      /\ \A q \in Processes : q # p => writing'[q] = writing[q]
  BY <1>1 DEF IInv
<1>3. /\ writing'[p] \in Storing
      /\ writing'[p].key = w.key /\ writing'[p].entry = w.entry /\ writing'[p].part = w.part + 1
  BY <1>1, <1>2 DEF Storing
<1>4. writing' \in [Processes -> {Nothing} \cup Storing]
  BY <1>1, <1>3 DEF IInv
<1>5. /\ DOMAIN file' = DOMAIN file
      /\ file'[t] = Append(file[t], Part(w.entry, w.part))
      /\ \A n \in DOMAIN file : n # t => file'[n] = file[n]
  BY <1>1
<1>6. file'[t] = Written(w.entry, w.part + 1)
  <2>1. file[t] = Written(w.entry, w.part)
    BY <1>1 DEF IInv, WritersInv
  <2>2. w.part = 1 \/ w.part = 2
    BY <1>1
  <2>3. QED
    BY <1>5, <2>1, <2>2, WrittenFacts
<1>7. ASSUME NEW q \in Processes, writing'[q] # Nothing
      PROVE  /\ <<writing'[q].key, pid'[q]>> \in DOMAIN file'
             /\ file'[<<writing'[q].key, pid'[q]>>] = Written(writing'[q].entry, writing'[q].part)
  <2>1. CASE q = p
    BY <1>1, <1>3, <1>5, <1>6, <2>1
  <2>2. CASE q # p
    <3>1. writing'[q] = writing[q] /\ pid'[q] = pid[q]
      BY <1>1, <1>2, <2>2
    <3>2. <<writing[q].key, pid[q]>> # t
      BY <2>2, NameFacts DEF IInv, PidsDiffer
    <3>3. QED
      BY <1>5, <1>7, <3>1, <3>2 DEF IInv, WritersInv
  <2>3. QED
    BY <2>1, <2>2
<1>8. WritersInv'
  BY <1>7 DEF WritersInv
<1>9. EntriesInv'
  BY <1>5, NameFacts DEF IInv, EntriesInv
<1>10. QED
  BY <1>1, <1>4, <1>8, <1>9 DEF IInv, PidsDiffer

\* What a rename leaves: the whole entry under its key, and every other file but
\* the temporary.
LEMMA ReplaceFacts ==
    ASSUME IInv, NEW p \in Processes, Replace(p)
    PROVE  /\ writing[p] \in Storing
           /\ writing' = [writing EXCEPT ![p] = Nothing] /\ pid' = pid /\ found' = found
           /\ DOMAIN file' = (DOMAIN file \ {Temporary(p, writing[p].key)}) \cup {<<writing[p].key>>}
           /\ file'[<<writing[p].key>>] = Whole(writing[p].entry)
           /\ \A n \in DOMAIN file' : n # <<writing[p].key>> => file'[n] = file[n]
<1> DEFINE w == writing[p]
<1> DEFINE t == Temporary(p, w.key)
<1>1. /\ w \in Storing /\ w.part \in 1..3 /\ w.part \notin 1..2
      /\ writing' = [writing EXCEPT ![p] = Nothing] /\ pid' = pid /\ found' = found
      /\ file' = WithFile(Without(t), <<w.key>>, file[t])
  BY DEF Replace, Parts, IInv, Storing
<1>2. file[t] = Written(w.entry, w.part) /\ w.part = 3
  BY <1>1, CacheAssumption DEF IInv, WritersInv
<1>3. file[t] = Whole(w.entry)
  BY <1>2, WrittenFacts
<1>4. QED
  BY <1>1, <1>3 DEF WithFile, Without

LEMMA ReplaceIInv ==
    ASSUME IInv, NEW p \in Processes, Replace(p)
    PROVE  IInv'
<1> DEFINE k == writing[p].key
<1>1. writing' \in [Processes -> {Nothing} \cup Storing]
  BY ReplaceFacts DEF IInv
<1>2. ASSUME NEW q \in Processes, writing'[q] # Nothing
      PROVE  /\ <<writing'[q].key, pid'[q]>> \in DOMAIN file'
             /\ file'[<<writing'[q].key, pid'[q]>>] = Written(writing'[q].entry, writing'[q].part)
  <2>1. q # p
    BY <1>2, ReplaceFacts DEF IInv
  <2>2. writing'[q] = writing[q] /\ pid'[q] = pid[q] /\ writing[q] # Nothing
    BY <1>2, <2>1, ReplaceFacts DEF IInv
  <2>3. <<writing[q].key, pid[q]>> # <<k, pid[p]>> /\ <<writing[q].key, pid[q]>> # <<k>>
    BY <2>1, NameFacts DEF IInv, PidsDiffer
  <2>4. <<writing[q].key, pid[q]>> \in DOMAIN file
    BY <2>2 DEF IInv, WritersInv
  <2>5. <<writing[q].key, pid[q]>> \in DOMAIN file'
    BY <2>3, <2>4, ReplaceFacts
  <2>6. file'[<<writing[q].key, pid[q]>>] = file[<<writing[q].key, pid[q]>>]
    BY <2>3, <2>5, ReplaceFacts
  <2>7. QED
    BY <2>2, <2>5, <2>6 DEF IInv, WritersInv
<1>3. WritersInv'
  BY <1>2 DEF WritersInv
<1>4. ASSUME NEW l \in Keys, <<l>> \in DOMAIN file' PROVE \E e \in Entries : file'[<<l>>] = Whole(e)
  <2>1. CASE l = k
    BY <2>1, ReplaceFacts DEF Storing
  <2>2. CASE l # k
    <3>1. <<l>> # <<k>> /\ <<l>> # <<k, pid[p]>>
      BY <2>2, NameFacts
    <3>2. <<l>> \in DOMAIN file /\ file'[<<l>>] = file[<<l>>]
      BY <1>4, <3>1, ReplaceFacts
    <3>3. QED
      BY <3>2 DEF IInv, EntriesInv
  <2>3. QED
    BY <2>1, <2>2
<1>5. EntriesInv'
  BY <1>4 DEF EntriesInv
<1>6. QED
  BY <1>1, <1>3, <1>5, ReplaceFacts DEF IInv, PidsDiffer

\* What a load finds is an entry or a miss.
LEMMA StoredFacts ==
    ASSUME EntriesInv, NEW k \in Keys
    PROVE  /\ Stored(k) \in {Miss} \cup Entries
           /\ <<k>> \in DOMAIN file => Stored(k) \in Entries
BY DecodedFacts DEF EntriesInv, Stored

LEMMA LoadIInv ==
    ASSUME IInv, NEW p \in Processes, NEW k \in Keys, Load(p, k)
    PROVE  IInv'
<1>1. found' \in [Processes -> {Miss} \cup (Keys \X ({Miss} \cup Entries))]
  BY StoredFacts DEF Load, IInv
<1>2. QED
  BY <1>1 DEF Load, IInv, PidsDiffer, WritersInv, EntriesInv

LEMMA RestartIInv ==
    ASSUME IInv, NEW p \in Processes, Restart(p)
    PROVE  IInv'
<1>1. PICK i \in Pids \ {pid[q] : q \in Processes \ {p}} : pid' = [pid EXCEPT ![p] = i]
  BY DEF Restart
<1>2. writing' = [writing EXCEPT ![p] = Nothing] /\ file' = file /\ found' = found
  BY DEF Restart
<1>3. PidsDiffer'
  BY <1>1 DEF IInv, PidsDiffer
<1>4. \A q \in Processes : writing'[q] # Nothing => q # p /\ writing'[q] = writing[q] /\ pid'[q] = pid[q]
  BY <1>1, <1>2 DEF IInv, PidsDiffer
<1>5. WritersInv'
  BY <1>2, <1>4 DEF IInv, WritersInv
<1>6. QED
  BY <1>2, <1>3, <1>5 DEF IInv, EntriesInv

LEMMA NextIInv == IInv /\ [Next]_vars => IInv'
<1> SUFFICES ASSUME IInv, [Next]_vars PROVE IInv'
  OBVIOUS
<1>1. CASE UNCHANGED vars
  BY <1>1 DEF vars, IInv, PidsDiffer, WritersInv, EntriesInv
<1>2. CASE Next
  BY <1>2, OpenIInv, WritePartIInv, ReplaceIInv, LoadIInv, RestartIInv DEF Next
<1>3. QED
  BY <1>1, <1>2

-----------------------------------------------------------------------------
(* Theorems.                                                               *)

THEOREM CacheInvariant == Spec => []IInv
BY InitIInv, NextIInv, PTL DEF Spec

\* No process ever finds part of an entry, or a mixture of two, under an entry's name.
THEOREM CacheWhole == Spec => []EntriesAreWhole
<1>1. IInv => EntriesAreWhole
  BY StoredFacts, CacheAssumption DEF IInv, EntriesAreWhole
<1>2. QED
  BY <1>1, CacheInvariant, PTL

\* A step that leaves the entries' files alone leaves the entries alone.
LEMMA SameEntries ==
    ASSUME \A k \in Keys : (<<k>> \in DOMAIN file' <=> <<k>> \in DOMAIN file)
                           /\ (<<k>> \in DOMAIN file => file'[<<k>>] = file[<<k>>])
    PROVE  [k \in Keys |-> Stored(k)]' = [k \in Keys |-> Stored(k)]
<1>1. ASSUME NEW k \in Keys PROVE Stored(k)' = Stored(k)
  BY <1>1 DEF Stored, Decoded
<1>2. QED
  BY <1>1

LEMMA OpenKeeps ==
    ASSUME NEW p \in Processes, NEW k \in Keys, NEW e \in Entries, Open(p, k, e)
    PROVE  [l \in Keys |-> Stored(l)]' = [l \in Keys |-> Stored(l)] /\ found' = found
<1>1. found' = found /\ file' = WithFile(file, <<k, pid[p]>>, <<>>)
  BY DEF Open
<1>2. ASSUME NEW l \in Keys
      PROVE  (<<l>> \in DOMAIN file' <=> <<l>> \in DOMAIN file)
             /\ (<<l>> \in DOMAIN file => file'[<<l>>] = file[<<l>>])
  <2>1. <<l>> # <<k, pid[p]>>
    BY NameFacts
  <2>2. QED
    BY <1>1, <2>1 DEF WithFile
<1>3. QED
  BY <1>1, <1>2, SameEntries

LEMMA WritePartKeeps ==
    ASSUME NEW p \in Processes, WritePart(p)
    PROVE  [l \in Keys |-> Stored(l)]' = [l \in Keys |-> Stored(l)] /\ found' = found
<1> DEFINE t == <<writing[p].key, pid[p]>>
<1>1. found' = found /\ file' = [file EXCEPT ![t] = Append(@, Part(writing[p].entry, writing[p].part))]
  BY DEF WritePart
<1>2. ASSUME NEW l \in Keys
      PROVE  (<<l>> \in DOMAIN file' <=> <<l>> \in DOMAIN file)
             /\ (<<l>> \in DOMAIN file => file'[<<l>>] = file[<<l>>])
  <2>1. <<l>> # t
    BY NameFacts
  <2>2. QED
    BY <1>1, <2>1
<1>3. QED
  BY <1>1, <1>2, SameEntries

LEMMA RestartKeeps ==
    ASSUME NEW p \in Processes, Restart(p)
    PROVE  [l \in Keys |-> Stored(l)]' = [l \in Keys |-> Stored(l)] /\ found' = found
<1>1. file' = file /\ found' = found
  BY DEF Restart
<1>2. QED
  BY <1>1, SameEntries

\* The rename puts the whole entry under its key, and no other key changes.
LEMMA ReplacePuts ==
    ASSUME IInv, NEW p \in Processes, Replace(p)
    PROVE  /\ writing[p].key \in Keys /\ writing[p].entry \in Entries
           /\ Promise!Put(writing[p].key, writing[p].entry)
<1> DEFINE k == writing[p].key
<1> DEFINE e == writing[p].entry
<1>1. k \in Keys /\ e \in Entries
  BY ReplaceFacts DEF Storing
<1>2. ASSUME NEW l \in Keys
      PROVE  Stored(l)' = IF l = k THEN e ELSE Stored(l)
  <2>1. CASE l = k
    <3>1. <<l>> \in DOMAIN file' /\ file'[<<l>>] = Whole(e)
      BY <2>1, ReplaceFacts
    <3>2. Stored(l)' = Decoded(Whole(e))
      BY <3>1 DEF Stored, Decoded
    <3>3. QED
      BY <1>1, <2>1, <3>2, DecodedFacts
  <2>2. CASE l # k
    <3>1. <<l>> # <<k>> /\ <<l>> # <<k, pid[p]>>
      BY <2>2, NameFacts
    <3>2. <<l>> \in DOMAIN file' <=> <<l>> \in DOMAIN file
      BY <3>1, ReplaceFacts
    <3>3. <<l>> \in DOMAIN file => file'[<<l>>] = file[<<l>>]
      BY <3>1, <3>2, ReplaceFacts
    <3>4. QED
      BY <2>2, <3>2, <3>3 DEF Stored, Decoded
  <2>3. QED
    BY <2>1, <2>2
<1>3. [l \in Keys |-> Stored(l)]' = [[l \in Keys |-> Stored(l)] EXCEPT ![k] = e]
  BY <1>1, <1>2
<1>4. QED
  BY <1>1, <1>3, ReplaceFacts DEF Promise!Put

LEMMA LoadGets ==
    ASSUME NEW p \in Processes, NEW k \in Keys, Load(p, k)
    PROVE  Promise!Get(p, k)
<1>1. file' = file /\ found' = [found EXCEPT ![p] = <<k, Stored(k)>>]
  BY DEF Load
<1>2. [l \in Keys |-> Stored(l)]' = [l \in Keys |-> Stored(l)]
  BY <1>1, SameEntries
<1>3. QED
  BY <1>1, <1>2 DEF Promise!Get

\* A store is a put of one whole entry, at the rename, and a load is a get: the
\* directory implements the atomic store.
THEOREM CacheAtomic == Spec => PromiseKept
<1>1. Init => Promise!AtomicInit
  BY DEF Init, Promise!AtomicInit, Stored
<1>2. ASSUME IInv, [Next]_vars
      PROVE  [Promise!AtomicNext]_<<[k \in Keys |-> Stored(k)], found>>
  <2>1. CASE UNCHANGED vars
    BY <2>1, SameEntries DEF vars
  <2>2. ASSUME NEW p \in Processes, NEW k \in Keys, Load(p, k)
        PROVE  Promise!AtomicNext
    BY <2>2, LoadGets DEF Promise!AtomicNext
  <2>3. ASSUME NEW p \in Processes, Replace(p)
        PROVE  Promise!AtomicNext
    BY <1>2, <2>3, ReplacePuts DEF Promise!AtomicNext
  <2>4. QED
    BY <1>2, <2>1, <2>2, <2>3, OpenKeeps, WritePartKeeps, RestartKeeps DEF Next
<1>3. QED
  BY <1>1, <1>2, CacheInvariant, PTL DEF Spec, PromiseKept, Promise!AtomicSpec

=============================================================================
