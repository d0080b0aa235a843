----------------------------- MODULE CheckRunProofs -----------------------------
(***************************************************************************)
(* Proofs about checks with a baseline, for any projects, plugins, keys    *)
(* and baselines put in place: what refiners change can be read from the   *)
(* findings, a check reports what is new and hides nothing that was not    *)
(* accepted, a keyed baseline stays keyed, and a check that stops leaves   *)
(* the baseline as it was.                                                 *)
(*                                                                         *)
(* The lemmas follow a finding from the plugin that reports it through the *)
(* refiners (Traces), count what a selection and a partition leave of a    *)
(* sequence, and show that fingerprints tell apart what a baseline can     *)
(* identify; the last sections state the two invariants of a check, IInv   *)
(* of the file and JInv of the findings, and prove the properties.         *)
(***************************************************************************)
EXTENDS CheckRun, Closures, TLAPS

-----------------------------------------------------------------------------
(* Dictionaries and sequences.                                             *)

\* A dictionary with the entries of another has the keys of both.
LEMMA UpdatedFacts ==
    ASSUME NEW entries, NEW more
    PROVE  /\ DOMAIN Updated(entries, more) = DOMAIN entries \cup DOMAIN more
           /\ \A name \in DOMAIN more : Updated(entries, more)[name] = more[name]
           /\ \A name \in DOMAIN entries \ DOMAIN more : Updated(entries, more)[name] = entries[name]
BY DEF Updated

\* A sequence is one of its elements, and with another at its end it is not empty.
LEMMA SequenceFacts ==
    ASSUME NEW s, IsSequence(s)
    PROVE  /\ Len(s) \in Nat /\ DOMAIN s = 1..Len(s)
           /\ \A k \in DOMAIN s : s[k] \in ToSet(s)
           /\ \A x : IsSequence(Append(s, x)) /\ Append(s, x) # <<>>
<1>1. Len(s) \in Nat /\ DOMAIN s = 1..Len(s) /\ \A k \in DOMAIN s : s[k] \in ToSet(s)
  BY DEF IsSequence, ToSet
<1>2. ASSUME NEW x PROVE IsSequence(Append(s, x)) /\ Append(s, x) # <<>>
  <2> DEFINE t == Append(s, x)
             S == ToSet(s) \cup {x}
  <2>1. s \in Seq(S)
    BY <1>1 DEF IsSequence
  <2>2. t \in Seq(S) /\ Len(t) = Len(s) + 1
    BY <2>1
  <2>3. t # <<>>
    BY <1>1, <2>2
  <2>4. t \in Seq(ToSet(t))
    <3>1. \A k \in 1..Len(t) : t[k] \in ToSet(t)
      BY <2>2 DEF ToSet
    <3>2. QED
      BY <2>2, <3>1
  <2>5. QED
    BY <2>3, <2>4 DEF IsSequence
<1>3. QED
  BY <1>1, <1>2

-----------------------------------------------------------------------------
(* What a trace says.                                                      *)

\* What a finding was is read from its trace.
Original(f, name, now) == IF Has(f, name) THEN f.metadata[name] ELSE now
Traces(p, was, f) ==
    /\ IsFinding(f)
    /\ f.rule = was.rule /\ f.path = was.path /\ f.function = was.function /\ f.place = was.place
    /\ \A name \in DOMAIN was.metadata : name \in DOMAIN f.metadata /\ f.metadata[name] = was.metadata[name]
    /\ Adds(p, TraceKeys) \/
          /\ Original(f, "original_severity", f.severity) = was.severity
          /\ Original(f, "original_confidence", f.confidence) = was.confidence
          /\ IsSequence(RefinersOf(f))
          /\ (f.severity # was.severity \/ f.confidence # was.confidence) => RefinersOf(f) # <<>>
    /\ Adds(p, {"advisory"}) \/ (Has(f, "advisory") => Has(was, "advisory"))

\* A finding that is reported tells what it is.
LEMMA SituatedTraces ==
    ASSUME NEW p \in Projects, NEW f \in ToSet(Report(p)) PROVE Traces(p, f, Situated(p, f))
<1> DEFINE g == Situated(p, f)
           M == g.metadata
<1>1. IsFinding(f) /\ DOMAIN f.metadata \cap Stamps = {}
  BY ReportAssumption
<1>2. IsFinding(g) /\ g.rule = f.rule /\ g.path = f.path /\ g.function = f.function /\ g.place = f.place
      /\ g.severity = f.severity /\ g.confidence = f.confidence
  BY <1>1 DEF IsFinding, Finding, Situated
<1>3. /\ DOMAIN M \subseteq DOMAIN f.metadata \cup {"context", "origin"}
      /\ \A name \in DOMAIN f.metadata : name \in DOMAIN M /\ M[name] = f.metadata[name]
  <2>1. CASE f.path \in p.outside
    BY <2>1 DEF Situated
  <2>2. CASE f.path \notin p.outside
    <3> DEFINE inner == Updated(CodeContext(f.path), f.metadata)
    <3>1. M = Updated(inner, CodeOrigin(f.path))
      BY <1>1, <2>2 DEF Situated, IsFinding, Finding
    <3>2. DOMAIN CodeContext(f.path) \subseteq {"context"} /\ DOMAIN CodeOrigin(f.path) \subseteq {"origin"}
      BY DEF CodeContext, CodeOrigin
    <3>3. DOMAIN inner = DOMAIN CodeContext(f.path) \cup DOMAIN f.metadata
          /\ \A name \in DOMAIN f.metadata : inner[name] = f.metadata[name]
      BY DEF Updated
    <3>4. DOMAIN M = DOMAIN inner \cup DOMAIN CodeOrigin(f.path)
          /\ \A name \in DOMAIN inner \ DOMAIN CodeOrigin(f.path) : M[name] = inner[name]
      <4> HIDE DEF inner, M
      <4>1. QED
        BY <3>1, UpdatedFacts
    <3>5. "origin" \notin DOMAIN f.metadata
      BY <1>1 DEF Stamps
    <3> HIDE DEF M, inner
    <3>6. QED
      BY <3>2, <3>3, <3>4, <3>5
  <2>3. QED
    BY <2>1, <2>2
<1> HIDE DEF g
<1>4. ~Has(g, "original_severity") /\ ~Has(g, "original_confidence") /\ ~Has(g, "refined_by")
  BY <1>1, <1>3 DEF Has, Stamps
<1>5. RefinersOf(g) = <<>> /\ IsSequence(<<>>)
  BY <1>4 DEF RefinersOf, IsSequence
<1>6. Has(g, "advisory") => Has(f, "advisory")
  BY <1>3 DEF Has
<1>7. /\ Original(g, "original_severity", g.severity) = f.severity
      /\ Original(g, "original_confidence", g.confidence) = f.confidence
      /\ ~(g.severity # f.severity \/ g.confidence # f.confidence)
      /\ IsSequence(RefinersOf(g))
  BY <1>2, <1>4, <1>5 DEF Original
<1>8. \A name \in DOMAIN f.metadata : name \in DOMAIN g.metadata /\ g.metadata[name] = f.metadata[name]
  BY <1>3
<1>9. Traces(p, f, g)
  BY <1>2, <1>6, <1>7, <1>8 DEF Traces
<1>10. QED
  BY <1>9 DEF g

\* The source of an advisory changes nothing of that.
LEMMA SourcedTraces ==
    ASSUME NEW p, NEW was, NEW f, Traces(p, was, f), DOMAIN was.metadata \cap Stamps = {} PROVE Traces(p, was, Sourced(p, f))
<1> DEFINE g == Sourced(p, f)
           M == g.metadata
<1>1. IsFinding(f)
  BY DEF Traces
<1>2. IsFinding(g) /\ g.rule = f.rule /\ g.path = f.path /\ g.function = f.function /\ g.place = f.place
      /\ g.severity = f.severity /\ g.confidence = f.confidence
  BY <1>1 DEF IsFinding, Finding, Sourced
<1>3. /\ DOMAIN f.metadata \subseteq DOMAIN M /\ DOMAIN M \subseteq DOMAIN f.metadata \cup {"advisory_source"}
      /\ \A name \in DOMAIN f.metadata \ {"advisory_source"} : M[name] = f.metadata[name]
  <2> DEFINE cited == <<MetadataOf(f, "advisory"), MetadataOf(f, "package")>>
             added == [advisory_source |-> p.origins[cited]]
  <2>1. CASE cited \in DOMAIN p.origins
    <3>1. M = Updated(f.metadata, added)
      BY <1>1, <2>1 DEF Sourced, IsFinding, Finding
    <3>2. DOMAIN added = {"advisory_source"}
      OBVIOUS
    <3> HIDE DEF M, added
    <3>3. /\ DOMAIN M = DOMAIN f.metadata \cup DOMAIN added
          /\ \A name \in DOMAIN f.metadata \ DOMAIN added : M[name] = f.metadata[name]
      BY <3>1, UpdatedFacts
    <3>4. QED
      BY <3>2, <3>3
  <2>2. CASE cited \notin DOMAIN p.origins
    BY <2>2 DEF Sourced
  <2>3. QED
    BY <2>1, <2>2
<1> HIDE DEF g
<1>4. \A name \in {"original_severity", "original_confidence", "refined_by", "advisory"} :
         (Has(g, name) <=> Has(f, name)) /\ (Has(f, name) => M[name] = f.metadata[name])
  BY <1>3 DEF Has
<1>5. \A name \in DOMAIN was.metadata : name \in DOMAIN M /\ M[name] = f.metadata[name]
  BY <1>3 DEF Traces, Stamps
<1>6. RefinersOf(g) = RefinersOf(f)
  BY <1>4 DEF RefinersOf
<1>7. Adds(p, TraceKeys) \/
         /\ Original(g, "original_severity", g.severity) = was.severity
         /\ Original(g, "original_confidence", g.confidence) = was.confidence
  BY <1>2, <1>4 DEF Traces, Original
<1>8. \A name \in DOMAIN was.metadata : name \in DOMAIN g.metadata /\ g.metadata[name] = was.metadata[name]
  BY <1>5 DEF Traces
<1>9. Traces(p, was, g)
  BY <1>2, <1>4, <1>6, <1>7, <1>8 DEF Traces
<1>10. QED
  BY <1>9 DEF g

\* Neither does a refiner that keeps its contract: what it changes is traced.
LEMMA TracedTraces ==
    ASSUME NEW p, NEW was, NEW refiner, NEW b, NEW a, Traces(p, was, b), IsFinding(a),
           <<b.rule, b.message, b.path, b.place, b.function>> = <<a.rule, a.message, a.path, a.place, a.function>>,
           \A name \in DOMAIN b.metadata : Has(a, name) /\ a.metadata[name] = b.metadata[name],
           Adds(p, TraceKeys) \/ \A name \in TraceKeys : Has(a, name) => Has(b, name),
           Adds(p, {"advisory"}) \/ (Has(a, "advisory") => Has(b, "advisory")),
           DOMAIN was.metadata \cap Stamps = {}
    PROVE  Traces(p, was, Traced(refiner, b, a))
<1> DEFINE g == Traced(refiner, b, a)
           M == g.metadata
           originals == Restrict(Originals(b), Changed(b, a))
           refined_by == [refined_by |-> Append(RefinersOf(a), refiner)]
<1>1. a.rule = was.rule /\ a.path = was.path /\ a.function = was.function /\ a.place = was.place
  BY DEF Traces
<1>2. IsFinding(g) /\ g.rule = a.rule /\ g.path = a.path /\ g.function = a.function /\ g.place = a.place
      /\ g.severity = a.severity /\ g.confidence = a.confidence
  BY DEF IsFinding, Finding, Traced
<1>3. \A name \in DOMAIN was.metadata : name \in DOMAIN a.metadata /\ a.metadata[name] = was.metadata[name]
  BY DEF Traces, Has
<1>4. Adds(p, {"advisory"}) \/ (Has(a, "advisory") => Has(was, "advisory"))
  BY DEF Traces
<1>5. CASE Changed(b, a) = {}
  <2>1. b.severity = a.severity /\ b.confidence = a.confidence
    BY <1>5 DEF Changed
  <2>2. ASSUME ~Adds(p, TraceKeys) PROVE \A name \in TraceKeys : (Has(a, name) <=> Has(b, name)) /\ (Has(b, name) => a.metadata[name] = b.metadata[name])
    BY <2>2 DEF Has
  <2>3. ASSUME ~Adds(p, TraceKeys) PROVE RefinersOf(a) = RefinersOf(b)
    BY <2>2, <2>3 DEF RefinersOf, TraceKeys
  <2>4. Traces(p, was, a)
    BY <1>1, <1>3, <1>4, <2>1, <2>2, <2>3 DEF Traces, Original, TraceKeys
  <2>5. QED
    BY <1>5, <2>4 DEF Traced
<1>6. CASE Changed(b, a) # {}
  <2> DEFINE inner == Updated(originals, a.metadata)
  <2>1. M = Updated(inner, refined_by)
    BY <1>6 DEF Traced, IsFinding, Finding
  <2>2. DOMAIN originals = Changed(b, a) /\ Changed(b, a) \subseteq {"original_severity", "original_confidence"}
    BY DEF Restrict, Changed
  <2>3. ("original_severity" \in Changed(b, a) <=> b.severity # a.severity)
        /\ ("original_confidence" \in Changed(b, a) <=> b.confidence # a.confidence)
    BY DEF Changed
  <2>4. ("original_severity" \in Changed(b, a) => originals["original_severity"] = b.severity)
        /\ ("original_confidence" \in Changed(b, a) => originals["original_confidence"] = b.confidence)
    BY DEF Restrict, Originals
  <2>5. DOMAIN refined_by = {"refined_by"} /\ refined_by["refined_by"] = Append(RefinersOf(a), refiner)
    OBVIOUS
  <2> HIDE DEF originals, refined_by
  <2>6. /\ DOMAIN inner = Changed(b, a) \cup DOMAIN a.metadata
        /\ \A name \in DOMAIN a.metadata : inner[name] = a.metadata[name]
        /\ \A name \in Changed(b, a) \ DOMAIN a.metadata : inner[name] = originals[name]
    <3>1. /\ DOMAIN inner = DOMAIN originals \cup DOMAIN a.metadata
          /\ \A name \in DOMAIN a.metadata : inner[name] = a.metadata[name]
          /\ \A name \in DOMAIN originals \ DOMAIN a.metadata : inner[name] = originals[name]
      BY UpdatedFacts
    <3>2. QED
      BY <2>2, <3>1
  <2> HIDE DEF inner, g
  <2>7. /\ DOMAIN M = Changed(b, a) \cup DOMAIN a.metadata \cup {"refined_by"}
        /\ \A name \in DOMAIN a.metadata \ {"refined_by"} : M[name] = a.metadata[name]
        /\ \A name \in (Changed(b, a) \ DOMAIN a.metadata) \ {"refined_by"} : M[name] = originals[name]
        /\ M["refined_by"] = Append(RefinersOf(a), refiner)
    <3>1. /\ DOMAIN M = DOMAIN inner \cup DOMAIN refined_by
          /\ \A name \in DOMAIN refined_by : M[name] = refined_by[name]
          /\ \A name \in DOMAIN inner \ DOMAIN refined_by : M[name] = inner[name]
      BY <2>1 DEF Updated
    <3>2. QED
      BY <2>5, <2>6, <3>1
  <2>8. RefinersOf(g) = Append(RefinersOf(a), refiner)
    BY <2>7 DEF RefinersOf, Has
  \* What the trace says, where no refiner writes it.
  <2>9. ASSUME ~Adds(p, TraceKeys)
        PROVE  /\ Original(g, "original_severity", g.severity) = was.severity
               /\ Original(g, "original_confidence", g.confidence) = was.confidence
               /\ IsSequence(RefinersOf(g)) /\ RefinersOf(g) # <<>>
    <3>1. /\ Original(b, "original_severity", b.severity) = was.severity
          /\ Original(b, "original_confidence", b.confidence) = was.confidence
          /\ IsSequence(RefinersOf(b))
      BY <2>9 DEF Traces
    <3>2. \A name \in TraceKeys : (Has(a, name) <=> Has(b, name)) /\ (Has(b, name) => a.metadata[name] = b.metadata[name])
      BY <2>9 DEF Has
    <3>3. \A name \in {"original_severity", "original_confidence", "refined_by"} :
             (Has(a, name) <=> Has(b, name)) /\ (Has(b, name) => a.metadata[name] = b.metadata[name])
      BY <3>2 DEF TraceKeys
    <3>4. RefinersOf(a) = RefinersOf(b)
      BY <3>3 DEF RefinersOf
    <3>5. IsSequence(RefinersOf(g)) /\ RefinersOf(g) # <<>>
      BY <2>8, <3>1, <3>4, SequenceFacts
    <3>6. Original(g, "original_severity", g.severity) = was.severity
      <4>1. CASE Has(a, "original_severity")
        BY <2>7, <3>1, <3>3, <4>1 DEF Original, Has
      <4>2. CASE ~Has(a, "original_severity")
        BY <1>2, <2>3, <2>4, <2>7, <3>1, <3>3, <4>2 DEF Original, Has
      <4>3. QED
        BY <4>1, <4>2
    <3>7. Original(g, "original_confidence", g.confidence) = was.confidence
      <4>1. CASE Has(a, "original_confidence")
        BY <2>7, <3>1, <3>3, <4>1 DEF Original, Has
      <4>2. CASE ~Has(a, "original_confidence")
        BY <1>2, <2>3, <2>4, <2>7, <3>1, <3>3, <4>2 DEF Original, Has
      <4>3. QED
        BY <4>1, <4>2
    <3>8. QED
      BY <3>5, <3>6, <3>7
  <2>10. "refined_by" \notin DOMAIN was.metadata
    BY DEF Stamps
  <2>11. \A name \in DOMAIN was.metadata : name \in DOMAIN M /\ M[name] = was.metadata[name]
    BY <1>3, <2>7, <2>10
  <2>12. Adds(p, {"advisory"}) \/ (Has(g, "advisory") => Has(was, "advisory"))
    BY <1>4, <2>2, <2>7 DEF Has
  <2>13. Traces(p, was, g)
    BY <1>1, <1>2, <2>9, <2>11, <2>12 DEF Traces
  <2>14. QED
    BY <2>13 DEF g
<1>7. QED
  BY <1>5, <1>6

-----------------------------------------------------------------------------
(* What the refiners make of a report.                                     *)

\* A function on the first numbers is a sequence.
LEMMA NumberedIsSequence ==
    ASSUME NEW N \in Nat, NEW s, s = [k \in 1..N |-> s[k]] PROVE IsSequence(s) /\ Len(s) = N
<1>1. \A k \in 1..N : s[k] \in ToSet(s)
  BY DEF ToSet
<1>2. s \in [1..N -> ToSet(s)]
  BY <1>1
<1>3. QED
  BY <1>2 DEF IsSequence

\* The refinements after n refiners of a project.
Refine1(p, so, n) == IF so = <<>> THEN <<>> ELSE ApplyRefinement(p.refiners[n], so[1])
Refines(p, g, N) ==
    g = [n \in 0..N |-> IF n = 0 THEN <<[k \in DOMAIN Report(p) |-> Situated(p, Report(p)[k])]>> ELSE Refine1(p, g[n - 1], n)]

\* There is such a function, so the recursive one is it (plugins/api.py: one refiner after another).
LEMMA RefinesExists == ASSUME NEW p, NEW N \in Nat PROVE \E g : Refines(p, g, N)
<1> DEFINE H == {n \in Nat : \E g : Refines(p, g, n)}
           first == <<[k \in DOMAIN Report(p) |-> Situated(p, Report(p)[k])]>>
<1> HIDE DEF first
<1>1. 0 \in H
  <2>1. Refines(p, [n \in 0..0 |-> first], 0)
    BY DEF Refines, first
  <2>2. QED
    BY <2>1
<1>2. ASSUME NEW n \in 1..N, n - 1 \in H PROVE n \in H
  <2>1. PICK g : Refines(p, g, n - 1)
    BY <1>2
  <2> DEFINE h == [k \in 0..n |-> IF k = n THEN Refine1(p, g[n - 1], n) ELSE g[k]]
  <2>2. g = [k \in 0..(n - 1) |-> IF k = 0 THEN first ELSE Refine1(p, g[k - 1], k)]
    BY <2>1 DEF Refines, first
  <2>3. ASSUME NEW k \in 0..n PROVE h[k] = IF k = 0 THEN first ELSE Refine1(p, h[k - 1], k)
    <3>1. CASE k = 0
      BY <1>2, <2>2, <3>1
    <3>2. CASE k # 0
      <4>1. k - 1 \in 0..n /\ k - 1 # n /\ h[k - 1] = g[k - 1]
        BY <1>2, <3>2
      <4>2. CASE k = n
        BY <3>2, <4>1, <4>2
      <4>3. CASE k # n
        <5>1. k \in 0..(n - 1) /\ h[k] = g[k]
          BY <1>2, <4>3
        <5>2. QED
          BY <2>2, <3>2, <4>1, <5>1
      <4>4. QED
        BY <4>2, <4>3
    <3>3. QED
      BY <3>1, <3>2
  <2> DEFINE whole == [k \in 0..n |-> IF k = 0 THEN first ELSE Refine1(p, h[k - 1], k)]
  <2>4. h = whole
    BY <2>3
  <2> HIDE DEF h
  <2>5. Refines(p, h, n)
    BY <2>4 DEF Refines, first
  <2>6. QED
    BY <1>2, <2>5
<1>3. N \in H
  <2> HIDE DEF H
  <2>1. \A n \in 0..N : n \in H
    BY <1>1, <1>2, UpTo
  <2>2. QED
    BY <2>1
<1>4. QED
  BY <1>3

\* The refinements of a project are what its refiners make of them in order.
LEMMA RefinementsAre == ASSUME NEW p \in Projects PROVE Refines(p, Refinements(p), Len(p.refiners))
<1>1. Len(p.refiners) \in Nat
  BY ReportAssumption, SequenceFacts
<1>2. \E g : Refines(p, g, Len(p.refiners))
  BY <1>1, RefinesExists
<1>3. Refinements(p) = CHOOSE g : Refines(p, g, Len(p.refiners))
  BY DEF Refinements, Refines, Refine1
<1>4. QED
  BY <1>2, <1>3

\* The findings tell what those of a report were, one for one.
Tells(p, findings) ==
    /\ findings = [k \in DOMAIN Report(p) |-> findings[k]]
    /\ \A k \in DOMAIN Report(p) : Traces(p, Report(p)[k], findings[k])

\* A report is numbered, and its findings are as plugins report them.
LEMMA ReportFacts ==
    ASSUME NEW p \in Projects
    PROVE  /\ Len(Report(p)) \in Nat /\ DOMAIN Report(p) = 1..Len(Report(p))
           /\ \A k \in DOMAIN Report(p) : /\ Report(p)[k] \in ToSet(Report(p))
                                         /\ IsFinding(Report(p)[k]) /\ Placed(p, Report(p)[k])
                                         /\ DOMAIN Report(p)[k].metadata \cap Stamps = {}
<1>1. IsSequence(Report(p))
  BY ReportAssumption
<1>2. Len(Report(p)) \in Nat /\ DOMAIN Report(p) = 1..Len(Report(p)) /\ \A k \in DOMAIN Report(p) : Report(p)[k] \in ToSet(Report(p))
  BY <1>1, SequenceFacts
<1>3. QED
  BY <1>2, ReportAssumption

\* Findings that tell a report are numbered as it is.
LEMMA TellingIsNumbered ==
    ASSUME NEW p \in Projects, NEW findings, Tells(p, findings)
    PROVE  IsSequence(findings) /\ Len(findings) = Len(Report(p)) /\ DOMAIN findings = DOMAIN Report(p)
<1>1. findings = [k \in 1..Len(Report(p)) |-> findings[k]] /\ Len(Report(p)) \in Nat /\ DOMAIN Report(p) = 1..Len(Report(p))
  BY ReportFacts DEF Tells
<1>2. IsSequence(findings) /\ Len(findings) = Len(Report(p))
  BY <1>1, NumberedIsSequence
<1>3. DOMAIN findings = DOMAIN Report(p)
  BY DEF Tells
<1>4. QED
  BY <1>2, <1>3

\* A refiner that keeps its contract leaves them telling it.
LEMMA RefinersTell ==
    ASSUME NEW p \in Projects, NEW n \in 1..Len(p.refiners), NEW given, Refinements(p)[n - 1] = <<given>>, Tells(p, given)
    PROVE  LET next == ApplyRefinement(p.refiners[n], given)
           IN  next = <<>> \/ \E findings : next = <<findings>> /\ Tells(p, findings)
<1> DEFINE refiner == p.refiners[n]
           refined == Refine(refiner, given)
           findings == [k \in DOMAIN given |-> Traced(refiner, given[k], refined[k])]
<1>1. CASE BreaksTheContract(given, refined)
  BY <1>1 DEF ApplyRefinement
<1>2. CASE ~BreaksTheContract(given, refined)
  <2>1. n \in DOMAIN p.refiners
    BY ReportAssumption, SequenceFacts
  <2>2. Refinements(p)[n - 1] # <<>> /\ Refinements(p)[n - 1][1] = given
    OBVIOUS
  <2>3. IsSequence(refined) /\ \A k \in DOMAIN refined : IsFinding(refined[k])
    BY <1>2, <2>1, <2>2, RefineAssumption
  <2> DEFINE Leaves(names) == Adds(p, names) \/ \A k \in DOMAIN refined : \A name \in names : Has(refined[k], name) => Has(given[k], name)
  <2>a. Leaves(TraceKeys) /\ Leaves({"advisory"})
    BY <1>2, <2>1, <2>2 DEF Adds
  <2>4. IsSequence(given) /\ DOMAIN given = DOMAIN Report(p)
    BY TellingIsNumbered
  <2>5. Len(given) = Len(refined) /\ \A k \in DOMAIN given :
           /\ <<given[k].rule, given[k].message, given[k].path, given[k].place, given[k].function>>
               = <<refined[k].rule, refined[k].message, refined[k].path, refined[k].place, refined[k].function>>
           /\ \A name \in DOMAIN given[k].metadata : Has(refined[k], name) /\ refined[k].metadata[name] = given[k].metadata[name]
    BY <1>2 DEF BreaksTheContract
  <2>6. DOMAIN refined = DOMAIN given
    BY <2>3, <2>4, <2>5, SequenceFacts
  <2>7. ASSUME NEW k \in DOMAIN Report(p) PROVE Traces(p, Report(p)[k], Traced(refiner, given[k], refined[k]))
    <3> DEFINE was == Report(p)[k]
               b == given[k]
               a == refined[k]
    <3>1. Traces(p, was, b) /\ DOMAIN was.metadata \cap Stamps = {}
      BY ReportFacts DEF Tells
    <3>2. k \in DOMAIN given /\ k \in DOMAIN refined
      BY <2>4, <2>6
    <3>3. /\ IsFinding(a)
          /\ Adds(p, TraceKeys) \/ \A name \in TraceKeys : Has(a, name) => Has(b, name)
          /\ Adds(p, {"advisory"}) \/ (Has(a, "advisory") => Has(b, "advisory"))
      BY <2>3, <2>a, <3>2
    <3>4. <<b.rule, b.message, b.path, b.place, b.function>> = <<a.rule, a.message, a.path, a.place, a.function>>
      BY <2>5, <3>2
    <3>5. \A name \in DOMAIN b.metadata : Has(a, name) /\ a.metadata[name] = b.metadata[name]
      BY <2>5, <3>2
    <3> HIDE DEF was, b, a, refiner, refined
    <3>6. Traces(p, was, Traced(refiner, b, a))
      BY <3>1, <3>3, <3>4, <3>5, TracedTraces
    <3>7. QED
      BY <3>6 DEF was, b, a
  <2>8. Tells(p, findings)
    BY <2>4, <2>7 DEF Tells
  <2>9. ApplyRefinement(refiner, given) = <<findings>>
    BY <1>2 DEF ApplyRefinement
  <2>10. QED
    BY <2>8, <2>9
<1>3. QED
  BY <1>1, <1>2

\* All of them do.
LEMMA RefinementsTell ==
    ASSUME NEW p \in Projects, NEW n \in 0..Len(p.refiners)
    PROVE  Refinements(p)[n] = <<>> \/ \E findings : Refinements(p)[n] = <<findings>> /\ Tells(p, findings)
<1> DEFINE N == Len(p.refiners)
           g == Refinements(p)
           Good(so) == so = <<>> \/ \E findings : so = <<findings>> /\ Tells(p, findings)
           H == {k \in Nat : k <= N => Good(g[k])}
<1>1. N \in Nat
  BY ReportAssumption, SequenceFacts
<1>2. g = [k \in 0..N |-> IF k = 0 THEN <<[j \in DOMAIN Report(p) |-> Situated(p, Report(p)[j])]>> ELSE Refine1(p, g[k - 1], k)]
  <2> HIDE DEF N, g
  <2>1. Refines(p, g, N)
    BY RefinementsAre DEF N, g
  <2>2. QED
    BY <2>1 DEF Refines
<1>3. 0 \in H
  <2> DEFINE findings == [j \in DOMAIN Report(p) |-> Situated(p, Report(p)[j])]
  <2>1. g[0] = <<findings>>
    <3> HIDE DEF g, N
    <3>1. QED
      BY <1>1, <1>2
  <2>2. \A j \in DOMAIN Report(p) : Traces(p, Report(p)[j], findings[j])
    BY ReportFacts, SituatedTraces
  <2>3. Tells(p, findings)
    BY <2>2 DEF Tells
  <2> HIDE DEF g, findings
  <2>4. Good(g[0])
    BY <2>1, <2>3
  <2>5. QED
    BY <2>4
<1>4. ASSUME NEW k \in 1..N, k - 1 \in H PROVE k \in H
  <2>1. Good(g[k - 1])
    BY <1>1, <1>4
  <2>2. g[k] = Refine1(p, g[k - 1], k)
    <3> HIDE DEF g, N
    <3>1. QED
      BY <1>1, <1>2, <1>4
  <2>3. CASE g[k - 1] = <<>>
    BY <2>2, <2>3 DEF Refine1
  <2>4. ASSUME NEW given, g[k - 1] = <<given>>, Tells(p, given) PROVE Good(g[k])
    <3>1. g[k] = ApplyRefinement(p.refiners[k], given)
      BY <2>2, <2>4 DEF Refine1
    <3>2. QED
      BY <2>4, <3>1, RefinersTell
  <2>5. Good(g[k])
    BY <2>1, <2>3, <2>4
  <2> HIDE DEF g
  <2>6. QED
    BY <2>5
<1>5. n \in H
  <2> HIDE DEF H, N, g
  <2>1. \A k \in 0..N : k \in H
    BY <1>1, <1>3, <1>4, UpTo
  <2>2. QED
    BY <2>1 DEF N
<1>6. QED
  BY <1>1, <1>5

\* What is found after all of them tells it too.
LEMMA RefinedTells ==
    ASSUME NEW p \in Projects, RefinedFindings(p) # <<>>
    PROVE  Tells(p, RefinedFindings(p)[1])
<1> DEFINE so == Refinements(p)[Len(p.refiners)]
           findings == [k \in DOMAIN so[1] |-> Sourced(p, so[1][k])]
<1>1. so # <<>> /\ RefinedFindings(p)[1] = findings
  BY DEF RefinedFindings
<1>2. Len(p.refiners) \in 0..Len(p.refiners)
  BY ReportAssumption, SequenceFacts
<1> HIDE DEF so
<1>3. Tells(p, so[1])
  BY <1>1, <1>2, RefinementsTell DEF so
<1>4. DOMAIN so[1] = DOMAIN Report(p)
  BY <1>3 DEF Tells
<1>5. ASSUME NEW k \in DOMAIN Report(p) PROVE Traces(p, Report(p)[k], Sourced(p, so[1][k]))
  <2>1. Traces(p, Report(p)[k], so[1][k]) /\ DOMAIN Report(p)[k].metadata \cap Stamps = {}
    BY <1>3, ReportFacts DEF Tells
  <2>2. QED
    BY <2>1, SourcedTraces
<1>6. Tells(p, findings)
  BY <1>4, <1>5 DEF Tells
<1>7. QED
  BY <1>1, <1>6

-----------------------------------------------------------------------------
(* How many of a sequence lie in a set.                                    *)

Places(s, n, A) == {k \in 1..n : s[k] \in A}
CountTo(s, n, A) == Cardinality(Places(s, n, A))
CountOf(s, A) == CountTo(s, Len(s), A)
One(x, A) == IF x \in A THEN 1 ELSE 0

\* It is a number.
LEMMA CountIsNatural == ASSUME NEW s, NEW n \in Nat, NEW A PROVE IsFiniteSet(Places(s, n, A)) /\ CountTo(s, n, A) \in Nat
<1>1. IsFiniteSet(1..n)
  BY FS_Interval
<1>2. Places(s, n, A) \subseteq 1..n
  BY DEF Places
<1>3. IsFiniteSet(Places(s, n, A))
  BY <1>1, <1>2, FS_Subset
<1>4. QED
  BY <1>3, FS_CardinalityType DEF CountTo

\* Sequences that agree up to a place have as many up to there.
LEMMA CountsAgree ==
    ASSUME NEW s, NEW t, NEW n \in Nat, NEW A, NEW B, \A k \in 1..n : s[k] \in A <=> t[k] \in B
    PROVE  CountTo(s, n, A) = CountTo(t, n, B)
<1>1. Places(s, n, A) = Places(t, n, B)
  BY DEF Places
<1>2. QED
  BY <1>1 DEF CountTo

\* Where none lies in the set, there are none.
LEMMA CountZero ==
    ASSUME NEW s, NEW n \in Nat, NEW A, \A k \in 1..n : s[k] \notin A
    PROVE  CountTo(s, n, A) = 0
<1>1. Places(s, n, A) = {}
  BY DEF Places
<1>2. QED
  BY <1>1, FS_EmptySet DEF CountTo

\* Where one does, there are some.
LEMMA CountSome ==
    ASSUME NEW s, NEW n \in Nat, NEW A, NEW k \in 1..n, s[k] \in A
    PROVE  CountTo(s, n, A) > 0
<1>1. Places(s, n, A) # {}
  BY DEF Places
<1>2. IsFiniteSet(Places(s, n, A)) /\ CountTo(s, n, A) \in Nat
  BY CountIsNatural
<1>3. CountTo(s, n, A) # 0
  BY <1>1, <1>2, FS_EmptySet DEF CountTo
<1>4. QED
  BY <1>2, <1>3

\* Each next one counts once.
LEMMA CountNext ==
    ASSUME NEW s, NEW n \in Nat, n > 0, NEW A
    PROVE  CountTo(s, n, A) = CountTo(s, n - 1, A) + One(s[n], A)
<1> DEFINE S == Places(s, n - 1, A)
           T == Places(s, n, A)
<1>1. n - 1 \in Nat
  OBVIOUS
<1>2. IsFiniteSet(S) /\ CountTo(s, n - 1, A) \in Nat
  BY <1>1, CountIsNatural
<1>3. Cardinality(S) = CountTo(s, n - 1, A) /\ Cardinality(T) = CountTo(s, n, A)
  BY DEF CountTo
<1>4. CASE s[n] \in A
  <2>1. T = S \cup {n} /\ n \notin S
    BY <1>4 DEF Places
  <2> HIDE DEF S, T
  <2>2. Cardinality(T) = Cardinality(S) + 1
    BY <1>2, <2>1, FS_AddElement
  <2>3. QED
    BY <1>3, <1>4, <2>2 DEF One
<1>5. CASE s[n] \notin A
  <2>1. T = S
    BY <1>5 DEF Places
  <2> HIDE DEF S, T
  <2>2. QED
    BY <1>2, <1>3, <1>5, <2>1 DEF One
<1>6. QED
  BY <1>4, <1>5

\* Those in a smaller set are no more.
LEMMA CountsGrow ==
    ASSUME NEW s, NEW t, NEW n \in Nat, NEW A, NEW B, \A k \in 1..n : s[k] \in A => t[k] \in B
    PROVE  CountTo(s, n, A) <= CountTo(t, n, B)
<1> DEFINE S == Places(s, n, A)
           T == Places(t, n, B)
<1>1. S \subseteq T
  BY DEF Places
<1>2. IsFiniteSet(T)
  BY CountIsNatural
<1>3. Cardinality(S) <= Cardinality(T)
  <2> HIDE DEF S, T
  <2>1. QED
    BY <1>1, <1>2, FS_Subset
<1>4. QED
  BY <1>3 DEF CountTo

\* Those in either of two sets without one in common.
LEMMA CountsSplit ==
    ASSUME NEW s, NEW n \in Nat, NEW A, NEW B, \A k \in 1..n : ~(s[k] \in A /\ s[k] \in B)
    PROVE  CountTo(s, n, A \cup B) = CountTo(s, n, A) + CountTo(s, n, B)
<1> DEFINE S == Places(s, n, A)
           T == Places(s, n, B)
           U == Places(s, n, A \cup B)
<1>1. IsFiniteSet(S) /\ IsFiniteSet(T)
  BY CountIsNatural
<1>2. U = S \cup T /\ S \cap T = {}
  BY DEF Places
<1> HIDE DEF S, T, U
<1>3. Cardinality(S \cup T) = Cardinality(S) + Cardinality(T) - Cardinality(S \cap T)
  BY <1>1, FS_Union
<1>4. Cardinality(S \cap T) = 0 /\ Cardinality(S) \in Nat /\ Cardinality(T) \in Nat
  BY <1>1, <1>2, FS_EmptySet, FS_CardinalityType
<1>5. Cardinality(U) = Cardinality(S) + Cardinality(T)
  BY <1>2, <1>3, <1>4
<1>6. QED
  BY <1>5 DEF CountTo, S, T, U

\* One that is appended counts once.
LEMMA CountAppend ==
    ASSUME NEW s, IsSequence(s), NEW x, NEW A
    PROVE  CountOf(Append(s, x), A) = CountOf(s, A) + One(x, A)
<1> DEFINE t == Append(s, x)
           n == Len(s)
<1>1. n \in Nat /\ Len(t) = n + 1 /\ t[n + 1] = x /\ \A k \in 1..n : t[k] = s[k]
  <2>1. s \in Seq(ToSet(s) \cup {x})
    BY DEF IsSequence
  <2>2. QED
    BY <2>1
<1> HIDE DEF t, n
<1>2. CountTo(t, n + 1, A) = CountTo(t, (n + 1) - 1, A) + One(t[n + 1], A)
  BY <1>1, CountNext
<1>3. CountTo(t, n, A) = CountTo(s, n, A)
  BY <1>1, CountsAgree
<1>4. (n + 1) - 1 = n
  BY <1>1
<1>5. QED
  BY <1>1, <1>2, <1>3, <1>4 DEF CountOf, t, n

\* What a bag of fingerprints holds is how often each occurs.
LEMMA BagCounts ==
    ASSUME NEW h, IsSequence(h)
    PROVE  /\ Counts(FingerprintBag(h))
           /\ \A x : Copies(x, FingerprintBag(h)) = CountOf(h, {x})
<1>1. Len(h) \in Nat /\ DOMAIN h = 1..Len(h)
  BY SequenceFacts
<1>2. ASSUME NEW x PROVE Cardinality({k \in DOMAIN h : h[k] = x}) = CountOf(h, {x})
  <2>1. {k \in DOMAIN h : h[k] = x} = Places(h, Len(h), {x})
    BY <1>1 DEF Places
  <2>2. QED
    BY <2>1 DEF CountOf, CountTo
<1>3. ASSUME NEW x PROVE CountOf(h, {x}) \in Nat
  BY <1>1, CountIsNatural DEF CountOf
<1>4. DOMAIN FingerprintBag(h) = ToSet(h) /\ \A x \in ToSet(h) : FingerprintBag(h)[x] = CountOf(h, {x})
  BY <1>2 DEF FingerprintBag
<1>5. ASSUME NEW x, x \notin ToSet(h) PROVE CountOf(h, {x}) = 0
  <2>1. \A k \in 1..Len(h) : h[k] \notin {x}
    BY <1>1, <1>5 DEF ToSet
  <2>2. QED
    BY <1>1, <2>1, CountZero DEF CountOf
<1>6. QED
  BY <1>3, <1>4, <1>5 DEF Counts, Copies

-----------------------------------------------------------------------------
(* The elements of a sequence that lie in a set.                           *)

\* What is appended is one more element.
LEMMA AppendElements ==
    ASSUME NEW s, IsSequence(s), NEW x PROVE ToSet(Append(s, x)) = ToSet(s) \cup {x}
<1> DEFINE t == Append(s, x)
           n == Len(s)
<1>1. n \in Nat /\ DOMAIN s = 1..n /\ DOMAIN t = 1..(n + 1) /\ t[n + 1] = x /\ \A k \in 1..n : t[k] = s[k]
  <2>1. s \in Seq(ToSet(s) \cup {x})
    BY DEF IsSequence
  <2>2. QED
    BY <2>1
<1> HIDE DEF t, n
<1>2. ToSet(t) = ToSet(s) \cup {x}
  BY <1>1 DEF ToSet
<1>3. QED
  BY <1>2 DEF t

\* The elements up to each place.
Select1(s, kept, so, n) == IF s[n] \in kept THEN Append(so, s[n]) ELSE so
Selects(g, s, kept) == g = [n \in 0..Len(s) |-> IF n = 0 THEN <<>> ELSE Select1(s, kept, g[n - 1], n)]

\* There is a selection of the elements up to each place.
LEMMA SelectsExists == ASSUME NEW s, IsSequence(s), NEW kept PROVE \E g : Selects(g, s, kept)
<1> DEFINE S == Seq(ToSet(s))
           L == Len(s)
           F == [n \in 1..L |-> [t \in S |-> Select1(s, kept, t, n)]]
<1>1. L \in Nat /\ \A n \in 1..L : s[n] \in ToSet(s)
  BY SequenceFacts
<1>2. \A n \in 1..L : \A t \in S : Select1(s, kept, t, n) \in S
  <2> HIDE DEF L
  <2>1. QED
    BY <1>1 DEF Select1
<1>3. F \in [1..L -> [S -> S]] /\ <<>> \in S
  BY <1>2
<1>4. \E g \in [0..L -> S] : g[0] = <<>> /\ \A n \in 1..L : g[n] = F[n][g[n - 1]]
  <2> HIDE DEF F, S, L
  <2>1. QED
    BY <1>1, <1>3, StepByStep
<1>5. PICK g \in [0..L -> S] : g[0] = <<>> /\ \A n \in 1..L : g[n] = F[n][g[n - 1]]
  BY <1>4
<1>6. ASSUME NEW n \in 0..L PROVE g[n] = IF n = 0 THEN <<>> ELSE Select1(s, kept, g[n - 1], n)
  <2>1. CASE n = 0
    BY <1>5, <2>1
  <2>2. CASE n # 0
    <3>1. n \in 1..L /\ n - 1 \in 0..L /\ g[n - 1] \in S
      BY <1>1, <1>5, <2>2
    <3>2. g[n] = F[n][g[n - 1]]
      BY <1>5, <3>1
    <3>3. QED
      BY <2>2, <3>1, <3>2
  <2>3. QED
    BY <2>1, <2>2
<1>7. g = [n \in 0..L |-> IF n = 0 THEN <<>> ELSE Select1(s, kept, g[n - 1], n)]
  BY <1>5, <1>6
<1>8. QED
  BY <1>7 DEF Selects

\* They lie in it, and are as many as the sequence has.
LEMMA AmongFacts ==
    ASSUME NEW s, IsSequence(s), NEW kept
    PROVE  LET chosen == Among(s, kept)
           IN  /\ IsSequence(chosen)
               /\ ToSet(chosen) \subseteq ToSet(s) \cap kept
               /\ \A A : CountOf(chosen, A) = CountTo(s, Len(s), A \cap kept)
<1> DEFINE g == CHOOSE h : Selects(h, s, kept)
           L == Len(s)
           Good(n) == /\ IsSequence(g[n])
                      /\ ToSet(g[n]) \subseteq ToSet(s) \cap kept
                      /\ \A A : CountOf(g[n], A) = CountTo(s, n, A \cap kept)
           H == {n \in Nat : n <= L => Good(n)}
<1>1. Among(s, kept) = g[L]
  BY DEF Among, Selects, Select1
<1>2. L \in Nat /\ \A n \in 1..L : s[n] \in ToSet(s)
  BY SequenceFacts
<1>3. Selects(g, s, kept)
  BY SelectsExists
<1> HIDE DEF g
<1>4. g = [n \in 0..L |-> IF n = 0 THEN <<>> ELSE Select1(s, kept, g[n - 1], n)]
  BY <1>3 DEF Selects
<1> HIDE DEF L
<1>5. 0 \in H
  <2>1. g[0] = <<>>
    BY <1>2, <1>4
  <2>2. IsSequence(<<>>) /\ ToSet(<<>>) = {} /\ Len(<<>>) = 0
    BY DEF IsSequence, ToSet
  <2>3. \A A : CountOf(<<>>, A) = 0 /\ CountTo(s, 0, A \cap kept) = 0
    BY <2>2, CountZero DEF CountOf
  <2>4. Good(0)
    BY <2>1, <2>2, <2>3
  <2>5. QED
    BY <2>4
<1>6. ASSUME NEW n \in 1..L, n - 1 \in H PROVE n \in H
  <2> DEFINE t == g[n - 1]
             x == s[n]
  <2>1. Good(n - 1) /\ n \in Nat /\ n > 0 /\ n - 1 \in Nat
    BY <1>2, <1>6
  <2>2. g[n] = Select1(s, kept, t, n)
    BY <1>2, <1>4
  <2>3. IsSequence(t) /\ ToSet(t) \subseteq ToSet(s) \cap kept
    BY <2>1
  <2>4. ASSUME NEW A PROVE CountTo(s, n, A \cap kept) = CountOf(t, A) + One(x, A \cap kept)
    <3>1. CountTo(s, n, A \cap kept) = CountTo(s, n - 1, A \cap kept) + One(x, A \cap kept)
      BY <2>1, CountNext
    <3>2. QED
      BY <2>1, <3>1
  <2>5. \A A : CountOf(t, A) \in Nat
    BY <2>3, SequenceFacts, CountIsNatural DEF CountOf
  <2> HIDE DEF t
  <2>6. CASE x \in kept
    <3>1. g[n] = Append(t, x)
      BY <2>2, <2>6 DEF Select1
    <3>2. IsSequence(g[n]) /\ ToSet(g[n]) \subseteq ToSet(s) \cap kept
      BY <1>2, <2>3, <2>6, <3>1, SequenceFacts, AppendElements
    <3>3. ASSUME NEW A PROVE CountOf(g[n], A) = CountTo(s, n, A \cap kept)
      <4>1. CountOf(Append(t, x), A) = CountOf(t, A) + One(x, A)
        BY <2>3, CountAppend
      <4>2. One(x, A) = One(x, A \cap kept)
        BY <2>6 DEF One
      <4>3. QED
        BY <2>4, <3>1, <4>1, <4>2
    <3>4. QED
      BY <2>1, <3>2, <3>3
  <2>7. CASE x \notin kept
    <3>1. g[n] = t
      BY <2>2, <2>7 DEF Select1
    <3>2. ASSUME NEW A PROVE CountOf(g[n], A) = CountTo(s, n, A \cap kept)
      <4>1. One(x, A \cap kept) = 0
        BY <2>7 DEF One
      <4>2. QED
        BY <2>4, <2>5, <3>1, <4>1
    <3>3. QED
      BY <2>1, <2>3, <3>1, <3>2
  <2>8. QED
    BY <2>6, <2>7
<1>7. L \in H
  <2> HIDE DEF H
  <2>1. \A n \in 0..L : n \in H
    BY <1>2, <1>5, <1>6, UpTo
  <2>2. QED
    BY <1>2, <2>1
<1>8. Good(L)
  BY <1>2, <1>7
<1>9. QED
  BY <1>1, <1>8 DEF L

-----------------------------------------------------------------------------
(* How a baseline accounts for findings.                                   *)

\* The parts of the findings after each of them.
Unparted(d) == [remaining |-> d.entries, new |-> <<>>, baselined |-> <<>>]
Parts(g, p, d, findings, N) == g = [n \in 0..N |-> IF n = 0 THEN Unparted(d) ELSE Taken(p, d, g[n - 1], findings[n])]

\* There is a partition of the findings up to each place.
LEMMA PartsExist == ASSUME NEW p, NEW d, NEW findings, NEW N \in Nat PROVE \E g : Parts(g, p, d, findings, N)
<1> DEFINE H == {n \in Nat : \E g : Parts(g, p, d, findings, n)}
<1>1. 0 \in H
  <2>1. Parts([n \in 0..0 |-> Unparted(d)], p, d, findings, 0)
    BY DEF Parts
  <2>2. QED
    BY <2>1
<1>2. ASSUME NEW n \in 1..N, n - 1 \in H PROVE n \in H
  <2>1. PICK g : Parts(g, p, d, findings, n - 1)
    BY <1>2
  <2> DEFINE h == [k \in 0..n |-> IF k = n THEN Taken(p, d, g[n - 1], findings[n]) ELSE g[k]]
  <2>2. g = [k \in 0..(n - 1) |-> IF k = 0 THEN Unparted(d) ELSE Taken(p, d, g[k - 1], findings[k])]
    BY <2>1 DEF Parts
  <2>3. ASSUME NEW k \in 0..n PROVE h[k] = IF k = 0 THEN Unparted(d) ELSE Taken(p, d, h[k - 1], findings[k])
    <3>1. CASE k = 0
      BY <1>2, <2>2, <3>1
    <3>2. CASE k # 0
      <4>1. k - 1 \in 0..n /\ k - 1 # n /\ h[k - 1] = g[k - 1]
        BY <1>2, <3>2
      <4>2. CASE k = n
        BY <3>2, <4>1, <4>2
      <4>3. CASE k # n
        <5>1. k \in 0..(n - 1) /\ h[k] = g[k]
          BY <1>2, <4>3
        <5>2. QED
          BY <2>2, <3>2, <4>1, <5>1
      <4>4. QED
        BY <4>2, <4>3
    <3>3. QED
      BY <3>1, <3>2
  <2> DEFINE whole == [k \in 0..n |-> IF k = 0 THEN Unparted(d) ELSE Taken(p, d, h[k - 1], findings[k])]
  <2>4. h = whole
    BY <2>3
  <2> HIDE DEF h
  <2>5. Parts(h, p, d, findings, n)
    BY <2>4 DEF Parts
  <2>6. QED
    BY <1>2, <2>5
<1>3. N \in H
  <2> HIDE DEF H
  <2>1. \A n \in 0..N : n \in H
    BY <1>1, <1>2, UpTo
  <2>2. QED
    BY <2>1
<1>4. QED
  BY <1>3

\* Of the findings up to a place, those that are baselined have each taken an entry, and
\* those that are new found none left.
Like(p, d, findings, x) == {f \in ToSet(findings) : FingerprintIn(p, d, f) = x}
Parted(p, d, findings, n, so) ==
    /\ so = [remaining |-> so.remaining, new |-> so.new, baselined |-> so.baselined]
    /\ Counts(so.remaining) /\ IsSequence(so.new) /\ IsSequence(so.baselined)
    /\ ToSet(so.new) \cup ToSet(so.baselined) \subseteq ToSet(findings)
    /\ \A A : CountOf(so.new, A) + CountOf(so.baselined, A) = CountTo(findings, n, A)
    /\ \A f \in ToSet(so.baselined) : FingerprintIn(p, d, f) # Unidentified
    /\ \A x : CountOf(so.baselined, Like(p, d, findings, x)) + Copies(x, so.remaining) = Copies(x, d.entries)
    /\ \A x : x # Unidentified /\ CountOf(so.new, Like(p, d, findings, x)) > 0 => Copies(x, so.remaining) = 0

\* There are as many copies as a number says.
LEMMA CopiesAreNatural == ASSUME NEW bag, Counts(bag), NEW x PROVE Copies(x, bag) \in Nat
BY DEF Counts, Copies

\* Taking one more finding keeps what is parted (findings/baseline.py, the loop of partition).
LEMMA TakenKeeps ==
    ASSUME NEW p, NEW d, NEW findings, NEW n \in Nat, n > 0, findings[n] \in ToSet(findings),
           NEW so, Parted(p, d, findings, n - 1, so)
    PROVE  Parted(p, d, findings, n, Taken(p, d, so, findings[n]))
<1> DEFINE f == findings[n]
           x == FingerprintIn(p, d, f)
           next == Taken(p, d, so, f)
           L(y) == Like(p, d, findings, y)
<1>1. /\ so = [remaining |-> so.remaining, new |-> so.new, baselined |-> so.baselined]
      /\ Counts(so.remaining) /\ IsSequence(so.new) /\ IsSequence(so.baselined)
      /\ ToSet(so.new) \cup ToSet(so.baselined) \subseteq ToSet(findings) /\ f \in ToSet(findings)
  BY DEF Parted
<1>2. \A A : /\ CountOf(so.new, A) \in Nat /\ CountOf(so.baselined, A) \in Nat
             /\ CountTo(findings, n, A) = CountTo(findings, n - 1, A) + One(f, A)
             /\ One(f, A) \in Nat
  BY <1>1, SequenceFacts, CountIsNatural, CountNext DEF CountOf, One
<1>3. \A A : CountOf(so.new, A) + CountOf(so.baselined, A) = CountTo(findings, n - 1, A)
  BY DEF Parted
<1>4. \A A : CountTo(findings, n - 1, A) \in Nat
  BY CountIsNatural
<1>5. \A y : f \in L(y) <=> x = y
  BY DEF Like
<1>6. \A y : CountOf(so.baselined, L(y)) + Copies(y, so.remaining) = Copies(y, d.entries)
  BY DEF Parted
<1>7. \A y : Copies(y, so.remaining) \in Nat
  BY <1>1, CopiesAreNatural
<1> HIDE DEF f
<1>8. CASE x # Unidentified /\ Copies(x, so.remaining) > 0
  <2> DEFINE left == [so.remaining EXCEPT ![x] = @ - 1]
             b == Append(so.baselined, f)
  <2>1. next = [remaining |-> left, new |-> so.new, baselined |-> b]
    <3> HIDE DEF x
    <3>1. next = [so EXCEPT !.remaining[x] = @ - 1, !.baselined = Append(@, f)]
      BY <1>8 DEF Taken, x
    <3>2. QED
      BY <1>1, <3>1
  <2>2. x \in DOMAIN so.remaining /\ so.remaining[x] \in Nat /\ so.remaining[x] > 0
    BY <1>1, <1>8 DEF Copies, Counts
  <2>3. Counts(left) /\ Copies(x, left) = Copies(x, so.remaining) - 1 /\ \A y : y # x => Copies(y, left) = Copies(y, so.remaining)
    <3> HIDE DEF x
    <3>1. DOMAIN left = DOMAIN so.remaining /\ left[x] = so.remaining[x] - 1 /\ \A y \in DOMAIN so.remaining : y # x => left[y] = so.remaining[y]
      BY <2>2
    <3> HIDE DEF left
    <3>2. QED
      BY <1>1, <2>2, <3>1 DEF Counts, Copies
  <2>4. IsSequence(b) /\ ToSet(b) = ToSet(so.baselined) \cup {f}
    BY <1>1, SequenceFacts, AppendElements
  <2>5. \A A : CountOf(b, A) = CountOf(so.baselined, A) + One(f, A)
    BY <1>1, CountAppend
  <2> HIDE DEF left, b, x, next
  <2>6. ASSUME NEW A PROVE CountOf(so.new, A) + CountOf(b, A) = CountTo(findings, n, A)
    BY <1>2, <1>3, <1>4, <2>5
  <2>7. \A g \in ToSet(b) : FingerprintIn(p, d, g) # Unidentified
    BY <1>8, <2>4 DEF Parted, x
  <2>8. ASSUME NEW y PROVE CountOf(b, L(y)) + Copies(y, left) = Copies(y, d.entries)
    <3> HIDE DEF L
    <3>1. CASE y = x
      <4>1. One(f, L(y)) = 1
        BY <1>5, <3>1 DEF One
      <4>2. CountOf(b, L(y)) = CountOf(so.baselined, L(y)) + 1 /\ Copies(y, left) = Copies(y, so.remaining) - 1
        BY <2>3, <2>5, <3>1, <4>1
      <4>3. CountOf(so.baselined, L(y)) \in Nat /\ Copies(y, so.remaining) \in Nat
            /\ CountOf(so.baselined, L(y)) + Copies(y, so.remaining) = Copies(y, d.entries)
        BY <1>2, <1>6, <1>7
      <4>4. QED
        BY <4>2, <4>3
    <3>2. CASE y # x
      <4>1. One(f, L(y)) = 0
        BY <1>5, <3>2 DEF One
      <4>2. CountOf(b, L(y)) = CountOf(so.baselined, L(y)) /\ Copies(y, left) = Copies(y, so.remaining)
        BY <1>2, <2>3, <2>5, <3>2, <4>1
      <4>3. QED
        BY <1>6, <4>2
    <3>3. QED
      BY <3>1, <3>2
  <2>9. ASSUME NEW y, y # Unidentified, CountOf(so.new, L(y)) > 0 PROVE Copies(y, left) = 0
    <3>1. Copies(y, so.remaining) = 0
      BY <2>9 DEF Parted
    <3>2. y # x
      BY <1>8, <3>1
    <3>3. QED
      BY <2>3, <3>1, <3>2
  <2>10. next.remaining = left /\ next.new = so.new /\ next.baselined = b
         /\ next = [remaining |-> next.remaining, new |-> next.new, baselined |-> next.baselined]
    BY <2>1
  <2>11. Parted(p, d, findings, n, next)
    BY <1>1, <2>3, <2>4, <2>6, <2>7, <2>8, <2>9, <2>10 DEF Parted
  <2>12. QED
    BY <2>11 DEF next, f
<1>9. CASE ~(x # Unidentified /\ Copies(x, so.remaining) > 0)
  <2> DEFINE w == Append(so.new, f)
  <2>1. next = [remaining |-> so.remaining, new |-> w, baselined |-> so.baselined]
    <3> HIDE DEF x
    <3>1. next = [so EXCEPT !.new = Append(@, f)]
      BY <1>9 DEF Taken, x
    <3>2. QED
      BY <1>1, <3>1
  <2>2. IsSequence(w) /\ ToSet(w) = ToSet(so.new) \cup {f}
    BY <1>1, SequenceFacts, AppendElements
  <2>3. \A A : CountOf(w, A) = CountOf(so.new, A) + One(f, A)
    BY <1>1, CountAppend
  <2> HIDE DEF w, x, next
  <2>4. ASSUME NEW A PROVE CountOf(w, A) + CountOf(so.baselined, A) = CountTo(findings, n, A)
    BY <1>2, <1>3, <1>4, <2>3
  <2>5. ASSUME NEW y, y # Unidentified, CountOf(w, L(y)) > 0 PROVE Copies(y, so.remaining) = 0
    <3>1. CASE y = x
      BY <1>7, <1>9, <2>5, <3>1
    <3>2. CASE y # x
      <4>1. One(f, L(y)) = 0
        BY <1>5, <3>2 DEF One
      <4>2. CountOf(so.new, L(y)) > 0
        BY <1>2, <2>3, <2>5, <4>1
      <4>3. QED
        BY <2>5, <4>2 DEF Parted
    <3>3. QED
      BY <3>1, <3>2
  <2>6. next.remaining = so.remaining /\ next.new = w /\ next.baselined = so.baselined
         /\ next = [remaining |-> next.remaining, new |-> next.new, baselined |-> next.baselined]
    BY <2>1
  <2>7. \A g \in ToSet(so.baselined) : FingerprintIn(p, d, g) # Unidentified
    BY DEF Parted
  <2>8. Parted(p, d, findings, n, next)
    BY <1>1, <1>6, <2>2, <2>4, <2>5, <2>6, <2>7 DEF Parted
  <2>9. QED
    BY <2>8 DEF next, f
<1>10. QED
  BY <1>8, <1>9

\* So it is with all of them.
LEMMA PartitionFacts ==
    ASSUME NEW p, NEW d, Counts(d.entries), NEW findings, IsSequence(findings)
    PROVE  Parted(p, d, findings, Len(findings), Partition(p, d, findings))
<1> DEFINE L == Len(findings)
           g == CHOOSE h : Parts(h, p, d, findings, L)
           H == {n \in Nat : n <= L => Parted(p, d, findings, n, g[n])}
<1>1. Partition(p, d, findings) = g[L]
  BY DEF Partition, Parts, Unparted
<1>2. L \in Nat /\ \A n \in 1..L : findings[n] \in ToSet(findings)
  BY SequenceFacts
<1> HIDE DEF L
<1>3. Parts(g, p, d, findings, L)
  BY <1>2, PartsExist
<1> HIDE DEF g
<1>4. g = [n \in 0..L |-> IF n = 0 THEN Unparted(d) ELSE Taken(p, d, g[n - 1], findings[n])]
  BY <1>3 DEF Parts
<1>5. 0 \in H
  <2>1. g[0] = Unparted(d)
    BY <1>2, <1>4
  <2> DEFINE so == Unparted(d)
  <2>2. so.remaining = d.entries /\ so.new = <<>> /\ so.baselined = <<>>
        /\ so = [remaining |-> so.remaining, new |-> so.new, baselined |-> so.baselined]
    BY DEF Unparted
  <2>3. IsSequence(<<>>) /\ ToSet(<<>>) = {} /\ Len(<<>>) = 0
    BY DEF IsSequence, ToSet
  <2>4. \A A : CountOf(<<>>, A) = 0 /\ CountTo(findings, 0, A) = 0
    BY <2>3, CountZero DEF CountOf
  <2>5. \A x : Copies(x, d.entries) \in Nat
    BY CopiesAreNatural
  <2> HIDE DEF so
  <2>6. Parted(p, d, findings, 0, so)
    BY <2>2, <2>3, <2>4, <2>5 DEF Parted
  <2>7. QED
    BY <2>1, <2>6 DEF so
<1>6. ASSUME NEW n \in 1..L, n - 1 \in H PROVE n \in H
  <2>1. Parted(p, d, findings, n - 1, g[n - 1]) /\ n \in Nat /\ n > 0
    BY <1>2, <1>6
  <2>2. g[n] = Taken(p, d, g[n - 1], findings[n])
    BY <1>2, <1>4
  <2>3. Parted(p, d, findings, n, Taken(p, d, g[n - 1], findings[n]))
    BY <1>2, <2>1, TakenKeeps
  <2>4. QED
    BY <2>1, <2>2, <2>3
<1>7. L \in H
  <2> HIDE DEF H
  <2>1. \A n \in 0..L : n \in H
    BY <1>2, <1>5, <1>6, UpTo
  <2>2. QED
    BY <1>2, <2>1
<1>8. Parted(p, d, findings, L, g[L])
  BY <1>2, <1>7
<1>9. QED
  BY <1>1, <1>8 DEF L

-----------------------------------------------------------------------------
(* What a fingerprint tells of a finding.                                  *)

Text(p, f) == SubSeq(p.files[f.path], f.place.first, f.place.last)
OnLines(p, f) ==
    /\ f.place.first \in Nat /\ f.place.first > 0 /\ f.place.last \in Nat
    /\ Len(Text(p, f)) = f.place.last - f.place.first + 1 /\ Text(p, f) # <<>>
    /\ Identity(p, f) = <<f.path, f.rule, f.function, <<>>, <<>>, Text(p, f)>>
    /\ SpanText(p, f) = Text(p, f)
AtValue(p, f) ==
    /\ f.place.first = 0 /\ f.place.last = 0
    /\ Identity(p, f) = <<f.path, f.rule, f.function, f.place.pointer, f.place.value, <<>>>>

\* A finding is about a value or on lines, and the text read for it is theirs.
LEMMA PlacesAre == ASSUME NEW p, NEW f, Placed(p, f) PROVE OnLines(p, f) \/ AtValue(p, f)
<1>1. CASE f.place = Value(f.place.pointer, f.place.value)
  <2>1. f.place.first = 0 /\ f.place.last = 0
    BY <1>1 DEF Value
  <2>2. QED
    BY <2>1 DEF AtValue, Identity
<1>2. CASE /\ f.place = Lines(f.place.first, f.place.last)
           /\ IsSequence(p.files[f.path])
           /\ f.place.first \in 1..Len(p.files[f.path])
           /\ f.place.last \in f.place.first..Len(p.files[f.path])
  <2> DEFINE lines == p.files[f.path]
             a == f.place.first
             b == f.place.last
  <2>1. f.place.pointer = <<>> /\ f.place.value = <<>>
    BY <1>2 DEF Lines
  <2>2. lines \in Seq(ToSet(lines)) /\ Len(lines) \in Nat
    BY <1>2 DEF IsSequence
  <2>3. a \in Nat /\ b \in Nat /\ a > 0 /\ a <= b /\ b <= Len(lines)
    BY <1>2, <2>2
  <2>4. Len(SubSeq(lines, a, b)) = b - a + 1 /\ SubSeq(lines, a, b) \in Seq(ToSet(lines))
    <3> HIDE DEF lines, a, b
    <3>1. QED
      BY <2>2, <2>3
  <2>5. SubSeq(lines, a, b) # <<>>
    <3> HIDE DEF lines, a, b
    <3>1. QED
      BY <2>3, <2>4
  <2>6. SpanText(p, f) = SubSeq(lines, a, b)
    <3>1. ~(a > Len(lines)) /\ (IF b < Len(lines) THEN b ELSE Len(lines)) = b
      BY <2>2, <2>3
    <3>2. QED
      BY <3>1 DEF SpanText
  <2>7. Identity(p, f) = <<f.path, f.rule, f.function, <<>>, <<>>, SubSeq(lines, a, b)>>
    BY <2>1, <2>3 DEF Identity
  <2>8. QED
    BY <2>3, <2>4, <2>5, <2>6, <2>7 DEF OnLines, Text
<1>3. QED
  BY <1>1, <1>2 DEF Placed

\* What a fingerprint is.
LEMMA FingerprintsAre ==
    ASSUME NEW p, NEW f, NEW d
    PROVE  /\ (OnLines(p, f) /\ d.schema \notin Legacy) =>
                 FingerprintIn(p, d, f) = <<f.path, f.rule, f.function, <<d.key, Text(p, f)>>, <<>>>>
           /\ (AtValue(p, f) /\ d.schema \notin Legacy) =>
                 FingerprintIn(p, d, f) = <<f.path, f.rule, f.function, <<d.key, f.place.value>>, <<d.key, f.place.pointer>>>>
           /\ (OnLines(p, f) /\ d.schema \in Legacy) =>
                 FingerprintIn(p, d, f) = IF f.place.first = f.place.last
                                         THEN <<f.path, f.rule, f.function, Text(p, f), <<>>>> ELSE Unidentified
           /\ (AtValue(p, f) /\ d.schema \in Legacy) =>
                 FingerprintIn(p, d, f) = <<f.path, f.rule, f.function, <<NoKey, f.place.value>>, f.place.pointer>>
<1> DEFINE text == Text(p, f)
<1> HIDE DEF text
<1>1. \A x, y : Headed(f, x, y) = <<f.path, f.rule, f.function, x, y>>
  BY DEF Headed
<1>2. OnLines(p, f) => Fingerprint(p, f, d.key) = Headed(f, <<d.key, text>>, <<>>)
  BY DEF OnLines, Fingerprint, Digest, text
<1>3. AtValue(p, f) => Fingerprint(p, f, d.key) = Headed(f, <<d.key, f.place.value>>, <<d.key, f.place.pointer>>)
  BY DEF AtValue, Fingerprint, Digest
<1>4. AtValue(p, f) => LegacyFingerprint(p, f) = Headed(f, <<NoKey, f.place.value>>, f.place.pointer)
  BY DEF AtValue, LegacyFingerprint, Digest
<1>5. OnLines(p, f) /\ f.place.first = f.place.last => LegacyFingerprint(p, f) = Headed(f, text, <<>>)
  BY DEF OnLines, LegacyFingerprint, text
<1>6. OnLines(p, f) /\ f.place.first # f.place.last => LegacyFingerprint(p, f) = Unidentified
  BY DEF OnLines, LegacyFingerprint
<1> HIDE DEF NoKey
<1>7. QED
  BY <1>1, <1>2, <1>3, <1>4, <1>5, <1>6 DEF FingerprintIn, text

\* Where a baseline can tell a finding, its fingerprint tells it from every other.
LEMMA FingerprintsTell ==
    ASSUME NEW p, NEW f, Placed(p, f), NEW q, NEW g, Placed(q, g), NEW d, FingerprintIn(p, d, f) # Unidentified
    PROVE  FingerprintIn(p, d, f) = FingerprintIn(q, d, g) <=> Identity(p, f) = Identity(q, g)
<1> DEFINE s == Text(p, f)
           t == Text(q, g)
           x == FingerprintIn(p, d, f)
           y == FingerprintIn(q, d, g)
           i == Identity(p, f)
           j == Identity(q, g)
<1>1. CASE OnLines(p, f) /\ OnLines(q, g)
  <2>1. i = <<f.path, f.rule, f.function, <<>>, <<>>, s>> /\ j = <<g.path, g.rule, g.function, <<>>, <<>>, t>>
        /\ Len(s) = f.place.last - f.place.first + 1 /\ Len(t) = g.place.last - g.place.first + 1
        /\ f.place.first \in Nat /\ f.place.last \in Nat /\ g.place.first \in Nat /\ g.place.last \in Nat
    BY <1>1 DEF OnLines
  <2>2. CASE d.schema \notin Legacy
    <3>1. x = <<f.path, f.rule, f.function, <<d.key, s>>, <<>>>> /\ y = <<g.path, g.rule, g.function, <<d.key, t>>, <<>>>>
      BY <1>1, <2>2, FingerprintsAre
    <3> HIDE DEF x, y, i, j, s, t
    <3>2. x = y <=> i = j
      BY <2>1, <3>1
    <3>3. QED
      BY <3>2 DEF x, y, i, j
  <2>3. CASE d.schema \in Legacy
    <3>1. x = IF f.place.first = f.place.last THEN <<f.path, f.rule, f.function, s, <<>>>> ELSE Unidentified
      BY <1>1, <2>3, FingerprintsAre
    <3>2. y = IF g.place.first = g.place.last THEN <<g.path, g.rule, g.function, t, <<>>>> ELSE Unidentified
      BY <1>1, <2>3, FingerprintsAre
    <3> HIDE DEF x, y, i, j, s, t
    <3>3. x # Unidentified
      BY DEF x
    <3>4. f.place.first = f.place.last /\ x = <<f.path, f.rule, f.function, s, <<>>>> /\ Len(s) = 1
      BY <2>1, <3>1, <3>3
    <3>5. ASSUME g.place.first = g.place.last PROVE x = y <=> i = j
      BY <2>1, <3>2, <3>4, <3>5
    <3>6. ASSUME g.place.first # g.place.last PROVE x # y /\ i # j
      <4>1. Len(t) # 1
        BY <2>1, <3>6
      <4>2. i # j
        BY <2>1, <3>4, <4>1
      <4>3. QED
        BY <3>2, <3>3, <3>6, <4>2
    <3>7. x = y <=> i = j
      BY <3>5, <3>6
    <3>8. QED
      BY <3>7 DEF x, y, i, j
  <2>4. QED
    BY <2>2, <2>3
<1>2. CASE AtValue(p, f) /\ AtValue(q, g)
  <2>1. i = <<f.path, f.rule, f.function, f.place.pointer, f.place.value, <<>>>>
        /\ j = <<g.path, g.rule, g.function, g.place.pointer, g.place.value, <<>>>>
    BY <1>2 DEF AtValue
  <2>2. CASE d.schema \notin Legacy
    <3>1. x = <<f.path, f.rule, f.function, <<d.key, f.place.value>>, <<d.key, f.place.pointer>>>>
          /\ y = <<g.path, g.rule, g.function, <<d.key, g.place.value>>, <<d.key, g.place.pointer>>>>
      BY <1>2, <2>2, FingerprintsAre
    <3> HIDE DEF x, y, i, j
    <3>2. x = y <=> i = j
      BY <2>1, <3>1
    <3>3. QED
      BY <3>2 DEF x, y, i, j
  <2>3. CASE d.schema \in Legacy
    <3>1. x = <<f.path, f.rule, f.function, <<NoKey, f.place.value>>, f.place.pointer>>
          /\ y = <<g.path, g.rule, g.function, <<NoKey, g.place.value>>, g.place.pointer>>
      BY <1>2, <2>3, FingerprintsAre
    <3> HIDE DEF x, y, i, j, NoKey
    <3>2. x = y <=> i = j
      BY <2>1, <3>1
    <3>3. QED
      BY <3>2 DEF x, y, i, j
  <2>4. QED
    BY <2>2, <2>3
<1>3. ASSUME NEW u, NEW h, NEW v, NEW k, OnLines(u, h), AtValue(v, k)
      PROVE  /\ Identity(u, h) # Identity(v, k)
             /\ FingerprintIn(u, d, h) # FingerprintIn(v, d, k)
  <2> DEFINE text == Text(u, h)
  <2>1. Identity(u, h) = <<h.path, h.rule, h.function, <<>>, <<>>, text>> /\ text # <<>>
        /\ Len(text) = h.place.last - h.place.first + 1 /\ h.place.first \in Nat /\ h.place.last \in Nat
    BY <1>3 DEF OnLines
  <2>2. Identity(v, k) = <<k.path, k.rule, k.function, k.place.pointer, k.place.value, <<>>>>
    BY <1>3 DEF AtValue
  <2>3. Identity(u, h) # Identity(v, k)
    <3> HIDE DEF text
    <3>1. QED
      BY <2>1, <2>2
  <2>4. CASE d.schema \notin Legacy
    <3>1. FingerprintIn(u, d, h) = <<h.path, h.rule, h.function, <<d.key, text>>, <<>>>>
          /\ FingerprintIn(v, d, k) = <<k.path, k.rule, k.function, <<d.key, k.place.value>>, <<d.key, k.place.pointer>>>>
      BY <1>3, <2>4, FingerprintsAre
    <3>2. <<d.key, k.place.pointer>> # <<>>
      OBVIOUS
    <3> HIDE DEF text
    <3>3. QED
      BY <2>3, <3>1, <3>2
  <2>5. CASE d.schema \in Legacy
    <3>1. FingerprintIn(u, d, h) = IF h.place.first = h.place.last THEN <<h.path, h.rule, h.function, text, <<>>>> ELSE Unidentified
      BY <1>3, <2>5, FingerprintsAre
    <3>2. FingerprintIn(v, d, k) = <<k.path, k.rule, k.function, <<NoKey, k.place.value>>, k.place.pointer>>
      BY <1>3, <2>5, FingerprintsAre
    <3> HIDE DEF text, NoKey
    <3>3. FingerprintIn(v, d, k) # Unidentified
      BY <3>2 DEF Unidentified
    <3>4. Len(<<NoKey, k.place.value>>) = 2
      OBVIOUS
    <3>5. h.place.first = h.place.last => Len(text) = 1
      BY <2>1
    <3>6. h.place.first = h.place.last => text # <<NoKey, k.place.value>>
      BY <3>4, <3>5
    <3>7. QED
      BY <2>3, <3>1, <3>2, <3>3, <3>6
  <2>6. QED
    BY <2>4, <2>5
<1>4. QED
  BY <1>1, <1>2, <1>3, PlacesAre

-----------------------------------------------------------------------------
(* What is found, and what a baseline makes of it.                         *)

\* A finding is told by what its trace tells.
LEMMA TracesTell ==
    ASSUME NEW p, NEW was, NEW f, Traces(p, was, f)
    PROVE  /\ Identity(p, f) = Identity(p, was)
           /\ \A d : FingerprintIn(p, d, f) = FingerprintIn(p, d, was)
           /\ Placed(p, was) => Placed(p, f)
           /\ \A d : Identifiable(d, f) = Identifiable(d, was)
           /\ Adds(p, {"advisory"}) \/ (Aside(p, f) => Aside(p, was))
<1>1. f.rule = was.rule /\ f.path = was.path /\ f.function = was.function /\ f.place = was.place
  BY DEF Traces
<1>2. Identity(p, f) = Identity(p, was)
  BY <1>1 DEF Identity
<1>3. \A d : FingerprintIn(p, d, f) = FingerprintIn(p, d, was)
  BY <1>1 DEF FingerprintIn, Fingerprint, LegacyFingerprint, Headed, SpanText
<1>4. Placed(p, was) => Placed(p, f)
  BY <1>1 DEF Placed
<1>5. \A d : Identifiable(d, f) = Identifiable(d, was)
  BY <1>1 DEF Identifiable
<1>6. Suppressed(p, f) = Suppressed(p, was)
  BY <1>1 DEF Suppressed
<1>7. Adds(p, {"advisory"}) \/ (Accepts(p, f) => Accepts(p, was))
  BY DEF Accepts, Traces, Has
<1>8. QED
  BY <1>2, <1>3, <1>4, <1>5, <1>6, <1>7 DEF Aside

FoundIn(p) == Kept(p, RefinedFindings(p)[1])

\* What is found is what was reported, and has its place.
LEMMA FoundFacts ==
    ASSUME NEW p \in Projects, RefinedFindings(p) # <<>>
    PROVE  /\ IsSequence(FoundIn(p))
           /\ \A f \in ToSet(FoundIn(p)) : Placed(p, f) /\ \E was \in ToSet(Report(p)) : Traces(p, was, f)
<1> DEFINE refined == RefinedFindings(p)[1]
           K == {f \in ToSet(refined) : ~Aside(p, f)}
<1>1. Tells(p, refined)
  BY RefinedTells
<1> HIDE DEF refined
<1>2. IsSequence(refined) /\ DOMAIN refined = DOMAIN Report(p)
  BY <1>1, TellingIsNumbered
<1>3. FoundIn(p) = Among(refined, K)
  BY DEF FoundIn, Kept, refined
<1>4. IsSequence(FoundIn(p)) /\ ToSet(FoundIn(p)) \subseteq ToSet(refined)
  <2> HIDE DEF K
  <2>1. QED
    BY <1>2, <1>3, AmongFacts
<1>5. ASSUME NEW f \in ToSet(refined) PROVE Placed(p, f) /\ \E was \in ToSet(Report(p)) : Traces(p, was, f)
  <2>1. PICK k \in DOMAIN Report(p) : f = refined[k]
    BY <1>2 DEF ToSet
  <2>2. Report(p)[k] \in ToSet(Report(p)) /\ Placed(p, Report(p)[k])
    BY ReportFacts
  <2>3. Traces(p, Report(p)[k], f)
    BY <1>1, <2>1 DEF Tells
  <2>4. QED
    BY <2>2, <2>3, TracesTell
<1>6. QED
  BY <1>4, <1>5

\* How many findings are the same.
Named(p, S, x) == {f \in S : Identity(p, f) = x}
\* The bag of the identities counts them.
LEMMA IdentitiesCount ==
    ASSUME NEW p, NEW s, IsSequence(s), NEW S, ToSet(s) \subseteq S
    PROVE  /\ Counts(Identities(p, s))
           /\ \A x : Copies(x, Identities(p, s)) = CountOf(s, Named(p, S, x))
<1> DEFINE h == [k \in DOMAIN s |-> Identity(p, s[k])]
<1>1. Len(s) \in Nat /\ DOMAIN s = 1..Len(s) /\ \A k \in DOMAIN s : s[k] \in S
  BY SequenceFacts
<1>2. IsSequence(h) /\ Len(h) = Len(s) /\ \A k \in 1..Len(s) : h[k] = Identity(p, s[k])
  <2>1. h = [k \in 1..Len(s) |-> h[k]] /\ \A k \in 1..Len(s) : h[k] = Identity(p, s[k])
    BY <1>1
  <2> HIDE DEF h
  <2>2. QED
    BY <1>1, <2>1, NumberedIsSequence
<1>3. Identities(p, s) = FingerprintBag(h)
  BY DEF Identities
<1> HIDE DEF h
<1>4. ASSUME NEW x PROVE CountOf(h, {x}) = CountOf(s, Named(p, S, x))
  <2>1. \A k \in 1..Len(s) : h[k] \in {x} <=> s[k] \in Named(p, S, x)
    BY <1>1, <1>2 DEF Named
  <2>2. CountTo(h, Len(s), {x}) = CountTo(s, Len(s), Named(p, S, x))
    BY <1>1, <2>1, CountsAgree
  <2>3. QED
    BY <1>2, <2>2 DEF CountOf
<1>5. Counts(FingerprintBag(h)) /\ \A x : Copies(x, FingerprintBag(h)) = CountOf(h, {x})
  BY <1>2, BagCounts
<1>6. QED
  BY <1>3, <1>4, <1>5

\* A baseline that agrees with what it accepts makes of what is found as many new as it
\* does not accept, where it can tell them.
LEMMA PartitionAgrees ==
    ASSUME NEW p \in Projects, RefinedFindings(p) # <<>>,
           NEW d, d.schema \in Legacy \cup {3, 4}, NEW bag, Agrees(d, bag),
           NEW f \in ToSet(FoundIn(p))
    PROVE  LET found == Identities(p, FoundIn(p))
               x == Identity(p, f)
           IN  Copies(x, Identities(p, Partition(p, d, FoundIn(p)).new)) =
                   Copies(x, found) - IF Identifiable(d, f) THEN Least(Copies(x, found), Copies(x, bag)) ELSE 0
<1> DEFINE found == FoundIn(p)
           S == ToSet(found)
           x == Identity(p, f)
           y == FingerprintIn(p, d, f)
           parted == Partition(p, d, found)
           N == Named(p, S, x)
           n == CountOf(parted.new, N)
           b == CountOf(parted.baselined, N)
           c == CountOf(found, N)
           e == Copies(y, d.entries)
           r == Copies(y, parted.remaining)
           a == Copies(x, bag)
<1>1. IsSequence(found) /\ \A g \in S : Placed(p, g) /\ \E was \in ToSet(Report(p)) : Traces(p, was, g)
  BY FoundFacts
<1>2. Counts(d.entries) /\ Counts(bag)
  BY DEF Agrees
<1> HIDE DEF found
<1>3. Parted(p, d, found, Len(found), parted)
  BY <1>1, <1>2, PartitionFacts
<1> HIDE DEF parted
<1>4. IsSequence(parted.new) /\ IsSequence(parted.baselined) /\ Counts(parted.remaining)
      /\ ToSet(parted.new) \subseteq S /\ ToSet(parted.baselined) \subseteq S
  BY <1>3 DEF Parted
<1>5. n + b = c
  BY <1>3 DEF Parted, CountOf
<1>6. n \in Nat /\ b \in Nat /\ c \in Nat
  BY <1>1, <1>4, SequenceFacts, CountIsNatural DEF CountOf
<1>7. a \in Nat /\ e \in Nat /\ r \in Nat
  BY <1>2, <1>4, CopiesAreNatural
<1>8. Copies(x, Identities(p, parted.new)) = n /\ Copies(x, Identities(p, found)) = c
  <2> HIDE DEF S
  <2>1. Copies(x, Identities(p, parted.new)) = n
    BY <1>4, IdentitiesCount
  <2>2. Copies(x, Identities(p, found)) = c
    BY <1>1, IdentitiesCount DEF S
  <2>3. QED
    BY <2>1, <2>2
<1>9. n = c - IF Identifiable(d, f) THEN Least(c, a) ELSE 0
  <2>1. CASE y # Unidentified
    <3>1. N = Like(p, d, found, y)
      <4>1. \A g \in S : Identity(p, g) = x <=> FingerprintIn(p, d, g) = y
        BY <1>1, <2>1, FingerprintsTell DEF found
      <4>2. QED
        BY <4>1 DEF Named, Like
    <3>2. b + r = e /\ (n > 0 => r = 0)
      BY <1>3, <2>1, <3>1 DEF Parted
    <3>3. e = IF Identifiable(d, f) THEN a ELSE 0
      <4>1. PICK was \in ToSet(Report(p)) : Traces(p, was, f)
        BY <1>1 DEF found
      <4>2. FingerprintIn(p, d, was) = y /\ Identity(p, was) = x /\ Identifiable(d, was) = Identifiable(d, f)
        BY <4>1, TracesTell
      <4>3. LET z == FingerprintIn(p, d, was)
            IN  z # Unidentified =>
                   Copies(z, d.entries) = IF Identifiable(d, was) THEN Copies(Identity(p, was), bag) ELSE 0
        BY <4>1 DEF Agrees
      <4>4. QED
        BY <2>1, <4>2, <4>3
    <3> HIDE DEF n, b, c, e, r, a, x, y, N
    <3>4. CASE Identifiable(d, f)
      <4>1. b + r = a /\ n = c - b
        BY <1>5, <1>6, <1>7, <3>2, <3>3, <3>4
      <4>2. b = Least(c, a)
        BY <1>5, <1>6, <1>7, <3>2, <4>1 DEF Least
      <4>3. QED
        BY <3>4, <4>1, <4>2
    <3>5. CASE ~Identifiable(d, f)
      <4>1. b = 0
        BY <1>6, <1>7, <3>2, <3>3, <3>5
      <4>2. QED
        BY <1>5, <1>6, <3>5, <4>1
    <3>6. QED
      BY <3>4, <3>5
  <2>2. CASE y = Unidentified
    <3>1. ~Identifiable(d, f)
      <4>1. Placed(p, f)
        BY <1>1 DEF found
      <4>2. d.schema \in Legacy /\ f.place.first # f.place.last
        <5>1. OnLines(p, f) \/ AtValue(p, f)
          BY <4>1, PlacesAre
        <5>2. <<>> = Unidentified
          BY DEF Unidentified
        <5>3. \A u, v, w, t, z : <<u, v, w, t, z>> # <<>>
          OBVIOUS
        <5> HIDE DEF NoKey
        <5>4. QED
          BY <2>2, <5>1, <5>2, <5>3, FingerprintsAre
      <4>3. QED
        BY <4>2 DEF Identifiable, Legacy
    <3>2. b = 0
      <4>1. ASSUME NEW g \in S, Identity(p, g) = x PROVE FingerprintIn(p, d, g) = Unidentified
        <5>1. Placed(p, g) /\ Placed(p, f)
          BY <1>1 DEF found
        <5>2. QED
          BY <2>2, <4>1, <5>1, FingerprintsTell
      <4>2. \A g \in ToSet(parted.baselined) : g \notin N
        BY <1>3, <1>4, <4>1 DEF Parted, Named
      <4>3. Len(parted.baselined) \in Nat /\ \A k \in 1..Len(parted.baselined) : parted.baselined[k] \in ToSet(parted.baselined)
        BY <1>4, SequenceFacts
      <4>4. CountTo(parted.baselined, Len(parted.baselined), N) = 0
        <5> HIDE DEF N
        <5>1. QED
          BY <4>2, <4>3, CountZero
      <4>5. QED
        BY <4>4 DEF CountOf
    <3> HIDE DEF n, b, c
    <3>3. QED
      BY <1>5, <1>6, <3>1, <3>2
  <2>3. QED
    BY <2>1, <2>2
<1>10. QED
  BY <1>8, <1>9 DEF parted, found

\* A baseline that is recorded agrees with all it was recorded for.
LEMMA RecordedAgrees ==
    ASSUME NEW p \in Projects, RefinedFindings(p) # <<>>, NEW k
    PROVE  Agrees(BaselineOf(p, FoundIn(p), k), Identities(p, FoundIn(p)))
<1> DEFINE found == FoundIn(p)
           d == BaselineOf(p, found, k)
           bag == Identities(p, found)
           h == [j \in DOMAIN found |-> Fingerprint(p, found[j], k)]
           i == [j \in DOMAIN found |-> Identity(p, found[j])]
<1>1. IsSequence(found) /\ \A f \in ToSet(found) : Placed(p, f)
  BY FoundFacts
<1> HIDE DEF found
<1>2. Len(found) \in Nat /\ DOMAIN found = 1..Len(found) /\ \A j \in DOMAIN found : found[j] \in ToSet(found)
  BY <1>1, SequenceFacts
<1>3. d.schema \in {3, 4} /\ d.schema \notin Legacy /\ d.key = k /\ d.entries = FingerprintBag(h) /\ bag = FingerprintBag(i)
  BY DEF BaselineOf, Identities, Legacy
<1>4. /\ h = [j \in 1..Len(found) |-> h[j]] /\ i = [j \in 1..Len(found) |-> i[j]]
      /\ \A j \in 1..Len(found) : h[j] = Fingerprint(p, found[j], k) /\ i[j] = Identity(p, found[j])
  BY <1>2
<1> HIDE DEF h, i, d, bag
<1>5. IsSequence(h) /\ Len(h) = Len(found) /\ IsSequence(i) /\ Len(i) = Len(found)
  BY <1>2, <1>4, NumberedIsSequence
<1>6. /\ Counts(d.entries) /\ \A x : Copies(x, d.entries) = CountOf(h, {x})
      /\ Counts(bag) /\ \A x : Copies(x, bag) = CountOf(i, {x})
  BY <1>3, <1>5, BagCounts
<1>7. ASSUME NEW q \in Projects, NEW g \in ToSet(Report(q)), FingerprintIn(q, d, g) # Unidentified
      PROVE  Copies(FingerprintIn(q, d, g), d.entries) = Copies(Identity(q, g), bag)
  <2> DEFINE x == FingerprintIn(q, d, g)
             y == Identity(q, g)
  <2>1. Placed(q, g)
    BY ReportAssumption
  <2>2. ASSUME NEW j \in 1..Len(found) PROVE h[j] = x <=> i[j] = y
    <3>1. Placed(p, found[j])
      BY <1>1, <1>2
    <3>2. FingerprintIn(p, d, found[j]) = h[j] /\ Identity(p, found[j]) = i[j]
      BY <1>3, <1>4 DEF FingerprintIn
    <3>3. FingerprintIn(q, d, g) = FingerprintIn(p, d, found[j]) <=> Identity(q, g) = Identity(p, found[j])
      BY <1>7, <2>1, <3>1, FingerprintsTell
    <3>4. QED
      BY <3>2, <3>3
  <2> HIDE DEF x, y
  <2>3. CountTo(h, Len(found), {x}) = CountTo(i, Len(found), {y})
    <3>1. \A j \in 1..Len(found) : h[j] \in {x} <=> i[j] \in {y}
      BY <2>2
    <3>2. QED
      BY <1>2, <3>1, CountsAgree
  <2>4. CountOf(h, {x}) = CountOf(i, {y})
    BY <1>5, <2>3 DEF CountOf
  <2>5. QED
    BY <1>6, <2>4 DEF x, y
<1>8. \A g : Identifiable(d, g)
  BY <1>3 DEF Identifiable
<1>9. Agrees(d, bag)
  BY <1>6, <1>7, <1>8 DEF Agrees
<1>10. QED
  BY <1>9 DEF d, bag, found

\* What is reported and not set aside is found.
LEMMA NotAsideIsFound ==
    ASSUME NEW p \in Projects, RefinedFindings(p) # <<>>, ~Adds(p, {"advisory"}), NEW x
    PROVE  LET all == Identities(p, Report(p))
               aside == Identities(p, Among(Report(p), {f \in ToSet(Report(p)) : Aside(p, f)}))
           IN  /\ Copies(x, all) \in Nat /\ Copies(x, aside) \in Nat
               /\ Copies(x, all) - Copies(x, aside) <= Copies(x, Identities(p, FoundIn(p)))
<1> DEFINE report == Report(p)
           refined == RefinedFindings(p)[1]
           n == Len(report)
           R == ToSet(report)
           F == ToSet(refined)
           A == {f \in R : Aside(p, f)}
           K == {f \in F : ~Aside(p, f)}
           aside == Among(report, A)
           found == Among(refined, K)
           M == Named(p, R, x)
           N == Named(p, F, x)
<1>1. IsSequence(report) /\ n \in Nat /\ DOMAIN report = 1..n /\ \A k \in 1..n : report[k] \in R /\ IsFinding(report[k])
  BY ReportAssumption, ReportFacts
<1>2. Tells(p, refined)
  BY RefinedTells
<1>3. FoundIn(p) = found
  BY DEF FoundIn, Kept
<1> HIDE DEF refined, report
<1>4. IsSequence(refined) /\ Len(refined) = n /\ DOMAIN refined = 1..n /\ \A k \in 1..n : refined[k] \in F
  BY <1>1, <1>2, TellingIsNumbered DEF report, ToSet
<1> HIDE DEF n, A, K
<1>5. IsSequence(aside) /\ ToSet(aside) \subseteq R /\ CountOf(aside, M) = CountTo(report, n, M \cap A)
  BY <1>1, AmongFacts DEF n
<1>6. IsSequence(found) /\ ToSet(found) \subseteq F /\ CountOf(found, N) = CountTo(refined, n, N \cap K)
  BY <1>4, AmongFacts
<1> HIDE DEF aside, found
<1>7. Copies(x, Identities(p, report)) = CountTo(report, n, M)
  <2>1. Copies(x, Identities(p, report)) = CountOf(report, M)
    BY <1>1, IdentitiesCount
  <2>2. QED
    BY <2>1 DEF CountOf, n
<1>8. Copies(x, Identities(p, aside)) = CountTo(report, n, M \cap A)
  BY <1>5, IdentitiesCount
<1>9. Copies(x, Identities(p, found)) = CountTo(refined, n, N \cap K)
  BY <1>6, IdentitiesCount
<1>10. CountTo(report, n, M) = CountTo(report, n, M \cap A) + CountTo(report, n, M \ A)
  <2>1. M = (M \cap A) \cup (M \ A)
    OBVIOUS
  <2>2. CountTo(report, n, (M \cap A) \cup (M \ A)) = CountTo(report, n, M \cap A) + CountTo(report, n, M \ A)
    <3> HIDE DEF M
    <3>1. QED
      BY <1>1, CountsSplit
  <2>3. QED
    BY <2>1, <2>2
<1>11. CountTo(report, n, M \ A) <= CountTo(refined, n, N \cap K)
  <2>1. ASSUME NEW k \in 1..n, report[k] \in M \ A PROVE refined[k] \in N \cap K
    <3>1. Traces(p, report[k], refined[k])
      BY <1>1, <1>2 DEF Tells, report
    <3>2. Identity(p, refined[k]) = Identity(p, report[k]) /\ (Aside(p, refined[k]) => Aside(p, report[k]))
      BY <1>1, <3>1, TracesTell
    <3>3. Identity(p, report[k]) = x /\ ~Aside(p, report[k])
      BY <1>1, <2>1 DEF Named, A
    <3>4. QED
      BY <1>4, <3>2, <3>3 DEF Named, K
  <2> HIDE DEF M, N
  <2>2. QED
    BY <1>1, <2>1, CountsGrow
<1>12. CountTo(report, n, M) \in Nat /\ CountTo(report, n, M \cap A) \in Nat /\ CountTo(report, n, M \ A) \in Nat
       /\ CountTo(refined, n, N \cap K) \in Nat
  BY <1>1, CountIsNatural
<1> HIDE DEF M, N
<1>13. QED
  BY <1>3, <1>7, <1>8, <1>9, <1>10, <1>11, <1>12 DEF report, A, aside

\* A finding that is found counts.
LEMMA FoundCounts ==
    ASSUME NEW p \in Projects, RefinedFindings(p) # <<>>, NEW x
    PROVE  /\ Copies(x, Identities(p, FoundIn(p))) \in Nat
           /\ Copies(x, Identities(p, FoundIn(p))) > 0 => \E f \in ToSet(FoundIn(p)) : Identity(p, f) = x
<1> DEFINE found == FoundIn(p)
           S == ToSet(found)
           N == Named(p, S, x)
<1>1. IsSequence(found)
  BY FoundFacts
<1> HIDE DEF found
<1>2. Copies(x, Identities(p, found)) = CountOf(found, N)
  BY <1>1, IdentitiesCount
<1>3. Len(found) \in Nat /\ CountOf(found, N) \in Nat
  BY <1>1, SequenceFacts, CountIsNatural DEF CountOf
<1>4. ASSUME \A f \in S : Identity(p, f) # x PROVE CountOf(found, N) = 0
  <2>1. N = {}
    BY <1>4 DEF Named
  <2>2. \A k \in 1..Len(found) : found[k] \notin N
    BY <2>1
  <2> HIDE DEF N
  <2>3. QED
    BY <1>3, <2>2, CountZero DEF CountOf
<1>5. QED
  BY <1>2, <1>3, <1>4 DEF found

\* What is new is counted, too.
LEMMA NewCounts ==
    ASSUME NEW p, NEW d, Counts(d.entries), NEW findings, IsSequence(findings), NEW x
    PROVE  Copies(x, Identities(p, Partition(p, d, findings).new)) \in Nat
<1> DEFINE parted == Partition(p, d, findings)
<1>1. IsSequence(parted.new)
  BY PartitionFacts DEF Parted
<1>2. Counts(Identities(p, parted.new))
  BY <1>1, IdentitiesCount
<1>3. QED
  BY <1>2, CopiesAreNatural

-----------------------------------------------------------------------------
(* The two invariants: what a check found and accounted for, and what the  *)
(* file of the baseline holds meanwhile.                                   *)

Whole == {p \in Projects : RefinedFindings(p) # <<>>}
Analysed == {"analysed", "accounted", "rendered", "written", "saved"}
Reported == phase \in {"accounted", "rendered", "written", "saved"} \/ (phase = "ended" /\ status \in {"clean", "findings"})
Found1 == FoundIn(Source)

\* A check analyses a project whose refiners keep their contract; unless it was edited
\* meanwhile, it is the one there is.
Sources ==
    /\ project \in Projects /\ source \in {{}} \cup {{p} : p \in Whole}
    /\ (phase \in Analysed \/ Reported) => source # {}
    /\ ~edited => source \subseteq {project}
\* The baseline agrees with all that is accepted for it.
World == \A bag \in accepted : Agrees(baseline, bag)
\* So does the one that was read, which can be.
Previous ==
    (phase # "idle" /\ ~Recording) =>
        previous.schema \in Legacy \cup {3, 4} /\ \A bag \in allowed : Agrees(previous, bag)
\* What is accounted for is what was found, and what is recorded is all of it.
Results ==
    (Reported /\ ~edited) =>
        IF Recording THEN result = [new |-> <<>>, baselined |-> Found1] /\ document = BaselineOf(Source, Found1, key)
        ELSE result.new = Partition(Source, previous, Found1).new
\* A baseline that was replaced accepts it.
Replaced ==
    (Reported /\ phase \in {"saved", "ended"} /\ Recording /\ ~edited) => allowed = {Identities(Source, Found1)}

JInv == Sources /\ World /\ Previous /\ Results /\ Replaced

Before == {"started", "analysed", "accounted", "rendered", "written"}

Phased == phase \in Before \cup {"idle", "saved", "ended"}
\* Until it replaces the baseline, a check finds it as it was, unless it was moved.
Untouched == (phase \in Before /\ ~moved) => baseline = before
\* A check that records was allowed to record over what it found, and only such a check
\* writes.
Allowed == (phase \in Before /\ Recording) => Recordable(before, key)
Writing == phase \in {"rendered", "written"} => Recording
\* A check that saved left the baseline as it was, or complete.
Saved == (phase = "saved" /\ ~moved) => baseline = before \/ (Recording /\ baseline = document)
\* What a check recorded under a key is keyed.
Recorded == (phase \in {"accounted", "rendered", "written"} /\ Recording) => (Keyed(document) <=> key # NoKey)

IInv == Phased /\ Untouched /\ Allowed /\ Writing /\ Saved /\ Recorded

-----------------------------------------------------------------------------
\* What is recorded under a key is keyed, and nothing else is.
LEMMA RecordedIsKeyed ==
    ASSUME NEW p, NEW findings, NEW k PROVE Keyed(BaselineOf(p, findings, k)) <=> k # NoKey
BY DEF Keyed, BaselineOf

\* A new check may be told to record, or reads the baseline that is there.
LEMMA StartKeeps ==
    ASSUME IInv, NEW file, NEW environment, NEW record, Start(file, environment, record) PROVE IInv'
<1>1. phase' \in {"started", "ended"} /\ status' \in {"none", "error"} /\ before' = baseline' /\ baseline' = baseline
  BY DEF Start, Becomes, Ends, world
<1>2. Allowed'
  <2>1. CASE Recordable(baseline, key') BY <2>1, <1>1 DEF Allowed, Recordable
  <2>2. CASE ~Recordable(baseline, key')
    <3>1. CASE phase' = "ended" BY <3>1 DEF Allowed, Before
    <3>2. CASE phase' # "ended"
      <4>1. ~(record \/ baseline = NoDocument) /\ previous' = baseline BY <2>2, <3>2 DEF Start, Ends
      <4> QED BY <4>1 DEF Allowed, Recording
    <3> QED BY <3>1, <3>2
  <2> QED BY <2>1, <2>2
<1> QED BY <1>1, <1>2 DEF IInv, Phased, Untouched, Writing, Saved, Recorded, Before

\* The steps of a check.
LEMMA StepsKeep ==
    ASSUME IInv, Analyse \/ Account \/ Render \/ Write \/ Replace \/ Fail \/ Die \/ \E threshold \in {0, 3} : Finish(threshold)
    PROVE IInv'
<1> USE DEF IInv, Phased, Untouched, Allowed, Writing, Saved, Recorded, Before, Recording
<1>1. CASE Analyse
  BY <1>1 DEF Analyse, Becomes, Ends, world, inputs, results, changes
<1>2. CASE Account
  <2>1. Recording => (Keyed(document') <=> key' # NoKey) BY <1>2, RecordedIsKeyed DEF Account, inputs
  <2> QED BY <1>2, <2>1 DEF Account, Becomes, world, inputs, changes
<1>3. CASE Render
  BY <1>3 DEF Render, Becomes, world, inputs, results, changes
<1>4. CASE Write
  BY <1>4 DEF Write, Becomes, world, inputs, results, changes
<1>5. CASE Replace
  BY <1>5 DEF Replace, Becomes, inputs, results, changes
<1>6. CASE Fail
  BY <1>6 DEF Fail, Ends, world, inputs, results, changes
<1>7. CASE Die
  BY <1>7 DEF Die, Running, Ends, world, inputs, results, changes
<1>8. ASSUME NEW threshold, Finish(threshold) PROVE IInv'
  BY <1>8 DEF Finish, Ends, world, inputs, results, changes
<1> QED BY <1>1, <1>2, <1>3, <1>4, <1>5, <1>6, <1>7, <1>8

\* What others do.
LEMMA OthersKeep ==
    ASSUME IInv, NEW x, Edit(x) \/ PutInPlace(x) PROVE IInv'
<1> USE DEF IInv, Phased, Untouched, Allowed, Writing, Saved, Recorded, Before, Recording
<1>1. CASE Edit(x) BY <1>1 DEF Edit, Rest, inputs, results
<1>2. CASE PutInPlace(x) BY <1>2 DEF PutInPlace, Rest, inputs, results
<1> QED BY <1>1, <1>2

\* The invariant of checks.
THEOREM CheckInvariant == Spec => []IInv
<1>1. Init => IInv
  BY DEF Init, IInv, Phased, Untouched, Allowed, Writing, Saved, Recorded, Before
<1>2. IInv /\ [Next]_vars => IInv'
  <2> SUFFICES ASSUME IInv, [Next]_vars PROVE IInv' OBVIOUS
  <2>1. CASE UNCHANGED vars
    BY <2>1 DEF vars, world, inputs, results, changes, IInv, Phased, Untouched, Allowed, Writing, Saved, Recorded, Before, Recording
  <2>2. CASE Next
    BY <2>2, StartKeeps, StepsKeep, OthersKeep DEF Next
  <2> QED BY <2>1, <2>2
<1> QED BY <1>1, <1>2, PTL DEF Spec


\* A new check reads the baseline that agrees with what is accepted.
LEMMA StartFinds ==
    ASSUME IInv, JInv, NEW file, NEW environment, NEW record, Start(file, environment, record) PROVE JInv'
<1> USE DEF JInv
<1>1. /\ project' = project /\ baseline' = baseline /\ accepted' = accepted /\ allowed' = accepted
      /\ source' = {} /\ (phase' = "started" \/ (phase' = "ended" /\ status' = "error"))
  BY DEF Start, Becomes, Ends, world
<1>2. ~Reported' /\ phase' \notin Analysed
  BY <1>1 DEF Reported, Analysed
<1>3. Sources'
  BY <1>1, <1>2 DEF Sources
<1>4. World'
  BY <1>1 DEF World
<1>5. ASSUME ~Recording' PROVE previous' = baseline /\ Readable(baseline, key')
  <2> DEFINE records == record \/ baseline = NoDocument
  <2>1. ~records /\ previous' = baseline
    BY <1>5 DEF Start, Recording
  <2>2. Readable(baseline, key')
    BY <1>5, <2>1 DEF Start, Recording
  <2>3. QED
    BY <2>1, <2>2
<1>6. Previous'
  BY <1>1, <1>5 DEF Previous, World, Readable
<1>7. QED
  BY <1>2, <1>3, <1>4, <1>6 DEF Results, Replaced

\* What it analyses is a project of one source.
LEMMA SourceIs == ASSUME Sources, source # {} PROVE Source \in Whole /\ source = {Source}
<1>1. PICK p \in Whole : source = {p}
  BY DEF Sources
<1>2. QED
  BY <1>1 DEF Source

\* It finds and accounts for what the project has.
LEMMA AnalysisFinds ==
    ASSUME IInv, JInv, Analyse \/ Account \/ Render \/ Write PROVE JInv'
<1> USE DEF JInv
<1>1. CASE Analyse
  <2>1. /\ project' = project /\ baseline' = baseline /\ accepted' = accepted /\ allowed' = allowed
        /\ previous' = previous /\ edited' = edited /\ phase = "started"
        /\ \/ source' = {project} /\ RefinedFindings(project) # <<>> /\ phase' = "analysed"
           \/ source' = source /\ phase' = "ended" /\ status' = "traceback"
    BY <1>1 DEF Analyse, Becomes, Ends, world, inputs, changes
  <2>2. ~Reported'
    BY <2>1 DEF Reported
  <2>3. Sources'
    BY <2>1, <2>2 DEF Sources, Whole, Analysed
  <2>4. World' /\ Previous'
    BY <2>1 DEF World, Previous, Recording
  <2>5. QED
    BY <2>2, <2>3, <2>4 DEF Results, Replaced
<1>2. CASE Account
  <2>1. /\ project' = project /\ baseline' = baseline /\ accepted' = accepted /\ allowed' = allowed
        /\ previous' = previous /\ key' = key /\ edited' = edited /\ source' = source
        /\ phase = "analysed" /\ phase' = "accounted" /\ status' = "none"
    BY <1>2 DEF Account, Becomes, world, inputs, changes
  <2>2. Sources' /\ World' /\ Previous'
    BY <2>1 DEF Sources, Analysed, World, Previous, Recording, Reported
  <2>3. Source' = Source /\ Recording' = Recording
    BY <2>1 DEF Source, Recording
  <2>4. ASSUME ~edited PROVE project = Source
    <3>1. source # {}
      BY <2>1 DEF Sources, Analysed
    <3>2. QED
      BY <2>4, <3>1, SourceIs DEF Sources
  <2>5. Found = Found1 /\ Found1' = Found1
    BY <2>3 DEF Found, Found1, FoundIn
  <2>6. ASSUME ~edited, Recording PROVE result' = [new |-> <<>>, baselined |-> Found1] /\ document' = BaselineOf(Source, Found1, key)
    BY <1>2, <2>4, <2>5, <2>6 DEF Account
  <2>7. ASSUME ~edited, ~Recording PROVE result'.new = Partition(Source, previous, Found1).new
    BY <1>2, <2>4, <2>5, <2>7 DEF Account
  <2>8. Results'
    BY <2>1, <2>3, <2>5, <2>6, <2>7 DEF Results
  <2>9. Replaced'
    BY <2>1 DEF Replaced
  <2>10. QED
    BY <2>2, <2>8, <2>9
<1>3. CASE Render \/ Write
  <2>1. /\ UNCHANGED <<project, baseline, accepted, allowed, previous, key, edited, source, result, document>>
        /\ phase \in {"accounted", "rendered"} /\ phase' \in {"rendered", "written", "saved"} /\ status' = "none"
        /\ (phase' = "saved" => ~Recording)
    BY <1>3 DEF Render, Write, Becomes, world, inputs, results, changes
  <2>2. Sources' /\ World' /\ Previous'
    BY <2>1 DEF Sources, Analysed, World, Previous, Recording, Reported
  <2>3. Source' = Source /\ Recording' = Recording /\ Found1' = Found1 /\ Reported
    BY <2>1 DEF Source, Recording, Found1, Reported
  <2>4. Results'
    BY <2>1, <2>3 DEF Results
  <2>5. Replaced'
    BY <2>1, <2>3 DEF Replaced
  <2>6. QED
    BY <2>2, <2>4, <2>5
<1>4. QED
  BY <1>1, <1>2, <1>3

\* What replaces a baseline agrees with all that was found.
LEMMA ReplaceAgrees == ASSUME IInv, JInv, Replace PROVE JInv'
<1> USE DEF JInv
<1>1. /\ UNCHANGED <<project, previous, key, edited, source, result, document>>
      /\ phase = "written" /\ phase' = "saved" /\ status' = "none"
      /\ baseline' = document /\ accepted' = (IF edited THEN {} ELSE {Identities(project, result.baselined)}) /\ allowed' = accepted'
  BY DEF Replace, Becomes, inputs, results, changes
<1>2. Recording
  BY <1>1 DEF IInv, Writing
<1>3. Source' = Source /\ Recording' = Recording /\ Found1' = Found1 /\ Reported
  BY <1>1 DEF Source, Recording, Found1, Reported
<1>4. Source \in Whole /\ source = {Source}
  BY <1>1, SourceIs DEF Sources, Analysed
<1>5. ASSUME ~edited
      PROVE  /\ document = BaselineOf(Source, Found1, key)
             /\ accepted' = {Identities(Source, Found1)}
  <2>1. project = Source
    BY <1>4, <1>5 DEF Sources
  <2>2. result.baselined = Found1 /\ document = BaselineOf(Source, Found1, key)
    BY <1>2, <1>3, <1>5 DEF Results
  <2>3. QED
    BY <1>1, <1>5, <2>1, <2>2
<1>6. Sources'
  BY <1>1 DEF Sources, Analysed, Reported
<1>7. World'
  <2>1. CASE edited
    BY <1>1, <2>1 DEF World
  <2>2. CASE ~edited
    <3>1. Agrees(BaselineOf(Source, Found1, key), Identities(Source, Found1))
      BY <1>4, RecordedAgrees DEF Whole, Found1
    <3>2. QED
      BY <1>1, <1>5, <2>2, <3>1 DEF World
  <2>3. QED
    BY <2>1, <2>2
<1>8. Previous' /\ Results'
  BY <1>1, <1>2, <1>3 DEF Previous, Results
<1>9. Replaced'
  BY <1>1, <1>3, <1>5 DEF Replaced
<1>10. QED
  BY <1>6, <1>7, <1>8, <1>9

\* A check ends with what it accounted for.
LEMMA EndKeeps ==
    ASSUME JInv, Fail \/ Die \/ \E threshold \in {0, 3} : Finish(threshold) PROVE JInv'
<1> USE DEF JInv
<1>1. /\ UNCHANGED <<project, baseline, accepted, allowed, previous, key, edited, source, result, document>>
      /\ phase' = "ended" /\ phase # "idle"
      /\ (status' \in {"clean", "findings"} => phase = "saved")
  <2>1. CASE Fail
    BY <2>1 DEF Fail, Ends, world, inputs, results, changes
  <2>2. CASE Die
    BY <2>2 DEF Die, Running, Ends, world, inputs, results, changes
  <2>3. CASE \E threshold \in {0, 3} : Finish(threshold)
    BY <2>3 DEF Finish, Ends, world, inputs, results, changes
  <2>4. QED
    BY <2>1, <2>2, <2>3
<1>2. Source' = Source /\ Recording' = Recording /\ Found1' = Found1 /\ (Reported' => Reported /\ phase = "saved")
  BY <1>1 DEF Source, Recording, Found1, Reported
<1>3. Sources'
  BY <1>1, <1>2 DEF Sources, Analysed
<1>4. World' /\ Previous'
  BY <1>1, <1>2 DEF World, Previous
<1>5. Results'
  BY <1>1, <1>2 DEF Results
<1>6. Replaced'
  BY <1>1, <1>2 DEF Replaced
<1>7. QED
  BY <1>3, <1>4, <1>5, <1>6

\* What others do between two checks ends what is known of the last, and an edit while one
\* runs is seen.
LEMMA OthersFind ==
    ASSUME JInv, NEW x, (x \in Projects /\ Edit(x)) \/ (x \in Baselines /\ PutInPlace(x)) PROVE JInv'
<1> USE DEF JInv
<1>1. ASSUME Rest PROVE phase' = "idle" /\ source' = {} /\ previous' = NoDocument /\ edited' = FALSE
  BY <1>1 DEF Rest
<1>2. CASE x \in Projects /\ Edit(x)
  <2>1. project' = x /\ baseline' = baseline /\ accepted' = accepted
    BY <1>2 DEF Edit
  <2>2. World'
    BY <2>1 DEF World
  <2>3. CASE ~Running /\ Rest
    BY <1>1, <1>2, <2>1, <2>2, <2>3 DEF Sources, Previous, Results, Replaced, Reported, Analysed
  <2>4. CASE phase = "analysed" /\ edited' = TRUE /\ UNCHANGED <<phase, status, inputs, allowed, results, moved>>
    <3>1. UNCHANGED <<phase, status, previous, allowed, source>> /\ phase = "analysed" /\ edited'
      BY <2>4 DEF inputs, results
    <3>2. Sources'
      BY <1>2, <2>1, <3>1 DEF Sources, Analysed, Reported
    <3>3. Previous'
      BY <3>1 DEF Previous, Recording
    <3>4. QED
      BY <2>2, <3>1, <3>2, <3>3 DEF Results, Replaced
  <2>5. QED
    BY <1>2, <2>3, <2>4 DEF Edit
<1>3. CASE x \in Baselines /\ PutInPlace(x)
  <2>1. project' = project /\ baseline' = x.document /\ accepted' = x.accepted
    BY <1>3 DEF PutInPlace
  <2>2. World'
    BY <1>3, <2>1, BaselinesAssumption DEF World
  <2>3. CASE ~Running /\ Rest
    BY <1>1, <2>1, <2>2, <2>3 DEF Sources, Previous, Results, Replaced, Reported, Analysed
  <2>4. CASE phase = "written" /\ moved' = TRUE /\ UNCHANGED <<phase, status, inputs, allowed, results, edited>>
    <3>1. UNCHANGED <<phase, status, previous, key, allowed, source, result, document, edited>> /\ phase = "written"
      BY <2>4 DEF inputs, results
    <3>2. Sources'
      BY <2>1, <3>1 DEF Sources, Analysed, Reported
    <3>3. Previous'
      BY <3>1 DEF Previous, Recording
    <3>4. Source' = Source /\ Recording' = Recording /\ Found1' = Found1 /\ Reported' = Reported
      BY <3>1 DEF Source, Recording, Found1, Reported
    <3>5. Results'
      BY <3>1, <3>4 DEF Results
    <3>6. Replaced'
      BY <3>1, <3>4 DEF Replaced
    <3>7. QED
      BY <2>2, <3>2, <3>3, <3>5, <3>6
  <2>5. QED
    BY <1>3, <2>3, <2>4 DEF PutInPlace
<1>4. QED
  BY <1>2, <1>3

\* The invariant of findings.
THEOREM FindingsInvariant == Spec => []JInv
<1>1. Init => JInv
  <2> SUFFICES ASSUME Init PROVE JInv
    OBVIOUS
  <2>1. Agrees(NoDocument, EmptyBag)
    BY DEF Agrees, NoDocument, Legacy, Counts, EmptyBag, SetToBag
  <2>2. QED
    BY <2>1 DEF Init, JInv, Sources, World, Previous, Results, Replaced, Reported, Analysed
<1>2. IInv /\ JInv /\ [Next]_vars => JInv'
  <2> SUFFICES ASSUME IInv, JInv, [Next]_vars PROVE JInv'
    OBVIOUS
  <2>1. CASE UNCHANGED vars
    <3>1. UNCHANGED <<project, baseline, accepted, phase, status, key, previous, source, result, document, allowed, edited>>
      BY <2>1 DEF vars, world, inputs, results, changes
    <3>2. Source' = Source /\ Recording' = Recording /\ Found1' = Found1 /\ Reported' = Reported
      BY <3>1 DEF Source, Recording, Found1, Reported
    <3>3. Sources' /\ World' /\ Previous'
      BY <3>1, <3>2 DEF JInv, Sources, World, Previous
    <3>4. Results' /\ Replaced'
      BY <3>1, <3>2 DEF JInv, Results, Replaced
    <3>5. QED
      BY <3>3, <3>4 DEF JInv
  <2>2. CASE Next
    BY <2>2, StartFinds, AnalysisFinds, ReplaceAgrees, EndKeeps, OthersFind DEF Next
  <2>3. QED
    BY <2>1, <2>2
<1>3. QED
  BY <1>1, <1>2, CheckInvariant, PTL DEF Spec

\* Whatever refiners that are not refused make of it, a finding is the one reported; and what
\* they change can be read from it, where none of them writes the trace itself, which
\* RefinementsAreTraced takes for granted and the code does not check (plugins/api.py,
\* apply_refinement).
THEOREM RefinementsTraced == Spec => []RefinementsAreTraced
<1>1. JInv => RefinementsAreTraced
  <2> SUFFICES ASSUME JInv, source # {} PROVE RefinementsAreTraced
    BY DEF RefinementsAreTraced
  <2> DEFINE p == Source
             refined == RefinedFindings(p)[1]
  <2>1. p \in Projects /\ RefinedFindings(p) # <<>>
    BY SourceIs DEF JInv, Whole
  <2> HIDE DEF p
  <2>2. Tells(p, refined)
    BY <2>1, RefinedTells
  <2> HIDE DEF refined
  <2>3. Len(refined) = Len(Report(p)) /\ DOMAIN refined = DOMAIN Report(p)
    BY <2>1, <2>2, TellingIsNumbered
  <2>4. ASSUME NEW k \in DOMAIN refined
        PROVE  LET f == refined[k]
                   was == Report(p)[k]
                   original(name, now) == IF Has(f, name) THEN f.metadata[name] ELSE now
               IN  /\ Identity(p, f) = Identity(p, was)
                   /\ \A name \in DOMAIN was.metadata : f.metadata[name] = was.metadata[name]
                   /\ \/ /\ original("original_severity", f.severity) = was.severity
                         /\ original("original_confidence", f.confidence) = was.confidence
                         /\ <<f.severity, f.confidence>> # <<was.severity, was.confidence>> => RefinersOf(f) # <<>>
                      \/ Adds(p, TraceKeys)
    <3>1. Traces(p, Report(p)[k], refined[k])
      BY <2>2, <2>3 DEF Tells
    <3>2. Identity(p, refined[k]) = Identity(p, Report(p)[k])
      BY <3>1, TracesTell
    <3>3. QED
      BY <3>1, <3>2 DEF Traces, Original
  <2>5. QED
    BY <2>3, <2>4 DEF RefinementsAreTraced, p, refined
<1>2. QED
  BY <1>1, FindingsInvariant, PTL

\* The findings a check accounted for.
LEMMA AccountedNew ==
    ASSUME JInv, Accounted, NEW bag \in allowed, NEW f \in ToSet(Found1)
    PROVE  LET found == Identities(Source, Found1)
               x == Identity(Source, f)
           IN  Copies(x, Identities(Source, result.new)) =
                   Copies(x, found) - IF Recording \/ Identifiable(previous, f) THEN Least(Copies(x, found), Copies(x, bag)) ELSE 0
<1> DEFINE p == Source
           found == Identities(p, Found1)
           x == Identity(p, f)
<1>1. Reported /\ ~edited /\ phase = "ended"
  BY DEF Accounted, Reported
<1>2. p \in Projects /\ RefinedFindings(p) # <<>>
  BY <1>1, SourceIs DEF JInv, Sources, Whole
<1>3. Found1 = FoundIn(p)
  BY DEF Found1
<1> HIDE DEF p
<1>4. CASE Recording
  <2>1. result.new = <<>> /\ bag = found
    BY <1>1, <1>4 DEF JInv, Results, Replaced, p
  <2>2. IsSequence(<<>>) /\ ToSet(<<>>) = {} /\ Len(<<>>) = 0
    BY DEF IsSequence, ToSet
  <2>3. Copies(x, Identities(p, <<>>)) = 0
    <3>1. Copies(x, Identities(p, <<>>)) = CountOf(<<>>, Named(p, {}, x))
      <4> HIDE DEF x
      <4>1. QED
        BY <2>2, IdentitiesCount
    <3>2. QED
      BY <2>2, <3>1, CountZero DEF CountOf
  <2>4. Copies(x, found) \in Nat
    BY <1>2, <1>3, FoundCounts
  <2>5. QED
    BY <1>4, <2>1, <2>3, <2>4 DEF Least, p
<1>5. CASE ~Recording
  <2>1. previous.schema \in Legacy \cup {3, 4} /\ Agrees(previous, bag)
    BY <1>1, <1>5 DEF JInv, Previous
  <2>2. result.new = Partition(p, previous, FoundIn(p)).new
    BY <1>1, <1>3, <1>5 DEF JInv, Results, p
  <2>3. QED
    BY <1>2, <1>3, <1>5, <2>1, <2>2, PartitionAgrees DEF p
<1>6. QED
  BY <1>4, <1>5

\* A check reports exactly the findings that are new, one for one, for any projects and keys,
\* and any baselines put in place that agree with what they accept (findings/baseline.py,
\* Baseline.partition).
THEOREM CheckReportsTheNew == Spec => []ExactlyTheNewAreReported
<1>1. JInv => ExactlyTheNewAreReported
  <2> SUFFICES ASSUME JInv, Accounted, NEW bag \in allowed, NEW k \in DOMAIN Found
               PROVE  LET found == Identities(Source, Found)
                          known(f) == Recording \/ Identifiable(previous, f)
                          new == Identities(Source, result.new)
                          x == Identity(Source, Found[k])
                      IN  Copies(x, new) = Copies(x, found) - IF known(Found[k]) THEN Least(Copies(x, found), Copies(x, bag)) ELSE 0
    BY DEF ExactlyTheNewAreReported
  <2>1. Found = Found1
    BY DEF Found, Found1, FoundIn
  <2>2. Found[k] \in ToSet(Found1)
    BY <2>1 DEF ToSet
  <2>3. QED
    BY <2>1, <2>2, AccountedNew
<1>2. QED
  BY <1>1, FindingsInvariant, PTL

\* No finding of an analysis is lost between its plugins and the report, for any projects and
\* keys, any baselines put in place that agree with what they accept, and any refiners of
\* which none makes a finding one about an advisory, which NothingIsHidden takes for granted
\* and the code does not check (docs/usage.md: a check fails on new findings only).
THEOREM CheckHidesNothing == Spec => []NothingIsHidden
<1>1. JInv => NothingIsHidden
  <2> SUFFICES ASSUME JInv, Accounted, ~Adds(Source, {"advisory"}), NEW bag \in allowed, NEW x
               PROVE  LET all == Identities(Source, Report(Source))
                          aside == Identities(Source, Among(Report(Source), {f \in ToSet(Report(Source)) : Aside(Source, f)}))
                          new == Identities(Source, result.new)
                      IN  Copies(x, all) - Copies(x, aside) - Copies(x, new) <= Copies(x, bag)
    BY DEF NothingIsHidden
  <2> DEFINE p == Source
             a == Copies(x, Identities(p, Report(p)))
             b == Copies(x, Identities(p, Among(Report(p), {f \in ToSet(Report(p)) : Aside(p, f)})))
             c == Copies(x, Identities(p, Found1))
             n == Copies(x, Identities(p, result.new))
             e == Copies(x, bag)
  <2>1. Reported /\ ~edited /\ phase = "ended"
    BY DEF Accounted, Reported
  <2>2. p \in Projects /\ RefinedFindings(p) # <<>> /\ Found1 = FoundIn(p)
    BY <2>1, SourceIs DEF JInv, Sources, Whole, Found1
  <2>3. a \in Nat /\ b \in Nat /\ a - b <= c
    BY <2>2, NotAsideIsFound
  <2>4. c \in Nat
    BY <2>2, FoundCounts
  <2>5. n \in Nat /\ e \in Nat
    <3>1. CASE Recording
      <4>1. result.new = <<>> /\ bag = Identities(p, Found1)
        BY <2>1, <3>1 DEF JInv, Results, Replaced
      <4>2. IsSequence(<<>>)
        BY DEF IsSequence, ToSet
      <4>3. Counts(Identities(p, <<>>)) /\ Counts(bag)
        BY <2>2, <4>1, <4>2, IdentitiesCount, FoundFacts
      <4>4. QED
        BY <4>1, <4>3, CopiesAreNatural
    <3>2. CASE ~Recording
      <4>1. previous.schema \in Legacy \cup {3, 4} /\ Agrees(previous, bag)
        BY <2>1, <3>2 DEF JInv, Previous
      <4>2. Counts(previous.entries) /\ Counts(bag)
        BY <4>1 DEF Agrees
      <4>3. result.new = Partition(p, previous, FoundIn(p)).new /\ IsSequence(FoundIn(p))
        BY <2>1, <2>2, <3>2, FoundFacts DEF JInv, Results
      <4> HIDE DEF p
      <4>4. QED
        BY <4>2, <4>3, NewCounts, CopiesAreNatural
    <3>3. QED
      BY <3>1, <3>2
  <2>6. c - n <= e
    <3>1. CASE c = 0
      BY <2>4, <2>5, <3>1
    <3>2. CASE c # 0
      <4>1. PICK f \in ToSet(Found1) : Identity(p, f) = x
        BY <2>2, <2>4, <3>2, FoundCounts
      <4>2. n = c - IF Recording \/ Identifiable(previous, f) THEN Least(c, e) ELSE 0
        BY <4>1, AccountedNew
      <4> HIDE DEF n, c, e
      <4>3. QED
        BY <2>4, <2>5, <4>2 DEF Least
    <3>3. QED
      BY <3>1, <3>2
  <2> HIDE DEF a, b, c, n, e
  <2>7. a - b - n <= e
    BY <2>3, <2>4, <2>5, <2>6
  <2>8. QED
    BY <2>7 DEF a, b, n, e
<1>2. QED
  BY <1>1, FindingsInvariant, PTL

-----------------------------------------------------------------------------
(* The theorems about the file.                                            *)

\* A check that fails before it recorded, or breaks off, leaves the baseline as it was, and
\* one that is killed as it was or complete, whatever it was doing (cli.py: recorded once
\* the report is rendered).
THEOREM CheckStops == Spec => []StoppedChecksKeepTheBaseline
<1> USE DEF StoppedChecksKeepTheBaseline
<1>1. Init => StoppedChecksKeepTheBaseline BY DEF Init
<1>2. IInv /\ StoppedChecksKeepTheBaseline /\ [Next]_vars => StoppedChecksKeepTheBaseline'
  <2> SUFFICES ASSUME IInv, StoppedChecksKeepTheBaseline, [Next]_vars PROVE StoppedChecksKeepTheBaseline' OBVIOUS
  <2>1. CASE UNCHANGED vars BY <2>1 DEF vars, world, inputs, results, changes, Recording
  <2>2. ASSUME NEW file, NEW environment, NEW record, Start(file, environment, record) PROVE StoppedChecksKeepTheBaseline'
    BY <2>2 DEF Start, Becomes, Ends, world
  <2>3. CASE Analyse BY <2>3 DEF Analyse, Becomes, Ends, world, inputs, changes, IInv, Untouched, Before
  <2>4. CASE Account \/ Render \/ Write \/ Replace BY <2>4 DEF Account, Render, Write, Replace, Becomes
  <2>5. ASSUME NEW threshold, Finish(threshold) PROVE StoppedChecksKeepTheBaseline' BY <2>5 DEF Finish, Ends
  <2>6. CASE Fail BY <2>6 DEF Fail, Ends, world, inputs, results, changes, Recording, IInv, Untouched, Saved, Before
  <2>7. CASE Die BY <2>7 DEF Die, Running, Ends, world, inputs, results, changes, Recording, IInv, Phased, Untouched, Saved, Before
  <2>8. ASSUME NEW x, Edit(x) \/ PutInPlace(x) PROVE StoppedChecksKeepTheBaseline' BY <2>8 DEF Edit, PutInPlace, Rest
  <2> QED BY <2>1, <2>2, <2>3, <2>4, <2>5, <2>6, <2>7, <2>8 DEF Next
<1> QED BY <1>1, <1>2, CheckInvariant, PTL DEF Spec

\* A check without a key leaves a keyed baseline keyed, for any keys and any baselines
\* put in place (findings/baseline.py, ensure_recordable).
THEOREM CheckKeepsKeys == Spec => KeyedStaysKeyed
<1> DEFINE Kept0 == (Keyed(baseline) /\ ~Keyed(baseline') /\ Running) => key # NoKey \/ moved \/ moved'
<1>1. IInv /\ [Next]_vars => [Kept0]_vars
  <2> SUFFICES ASSUME IInv, Next PROVE Kept0 OBVIOUS
  <2>1. CASE Replace
    BY <2>1 DEF Replace, IInv, Untouched, Allowed, Writing, Recorded, Before, Recording, Recordable
  <2>2. ASSUME NEW x, PutInPlace(x) PROVE Kept0
    BY <2>2 DEF PutInPlace
  <2>3. ASSUME baseline' = baseline PROVE Kept0
    BY <2>3 DEF Keyed
  <2>4. ASSUME NEW x, Edit(x) PROVE baseline' = baseline
    BY <2>4 DEF Edit
  <2>5. ASSUME NEW file, NEW environment, NEW record, Start(file, environment, record) PROVE baseline' = baseline
    BY <2>5 DEF Start, world
  <2>6. CASE Analyse \/ Account \/ Render \/ Write \/ Fail \/ Die \/ \E threshold \in {0, 3} : Finish(threshold)
    BY <2>6, <2>3 DEF Analyse, Account, Render, Write, Fail, Die, Finish, world
  <2> QED BY <2>1, <2>2, <2>3, <2>4, <2>5, <2>6 DEF Next
<1> QED BY <1>1, CheckInvariant, PTL DEF KeyedStaysKeyed, Spec
=============================================================================
