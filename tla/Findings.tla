-------------------------------- MODULE Findings --------------------------------
(***************************************************************************)
(* What becomes of the findings of a check: their context, what refiner    *)
(* plugins change of them (plugins/api.py), the policy and the comments    *)
(* that set them aside (dependency/policy.py, findings/suppressions.py),   *)
(* and the baseline that accounts for them (findings/baseline.py).         *)
(***************************************************************************)
EXTENDS Integers, SequencesExt

CONSTANTS
    Report(_),          \* what the plugins report of a project, in order
    Refine(_, _),       \* what a refiner makes of the findings it is given
    TestFiles           \* file names that are those of test modules: test_*.py, *_test.py, conftest.py

\* A project has files of lines by their path from its root, a policy that ignores
\* advisories, the refiners it is checked with, the files that links lead to outside it, and
\* the origins of advisories: the plugin or file each came from, by advisory and package.
\* A comment on a line suppresses rules, or every rule.
Every == "every"
Line(code, comment) == [code |-> code, comment |-> comment]

\* A finding covers lines of a file (one, if no other ends it), or is about a value of a
\* file at no line.
Lines(first, last) == [first |-> first, last |-> last, pointer |-> <<>>, value |-> <<>>]
Value(pointer, value) == [first |-> 0, last |-> 0, pointer |-> pointer, value |-> value]
Finding(rule, path, function, place, severity, confidence, metadata) ==
    [rule |-> rule, path |-> path, function |-> function, place |-> place, message |-> rule,
     severity |-> severity, confidence |-> confidence, metadata |-> metadata]
Rank == [info |-> 0, low |-> 1, medium |-> 2, high |-> 3, critical |-> 4]

\* What a dictionary is with the entries of another.
Updated(entries, more) ==
    [key \in DOMAIN entries \cup DOMAIN more |-> IF key \in DOMAIN more THEN more[key] ELSE entries[key]]
\* Those of a sequence that lie in a set, in their order.
Among(s, kept) ==
    LET upto[n \in 0..Len(s)] ==
            IF n = 0 THEN <<>> ELSE IF s[n] \in kept THEN Append(upto[n - 1], s[n]) ELSE upto[n - 1]
    IN  upto[Len(s)]

\* Paths are sequences of names.
Directories(path) == ToSet(Front(path))
TestDirectories == {"test", "tests", "testing", "fixtures", "__tests__"}
VendoredDirectories == {"third_party", "third-party", "vendor", "vendored"}
IsTestCode(path) == Directories(path) \cap TestDirectories # {} \/ Last(path) \in TestFiles
CodeContext(path) == IF IsTestCode(path) THEN [context |-> "test"] ELSE <<>>
CodeOrigin(path) == IF Directories(path) \cap VendoredDirectories # {} THEN [origin |-> "vendored"] ELSE <<>>

Has(f, key) == key \in DOMAIN f.metadata
\* The context of its code, unless the rule gave it one, and its origin.
Situated(p, f) ==
    IF f.path \in p.outside THEN f
    ELSE [f EXCEPT !.metadata = Updated(Updated(CodeContext(f.path), @), CodeOrigin(f.path))]
\* With the plugin or the file that its advisory comes from.
MetadataOf(f, key) == IF Has(f, key) THEN f.metadata[key] ELSE ""
Sourced(p, f) ==
    LET cited == <<MetadataOf(f, "advisory"), MetadataOf(f, "package")>>
    IN  IF cited \in DOMAIN p.origins THEN [f EXCEPT !.metadata = Updated(@, [advisory_source |-> p.origins[cited]])] ELSE f

-----------------------------------------------------------------------------
(* Refinement: a refiner may change the severity and the confidence of     *)
(* findings, and add metadata; the trace says what they were, and who.     *)

BreaksTheContract(before, after) ==
    \/ Len(before) # Len(after)
    \/ \E k \in DOMAIN before :
          LET b == before[k]
              a == after[k]
          IN  \/ <<b.rule, b.message, b.path, b.place, b.function>> # <<a.rule, a.message, a.path, a.place, a.function>>
              \/ \E key \in DOMAIN b.metadata : ~Has(a, key) \/ a.metadata[key] # b.metadata[key]

Changed(b, a) == (IF b.severity # a.severity THEN {"original_severity"} ELSE {})
                    \cup (IF b.confidence # a.confidence THEN {"original_confidence"} ELSE {})
Originals(f) == [original_severity |-> f.severity, original_confidence |-> f.confidence]
RefinersOf(f) == IF Has(f, "refined_by") THEN f.metadata.refined_by ELSE <<>>
\* With what the last refiner found as the original.
TracedAgain(refiner, b, a) ==
    [a EXCEPT !.metadata = Updated(Updated(@, Restrict(Originals(b), Changed(b, a))), [refined_by |-> Append(RefinersOf(a), refiner)])]
\* What a trace says already is kept.
Traced(refiner, b, a) ==
    IF Changed(b, a) = {} THEN a
    ELSE [a EXCEPT !.metadata = Updated(Updated(Restrict(Originals(b), Changed(b, a)), @), [refined_by |-> Append(RefinersOf(a), refiner)])]

\* The findings after every refiner, in a sequence of one; none when one breaks the contract.
\* A refiner finds their contexts, and not their sources.
ApplyRefinement(refiner, findings) ==
    LET refined == Refine(refiner, findings)
    IN  IF BreaksTheContract(findings, refined) THEN <<>>
        ELSE <<[k \in DOMAIN findings |-> Traced(refiner, findings[k], refined[k])]>>
Refinements(p) ==
    LET reported == Report(p)
        after[n \in 0..Len(p.refiners)] ==
            IF n = 0 THEN <<[k \in DOMAIN reported |-> Situated(p, reported[k])]>>
            ELSE LET so == after[n - 1]
                 IN  IF so = <<>> THEN <<>> ELSE ApplyRefinement(p.refiners[n], so[1])
    IN  after
RefinedFindings(p) ==
    LET refined == Refinements(p)[Len(p.refiners)]
    IN  IF refined = <<>> THEN <<>> ELSE <<[k \in DOMAIN refined[1] |-> Sourced(p, refined[1][k])]>>

-----------------------------------------------------------------------------
(* What the project sets aside.                                            *)

Accepts(p, f) == Has(f, "advisory") /\ f.metadata.advisory \in p.ignored

\* A comment suppresses the findings that start on its line.
CommentAt(p, path, line) == IF line \in DOMAIN p.files[path] THEN p.files[path][line].comment ELSE {}
Suppressed(p, f) == f.place.first > 0 /\ {Every, f.rule} \cap CommentAt(p, f.path, f.place.first) # {}

Aside(p, f) == Accepts(p, f) \/ Suppressed(p, f)
Kept(p, findings) == Among(findings, {f \in ToSet(findings) : ~Aside(p, f)})

-----------------------------------------------------------------------------
(* Baselines: the fingerprints of accepted findings, counted.  Schemas 1   *)
(* and 2 hold the text of a first line, 3 digests, and 4 digests under a   *)
(* key.                                                                    *)

NoKey == "no key"
Digest(key, text) == <<key, text>>

\* Without the lines after the first.
FirstLine(p, f) == IF f.place.first > Len(p.files[f.path]) THEN <<>> ELSE <<p.files[f.path][f.place.first]>>
\* The text a finding covers is read from the file again: the number of its line, where
\* the file does not reach it.
SpanText(p, f) ==
    LET lines == p.files[f.path]
    IN  IF f.place.first > Len(lines) THEN <<Line(ToString(f.place.first), {})>>
        ELSE SubSeq(lines, f.place.first, IF f.place.last < Len(lines) THEN f.place.last ELSE Len(lines))
Headed(f, text, pointer) == <<f.path, f.rule, f.function, text, pointer>>
Fingerprint(p, f, key) ==
    IF f.place.first > 0 THEN Headed(f, Digest(key, SpanText(p, f)), <<>>)
    ELSE Headed(f, Digest(key, f.place.value), Digest(key, f.place.pointer))
\* None for a finding over several lines.
Unidentified == <<>>
LegacyFingerprint(p, f) ==
    CASE f.place.first = 0 -> Headed(f, Digest(NoKey, f.place.value), f.place.pointer)
      [] f.place.first > 0 /\ f.place.first = f.place.last -> Headed(f, SpanText(p, f), <<>>)
      [] OTHER -> Unidentified

Unreadable == [schema |-> 0, key |-> NoKey, entries |-> EmptyBag]
Legacy == {1, 2}
Keyed(document) == document.schema = 4
FingerprintBag(fingerprints) ==
    [x \in ToSet(fingerprints) |-> Cardinality({k \in DOMAIN fingerprints : fingerprints[k] = x})]
Copies(x, bag) == IF x \in DOMAIN bag THEN bag[x] ELSE 0
BaselineOf(p, findings, key) ==
    [schema |-> IF key = NoKey THEN 3 ELSE 4, key |-> key,
     entries |-> FingerprintBag([k \in DOMAIN findings |-> Fingerprint(p, findings[k], key)])]

\* Without its key, or with another, a keyed baseline is not read, and with a key no
\* other one.
Readable(document, key) ==
    /\ document.schema \in Legacy \cup {3, 4}
    /\ key # NoKey => Keyed(document)
    /\ Keyed(document) => document.key = key
RecordableAlways(document, key) == document.schema \in 0..4
\* Recording over a keyed baseline takes a key.
Recordable(document, key) == Keyed(document) => key # NoKey

FingerprintIn(p, document, f) ==
    IF document.schema \in Legacy THEN LegacyFingerprint(p, f) ELSE Fingerprint(p, f, document.key)
\* Without the count of the entries.
TakenUncounted(p, document, so, f) ==
    IF Copies(FingerprintIn(p, document, f), so.remaining) > 0 THEN [so EXCEPT !.baselined = Append(@, f)]
    ELSE [so EXCEPT !.new = Append(@, f)]
\* A finding takes one of its entries, or is new.
Taken(p, document, so, f) ==
    LET x == FingerprintIn(p, document, f)
    IN  IF x # Unidentified /\ Copies(x, so.remaining) > 0
        THEN [so EXCEPT !.remaining[x] = @ - 1, !.baselined = Append(@, f)]
        ELSE [so EXCEPT !.new = Append(@, f)]
Partition(p, document, findings) ==
    LET after[n \in 0..Len(findings)] ==
            IF n = 0 THEN [remaining |-> document.entries, new |-> <<>>, baselined |-> <<>>]
            ELSE Taken(p, document, after[n - 1], findings[n])
    IN  after[Len(findings)]
=============================================================================
