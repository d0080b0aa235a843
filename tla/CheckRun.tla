-------------------------------- MODULE CheckRun --------------------------------
(***************************************************************************)
(* A check with a baseline (cli.py, main): it reads the key and the        *)
(* baseline, analyses the project, accounts for its findings, renders the  *)
(* report, and replaces the baseline when it records one.  Anybody may     *)
(* edit the project or put another baseline in place between two of its    *)
(* steps, and every step may fail or be the last.                          *)
(***************************************************************************)
EXTENDS Findings

CONSTANTS
    Projects,
    LateProjects,       \* what a project may become while it is checked
    Keys,
    Baselines           \* what may be put in place: a document, and what it accepts

\* Baselines are documents; none, or part of one, is not.
NoDocument == [schema |-> 0, key |-> "none", entries |-> EmptyBag]
Torn == [schema |-> 0, key |-> "torn", entries |-> EmptyBag]

VARIABLES
    project,
    baseline,           \* the file
    accepted,           \* the findings it was recorded for, in a set of one; none known
                        \* when the project changed meanwhile
    phase, status,      \* of the check, and how it ended
    key, previous,      \* its key, and the baseline it read
    source, result,     \* the project it analysed, and the findings it accounted for
    document,           \* the baseline it records
    before, allowed,    \* what baseline and accepted were when it began
    edited, moved       \* whether the project or the baseline was changed while it ran
world == <<project, baseline, accepted>>
inputs == <<key, previous, before>>
results == <<source, result, document>>
changes == <<edited, moved>>
vars == <<world, phase, status, inputs, allowed, results, changes>>

NoFindings == [new |-> <<>>, baselined |-> <<>>]
Init ==
    /\ project \in Projects
    /\ baseline = NoDocument /\ accepted = {EmptyBag}
    /\ phase = "idle" /\ status = "none"
    /\ key = NoKey /\ previous = NoDocument
    /\ source = {} /\ result = NoFindings /\ document = NoDocument
    /\ before = NoDocument /\ allowed = {} /\ edited = FALSE /\ moved = FALSE

Running == phase \notin {"idle", "ended"}
Recording == previous = NoDocument
Becomes(p) == phase' = p /\ status' = "none"
Ends(how) == phase' = "ended" /\ status' = how

\* A key that is empty or too short, or in a file that cannot be read, that is the
\* baseline or that lies in the project.
Unusable == "unusable"
\* The key is the one of the file given, else of the environment.
KeyOf(file, environment) == IF file # NoKey THEN file ELSE environment
Start(file, environment, record) ==
    /\ ~Running
    /\ key' = KeyOf(file, environment)
    /\ LET records == record \/ baseline = NoDocument
           usable == key' # Unusable /\ IF records THEN Recordable(baseline, key') ELSE Readable(baseline, key')
       IN  \/ usable /\ previous' = (IF records THEN NoDocument ELSE baseline) /\ Becomes("started")
           \/ ~usable /\ previous' = NoDocument /\ Ends("error")
    /\ before' = baseline /\ allowed' = accepted
    /\ source' = {} /\ result' = NoFindings /\ document' = NoDocument
    /\ edited' = FALSE /\ moved' = FALSE
    /\ UNCHANGED world

\* A refiner that breaks its contract ends the check with a traceback.
Analyse ==
    /\ phase = "started"
    /\ \/ RefinedFindings(project) # <<>> /\ source' = {project} /\ Becomes("analysed")
       \/ RefinedFindings(project) = <<>> /\ UNCHANGED source /\ Ends("traceback")
    /\ UNCHANGED <<world, inputs, allowed, result, document, changes>>
Source == CHOOSE p \in source : TRUE
Found == Kept(Source, RefinedFindings(Source)[1])

\* What is recorded is all accepted.
Account ==
    /\ phase = "analysed" /\ Becomes("accounted")
    /\ \/ /\ Recording
          /\ document' = BaselineOf(project, Found, key)
          /\ result' = [new |-> <<>>, baselined |-> Found]
       \/ /\ ~Recording
          /\ LET parted == Partition(project, previous, Found)
             IN  result' = [new |-> parted.new, baselined |-> parted.baselined]
          /\ UNCHANGED document
    /\ UNCHANGED <<world, inputs, allowed, source, changes>>

\* The baseline is written once the report is rendered, to a file of its own.
Render ==
    /\ phase = "accounted"
    /\ Becomes(IF Recording THEN "rendered" ELSE "saved")
    /\ UNCHANGED <<world, inputs, allowed, results, changes>>
\* To the file that it replaces.
WriteInPlace ==
    /\ phase = "rendered" /\ Becomes("written")
    /\ baseline' = Torn
    /\ UNCHANGED <<project, accepted, inputs, allowed, results, changes>>
Write ==
    /\ phase = "rendered" /\ Becomes("written")
    /\ UNCHANGED <<world, inputs, allowed, results, changes>>
\* What a finding is, whatever the baseline holds of it.
Identity(p, f) ==
    <<f.path, f.rule, f.function, f.place.pointer, f.place.value,
      IF f.place.first > 0 THEN SubSeq(p.files[f.path], f.place.first, f.place.last) ELSE <<>>>>
Identities(p, findings) == FingerprintBag([k \in DOMAIN findings |-> Identity(p, findings[k])])
Replace ==
    /\ phase = "written" /\ Becomes("saved")
    /\ baseline' = document
    /\ accepted' = IF edited THEN {} ELSE {Identities(project, result.baselined)}
    /\ allowed' = accepted'
    /\ UNCHANGED <<project, inputs, results, changes>>

\* Exit 1 when a new finding has the severity asked for.
Finish(threshold) ==
    /\ phase = "saved"
    /\ Ends(IF \E k \in DOMAIN result.new : Rank[result.new[k].severity] >= threshold THEN "findings" ELSE "clean")
    /\ UNCHANGED <<world, inputs, allowed, results, changes>>

\* A step fails, and main reports an error.  The report may also fail to be written out,
\* after the baseline.
Fail ==
    /\ \/ phase \in {"started", "analysed", "accounted", "rendered", "written"} /\ Ends("error")
       \/ phase = "saved" /\ Ends("unreported")
    /\ UNCHANGED <<world, inputs, allowed, results, changes>>
\* The process is killed.
Die ==
    /\ Running
    /\ Ends("killed")
    /\ UNCHANGED <<world, inputs, allowed, results, changes>>

\* Everybody else, between two checks and where it makes a difference to one: an edit
\* between its two looks at the project, another baseline before it replaces the one it saw.
Rest ==
    /\ phase' = "idle" /\ status' = "none"
    /\ key' = NoKey /\ previous' = NoDocument
    /\ source' = {} /\ result' = NoFindings /\ document' = NoDocument
    /\ before' = NoDocument /\ allowed' = {} /\ edited' = FALSE /\ moved' = FALSE
Edit(p) ==
    /\ project' = p
    /\ \/ ~Running /\ Rest
       \/ phase = "analysed" /\ p \in LateProjects /\ edited' = TRUE /\ UNCHANGED <<phase, status, inputs, allowed, results, moved>>
    /\ UNCHANGED <<baseline, accepted>>
PutInPlace(b) ==
    /\ baseline' = b.document /\ accepted' = b.accepted
    /\ \/ ~Running /\ Rest
       \/ phase = "written" /\ moved' = TRUE /\ UNCHANGED <<phase, status, inputs, allowed, results, edited>>
    /\ UNCHANGED project

Next ==
    \/ \E file, environment \in Keys \cup {NoKey, Unusable}, record \in BOOLEAN : Start(file, environment, record)
    \/ Analyse \/ Account \/ Render \/ Write \/ Replace
    \/ \E threshold \in {0, 3} : Finish(threshold)
    \/ Fail \/ Die
    \/ \E p \in Projects : Edit(p)
    \/ \E b \in Baselines : PutInPlace(b)
Spec == Init /\ [][Next]_vars

-----------------------------------------------------------------------------
(* What is taken of plugins, refiners and baselines put in place.          *)

IsSequence(s) == s \in Seq(ToSet(s))
IsFinding(f) == f = Finding(f.rule, f.path, f.function, f.place, f.severity, f.confidence, f.metadata)
\* About a value, or on lines that its file has.
Placed(p, f) ==
    \/ f.place = Value(f.place.pointer, f.place.value)
    \/ /\ f.place = Lines(f.place.first, f.place.last)
       /\ IsSequence(p.files[f.path])
       /\ f.place.first \in 1..Len(p.files[f.path])
       /\ f.place.last \in f.place.first..Len(p.files[f.path])
\* The keys of the metadata that the engine writes itself.
Stamps == {"origin", "advisory_source", "original_severity", "original_confidence", "refined_by"}

\* Plugins report findings of the project, and leave these keys to the engine.
ASSUME ReportAssumption ==
    \A p \in Projects :
        /\ IsSequence(p.refiners) /\ IsSequence(Report(p))
        /\ \A f \in ToSet(Report(p)) : IsFinding(f) /\ Placed(p, f) /\ DOMAIN f.metadata \cap Stamps = {}

\* Refiners that keep their contract make findings of findings.
ASSUME RefineAssumption ==
    \A p \in Projects : \A n \in DOMAIN p.refiners :
        Refinements(p)[n - 1] # <<>> =>
            LET given == Refinements(p)[n - 1][1]
                refined == Refine(p.refiners[n], given)
            IN  BreaksTheContract(given, refined) \/ (IsSequence(refined) /\ \A k \in DOMAIN refined : IsFinding(refined[k]))

\* The contract lets a refiner add metadata under any name, the engine's own names and that
\* of an advisory among them: whether one of a project does.
TraceKeys == {"original_severity", "original_confidence", "refined_by"}
Adds(p, names) ==
    \E n \in DOMAIN p.refiners :
        /\ Refinements(p)[n - 1] # <<>>
        /\ LET given == Refinements(p)[n - 1][1]
               refined == Refine(p.refiners[n], given)
           IN  /\ ~BreaksTheContract(given, refined)
               /\ \E k \in DOMAIN refined : \E name \in names : Has(refined[k], name) /\ ~Has(given[k], name)

\* A baseline agrees with what it accepts, where it has as many entries for a finding that
\* it identifies as it accepts copies of it, and none for one that it cannot tell.
Identifiable(b, f) == b.schema \in {3, 4} \/ (f.place.first = f.place.last /\ (b.schema = 2 \/ f.place.first > 0))
Counts(bag) == \A x \in DOMAIN bag : bag[x] \in Nat
Agrees(b, bag) ==
    /\ Counts(bag)
    /\ b.schema \in Legacy \cup {3, 4} =>
          /\ Counts(b.entries)
          /\ \A p \in Projects : \A f \in ToSet(Report(p)) :
                LET x == FingerprintIn(p, b, f)
                IN  x # Unidentified =>
                       Copies(x, b.entries) = IF Identifiable(b, f) THEN Copies(Identity(p, f), bag) ELSE 0
ASSUME BaselinesAssumption ==
    \A b \in Baselines : \A bag \in b.accepted : Agrees(b.document, bag)

-----------------------------------------------------------------------------
(* Properties.                                                             *)

\* The findings of a check that ended that are as the one who recorded its baseline could
\* accept them.
Accounted == phase = "ended" /\ status \in {"clean", "findings"} /\ ~edited
Least(m, n) == IF m < n THEN m ELSE n

\* Every finding of an analysis is reported as new, is baselined for one that was accepted,
\* starts on a line whose comment names its rule, or is about an advisory that the policy
\* ignores (docs/usage.md: a check fails on new findings only), where no refiner makes a
\* finding one about an advisory: nothing keeps one from it, and the policy would ignore it.
NothingIsHidden ==
    Accounted =>
        LET all == Identities(Source, Report(Source))
            aside == Identities(Source, Among(Report(Source), {f \in ToSet(Report(Source)) : Aside(Source, f)}))
            new == Identities(Source, result.new)
        IN  \/ \A bag \in allowed : \A x \in DOMAIN all :
                   Copies(x, all) - Copies(x, aside) - Copies(x, new) <= Copies(x, bag)
            \/ Adds(Source, {"advisory"})

\* And what the baseline identifies and was accepted is not new, one for one (findings/
\* baseline.py: a finding is recognised by its file, rule, function and the text of every
\* line it covers; in schemas 1 and 2 only one on a single line is).
ExactlyTheNewAreReported ==
    Accounted =>
        LET found == Identities(Source, Found)
            known(f) == Recording \/ Identifiable(previous, f)
            new == Identities(Source, result.new)
        IN  \A bag \in allowed : \A k \in DOMAIN Found :
                LET x == Identity(Source, Found[k])
                IN  Copies(x, new) = Copies(x, found) - IF known(Found[k]) THEN Least(Copies(x, found), Copies(x, bag)) ELSE 0

\* A finding is what its plugin reported, whatever refiners that are not refused make of it;
\* and what was changed of it can be read from it, what it was and that a refiner changed
\* it, where no refiner writes the trace itself (plugins/api.py, apply_refinement).
RefinementsAreTraced ==
    source # {} =>
        LET refined == RefinedFindings(Source)[1]
        IN  /\ Len(refined) = Len(Report(Source))
            /\ \A k \in DOMAIN refined :
                  LET f == refined[k]
                      was == Report(Source)[k]
                      original(name, now) == IF Has(f, name) THEN f.metadata[name] ELSE now
                  IN  /\ Identity(Source, f) = Identity(Source, was)
                      /\ \A name \in DOMAIN was.metadata : f.metadata[name] = was.metadata[name]
                      /\ \/ /\ original("original_severity", f.severity) = was.severity
                            /\ original("original_confidence", f.confidence) = was.confidence
                            /\ <<f.severity, f.confidence>> # <<was.severity, was.confidence>> => RefinersOf(f) # <<>>
                         \/ Adds(Source, TraceKeys)

\* A check without a key leaves a keyed baseline keyed, unless it was put in place while
\* the check ran (findings/baseline.py, ensure_recordable).
KeyedStaysKeyed ==
    [][(Keyed(baseline) /\ ~Keyed(baseline') /\ Running) => key # NoKey \/ moved \/ moved']_vars

\* A check that failed before it recorded leaves the baseline as it was, and one that was
\* killed as it was or complete (findings/baseline.py, record; docs/usage.md: the previous
\* baseline stays in place when the check fails).  A check whose report cannot be written
\* out fails after it recorded, which this leaves out.
StoppedChecksKeepTheBaseline ==
    (phase = "ended" /\ status \in {"error", "traceback", "killed"} /\ ~moved) =>
        baseline = before \/ (status = "killed" /\ Recording /\ baseline = document)
=============================================================================
