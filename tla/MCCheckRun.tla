------------------------------- MODULE MCCheckRun -------------------------------
(***************************************************************************)
(* Checks of small projects, with comments, copies, findings over several  *)
(* lines and at no line, refiners that keep and break the contract, and    *)
(* baselines of every schema and key.                                      *)
(***************************************************************************)
EXTENDS CheckRun

A == <<"app.py">>
T == <<"vendor", "app", "test_app.py">>
R == <<"requirements.txt">>
S == <<"fixtures", "settings.json">>
MCTestFiles == {"test_app.py"}

\* What the plugins report: a call on a line, a secret that goes on to the next line,
\* requirements, and the secrets of a settings file.
AtLine(path, lines, k) ==
    LET last == IF k < Len(lines) THEN k + 1 ELSE k
    IN  CASE lines[k].code = "call" -> <<Finding("command-injection", path, "f", Lines(k, k), "high", "high", <<>>)>>
          [] lines[k].code = "secret" -> <<Finding("hardcoded-secret", path, "", Lines(k, last), "medium", "medium", "context" :> "rule")>>
          [] lines[k].code = "pin" -> <<Finding("vulnerable-dependency", path, "", Lines(k, k), "high", "high", [advisory |-> "A1", package |-> "jinja2"])>>
          [] OTHER -> <<>>
InFile(p, path) == FlattenSeq([k \in DOMAIN p.files[path] |-> AtLine(path, p.files[path], k)])
MCReport(p) ==
    FlattenSeq([k \in 1..Len(p.paths) |-> InFile(p, p.paths[k])])
        \o [k \in DOMAIN p.settings |-> Finding("hardcoded-secret", S, "", Value(p.settings[k][1], p.settings[k][2]), "medium", "high", <<>>)]

\* Refiners: some lower what tests hold, some raise it again or doubt it, some write what is
\* the engine's to write, and some do more than they may.
MCRefine(refiner, findings) ==
    LET all(change(_)) == [k \in DOMAIN findings |-> change(findings[k])]
        test(f) == Has(f, "context") /\ f.metadata.context = "test"
    IN  CASE refiner = "lower" -> all(LAMBDA f : IF test(f) THEN [f EXCEPT !.severity = "low"] ELSE f)
          [] refiner = "raise" -> all(LAMBDA f : IF Has(f, "refined_by") THEN [f EXCEPT !.severity = "high"] ELSE f)
          [] refiner = "doubt" -> all(LAMBDA f : [f EXCEPT !.confidence = "low", !.metadata = @ @@ "doubt" :> "yes"])
          [] refiner = "stamp" -> all(LAMBDA f : [f EXCEPT !.severity = "info", !.metadata = [refined_by |-> <<>>, original_severity |-> "low"] @@ @])
          [] refiner = "cite" -> all(LAMBDA f : [f EXCEPT !.metadata = @ @@ "advisory" :> "A1"])
          [] refiner = "drop" -> SelectSeq(findings, LAMBDA f : ~test(f))
          [] refiner = "move" -> all(LAMBDA f : IF f.place.first > 1 THEN [f EXCEPT !.place.first = @ - 1] ELSE f)

-----------------------------------------------------------------------------
Files(a, t, r, settings, ignored, refiners) ==
    [files |-> (A :> a) @@ (T :> t) @@ (R :> r), paths |-> <<A, T, R>>, settings |-> settings, ignored |-> ignored,
     refiners |-> refiners, outside |-> IF a = <<>> THEN {S} ELSE {}, origins |-> (<<"A1", "jinja2">> :> "feed.toml")]
Call == Line("call", {})
Other == Line("other", {})
Secret == Line("secret", {})
Body1 == Line("body1", {})
Body2 == Line("body2", {})
Pin == Line("pin", {})
MCProjects == {
    Files(<<Call>>, <<>>, <<>>, <<>>, {}, <<>>),
    Files(<<Other, Call, Call>>, <<>>, <<>>, <<>>, {}, <<>>),
    Files(<<Secret, Body1, Call>>, <<>>, <<>>, <<>>, {}, <<>>),
    Files(<<Call, Secret, Body2>>, <<>>, <<>>, <<>>, {}, <<>>),
    Files(<<Secret, Line("body1", {Every}), Line("call", {"command-injection"})>>, <<>>, <<>>, <<>>, {}, <<>>),
    Files(<<Call>>, <<Call, Call>>, <<Pin>>, <<>>, {"A1"}, <<"lower", "doubt", "raise">>),
    Files(<<Line("call", {"hardcoded-secret"})>>, <<Secret>>, <<Pin, Line("pin", {Every})>>, <<<<"/a", "s1">>, <<"/b", "s1">>>>, {}, <<"lower">>),
    Files(<<>>, <<Call>>, <<>>, <<<<"/a", "s2">>>>, {}, <<"raise", "lower", "raise">>),
    Files(<<Call>>, <<Call>>, <<>>, <<>>, {"A1"}, <<"stamp", "cite">>),
    Files(<<>>, <<Call>>, <<>>, <<>>, {}, <<"lower", "drop">>),
    Files(<<>>, <<Other, Secret>>, <<>>, <<>>, {}, <<"doubt", "move">>)}
MCLateProjects == {p \in MCProjects : p.files[A] \in {<<Other, Call, Call>>, <<Call, Secret, Body2>>}}

\* What earlier versions recorded, and baselines of others.
KeptIn(p) == Kept(p, RefinedFindings(p)[1])
AtLines(p) == SelectSeq(KeptIn(p), LAMBDA f : f.place.first > 0)
AtValues(p) == SelectSeq(KeptIn(p), LAMBDA f : f.place.first = 0)
FirstLines(p, findings) ==
    LET line(f) == Headed(f, <<p.files[f.path][f.place.first]>>, <<>>)
    IN  FingerprintBag([k \in DOMAIN findings |-> line(findings[k])])
KeyLines(p) ==
    LET line(f) == Headed(f, <<"line of", f.place.pointer>>, <<>>)
    IN  FingerprintBag([k \in DOMAIN AtValues(p) |-> line(AtValues(p)[k])])
Values(p) == FingerprintBag([k \in DOMAIN AtValues(p) |-> LegacyFingerprint(p, AtValues(p)[k])])
OldBaseline(p, schema) ==
    [schema |-> schema, key |-> NoKey, entries |-> FirstLines(p, AtLines(p)) (+) IF schema = 1 THEN KeyLines(p) ELSE Values(p)]
Of(p, b) == [document |-> b, accepted |-> {Identities(p, KeptIn(p))}]
WholeOnes == {p \in MCProjects : RefinedFindings(p) # <<>>}
MCBaselines ==
    {[document |-> NoDocument, accepted |-> {EmptyBag}], [document |-> Unreadable, accepted |-> {}]}
    \cup {Of(p, OldBaseline(p, schema)) : p \in {q \in WholeOnes : KeptIn(q) # <<>>}, schema \in Legacy}
    \cup {Of(p, BaselineOf(p, KeptIn(p), "k2")) : p \in {q \in WholeOnes : q.settings # <<>>}}
=============================================================================
