----------------------------- MODULE MCProjectCache -----------------------------
(***************************************************************************)
(* Two modules that use what JSON has no own form for: no value and an     *)
(* empty list of prior calls, every kind of target and location, and sets. *)
(***************************************************************************)
EXTENDS ProjectCache

At(line) == [source_id |-> "app.py", start_line |-> line, start_column |-> 1, end_line |-> line, end_column |-> 9]
From(line) == [At(line) EXCEPT !.end_line = None, !.end_column = None]
InFile == [source_id |-> "settings.json", pointer |-> "/token", digest |-> "sha256:0"]
Given(values) == [positional |-> values, keywords |-> <<<<"shell", "True">>, <<"cwd", None>>>>, unpacked |-> FALSE, keyword_unpacked |-> FALSE]
Prior == [symbol |-> "sqlite3.connect", location |-> At(2), arguments |-> Given(<<>>), dominates |-> TRUE]
Site(target, prior) == [caller |-> "<module>", location |-> At(3), target |-> target, arguments |-> Given(<<None, "'x'">>), prior_calls |-> prior]
ACall(site) ==
    [symbol |-> "os.system", argument_dependencies |-> <<{0, 2}, {}>>, keyword_dependencies |-> <<<<None, {1}>>, <<"env", {}>>>>,
     location |-> From(4), call_site |-> site, arguments |-> Given(<<None>>),
     argument_cleared |-> <<<<<<0, 2>>>>, <<>>>>, keyword_cleared |-> <<>>, invoked_at |-> site]
Summary(calls) ==
    [name |-> "f", parameters |-> 3, return_dependencies |-> {0, 1}, external_calls |-> calls, unsupported |-> FALSE,
     return_externals |-> {"os.getcwd", "input"}, side_effects |-> {}, static |-> TRUE, return_cleared |-> <<<<0, 1>>>>,
     mutations |-> <<[parameter |-> 0, field |-> "name", dependencies |-> {1}, externals |-> {}]>>,
     nonlocal_writes |-> <<[name |-> "x", dependencies |-> {}, externals |-> {"input"}, kept |-> TRUE]>>]
Reported(place, function) ==
    [rule_id |-> "hardcoded-secret", message |-> "m", severity |-> "high", confidence |-> "low", span |-> place, function |-> function,
     metadata |-> {<<"context", "test">>}, related |-> <<[span |-> At(5), message |-> "here"]>>]

First == [functions |-> <<>>, summaries |-> {<<"f", Summary(<<ACall(At(6))>>)>>}, sites |-> <<Site(<<"known", "f">>, <<>>)>>,
          findings |-> <<Reported(InFile, None)>>, reads |-> <<>>]
Second == [functions |-> <<[name |-> "f", span |-> At(1), entry_point |-> None, aliases |-> <<"g">>]>>, summaries |-> {},
           sites |-> <<Site(<<"external", "os.system">>, <<Prior>>), Site(<<"unknown">>, None)>>,
           findings |-> <<Reported(From(8), "f")>>,
           reads |-> <<[function |-> "f", location |-> At(9), symbol |-> "flask.request"]>>]
MCEntries == {First, Second}
=============================================================================
