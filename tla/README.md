# A verification of the coretrace Python analyzer

These are TLA+ specifications of the analyzer in `src/src/coretrace_python`
(paths below are relative to that directory unless they start with `src/`),
with TLC configurations that check them on small instances and proofs that
TLAPS checks for every value of the constants.

## 1. The system

`analyze_project` (`engine.py:433`) reads the Python files under a root with the
manifests, plugins, advisories and templates beside them, builds a graph of
their imports, analyses the modules component by component, and reports
findings. One module is analysed through a chain of *analyses* (scopes, control
flow graph, intermediate representation, SSA, constants, heap, call graph,
summaries, taint, refutation) which a per-module *manager* evaluates on demand.

| Component | State | Operations | Hard behaviours | What makes it correct |
|---|---|---|---|---|
| Analysis manager (`analysis/`) | registry, cache of results, list of analyses under computation | `register`, `get`, `provide`, `run` | recursion through the manager, exceptions, a cached result that outlives its input | the list is the stack; no re-entry; results are shared and never overwritten behind a reader |
| Engine on one manager (`engine.py`) | the manager's, and which inputs it has been given | the order of `provide`, `get` and `run` | an input asked for before it is given; dropping too little when an input changes | no result in the cache or under computation is older than its inputs |
| Project run (`engine.py`) | what was read, results by module, the wave, the workers, a cache or a spool | read, load, analyse here or in a pool, store, report | worker processes, files edited meanwhile, crashes, lost entries | a report is the one an analysis from scratch of what was read would give |
| Keys and names (`cache.py`, `interprocedural/modulegraph.py`, `engine.py`) | none | naming files, resolving imports, keys | a key that leaves out something a result depends on | equal keys imply equal results |
| Cache directory (`cache.py`) | files of entries | `store`, `load` | processes writing at once, stopping halfway, reused process ids | entries are replaced and read at once |
| Module schedule (`modulegraph.py`) | the depth-first visit | `schedule` | import cycles, long chains | components are cycles; waves follow imports |
| Summaries (`interprocedural/summaries.py`, `engine.py`) | tables per module, an index per pass | `SummaryAnalysis`, `_analyse_managers` | nested unbounded iteration over cycles, component after component | it settles, on the least solution of the whole project |
| Data flow (`dataflow/`) | states by edge, a worklist | `solve` | pruned edges that open late, termination | a solution when the worklist is empty; it empties |
| Abstract values (`abstract/`) | facts by value | constants, ranges, heap, strings | folding that differs from the interpreter | facts cover every execution |
| Control flow and SSA (`cfg/`, `ir/`) | graphs | builder, dominance, lowering, SSA | exceptions, loops with `else`, `finally`, conditions that assign | the tree says what dominates what; every execution is a path on which loads see what was last assigned |
| Taint (`taint/`) | taints by value and by location, models | the taint problem, summaries of what is called, seeds of classes | sanitizers, aliases, flows between methods that the framework calls | no flow is missed, and where nothing merges none is invented |
| Templates (`taint/templates.py`) | none | read, put together, establish escaping, reach filters | files that make sense together only, includes in a cycle, libraries that replace filters | what an established template prints is protected; every filter that runs is found |
| Call graph (`interprocedural/callgraph.py`) | bindings by value | resolution of calls, facts of their sites | results, items and inherited methods; calls before calls | a call runs what its site says |
| Dependencies (`dependency/`) | requirements, advisories | version ranges, correlation, conditions, VEX, policy | boundaries of ranges; a condition ruled out too soon | an advisory that is ruled out or not affected is not reached |
| Refutation (`findings/refutation.py`) | none | checks, guards, verdicts on flows | a check of another value, path or iteration; collections that change | what reaches the sink of a refuted flow is harmless |
| Findings (`findings/`, `plugins/api.py`) | baseline, suppressions, refiners | refine, suppress, fingerprint, partition, record | duplicates, moved lines, four schemas, keys, failures while recording | only accepted findings are hidden |
| Sources (`source/`) | interned files | add, load, positions | a path read twice with other contents; encodings | one file, one content |
| Plugins (`plugins/`, `bundled/`) | registry | load, run, refine | order, failures | a refinement is traced and changes nothing else |
| Front end (`frontend/`, `hir/`, `semantic/`) | trees, scopes | parse, resolve | closures, deep nesting | names resolve as Python does |
| Command line (`cli.py`, `reporters/`) | the baseline's file | check, formats | failures between analysis and recording | a check that stops leaves the baseline as it was |

How they interact: the run creates one manager for each module, gives every
manager the project's tables, iterates the summaries of a component by replacing
the index in its managers and dropping what read it, and then asks for findings.
The workers of a pool do the same in processes of their own, and exchange
results with the run through the cache directory or a temporary one, their
*spool*. A later run, or another process, meets an earlier one only through the
cache directory. What the modules report goes through the refiners, the policy,
the comments and the baseline in `main` of `cli.py`.

## 2. Modules

| Module | Models | State and actions against the code |
|---|---|---|
| `AnalysisManager` | `AnalysisManager` | `frames` is the Python stack of `compute` calls, `computing` the list `_computing` that the code keeps by hand; `Call`, `Refused`, `Served`, `Computed`, `Return`, `Raise`, `Unwind` are the branches of `get`; a result is the set of `<<input, version>>` it was computed from |
| `EngineManager` | what the engine does with a manager | extends the manager; `stage` follows `analyze_project` from registration to the plugins that ask afterwards, with the loop of `_analyse_managers` in between |
| `ModuleKeys` | naming, imports, keys | operators over what was read: `NamesOf` and `NameOf` are `import_names` and the names the graph gives its modules; `Holders`, `Nearest`, `Chosen`, `Named`, `Resolved` are how an import finds its file, by module name, by the directories the importer's own names start from, by the longest prefix; `Edges`, `Component`, `Wave`, `Key`, and `FromScratch`, what a result depends on |
| `AnalyzeProject` | what a run promises | a run reads every file and reports what an analysis from scratch gives |
| `ProjectRun` | `analyze_project` and its workers | `pc` is where the run is; `Begin`, `ReadFile`, `Load`, `NextWave`, `AnalyseHere`, `StartWorker`, `TakeTask`, `FinishTask`, `FailTask`, `Collect`, `Store`, `EndWave`, `Finish`; around it `Edit`, `Crash`, `Damage` |
| `ProjectCache` | `cache.py`: `encode` and `decode`, `ProjectCache.store` and `load` | what a module leaves (`CachedModule` and all it contains) and the document it is stored as: each class has its `Encode...` and `Decode...`; one process stores an encoded module in the steps open, write, write, replace; loads read the file of the entry and decode it; `Restart` stops a process and starts one under the same id |
| `AtomicCache` | what the directory promises | entries put and got at once |
| `DataflowSolver` | `solve` | `incoming` as in the code; `queued` is worklist and set in one, taken in block order; `Evaluate` is one turn of the loop |
| `ConstantPropagation` | the constants problem, with executions to judge it by | `ConstantFlow` is `flow`; `Executions` is what the interpreter may do |
| `ModuleSchedule` | `ModuleGraph.schedule` | `calls` is the Python stack of `visit`; `Search`, `Visit`, `FollowImport`, `SeeImport`, `Leave` its lines; `Level` and `Waves` the rest |
| `ScheduledSummaries` | a project from its imports to its settled summaries | the search, then the components of each wave, each iterated as `SummaryAnalysis.compute` inside `_analyse_managers` does: one `summarize` a step; `NextRound`, `NextModule`, `NextPass` are the ends of the three loops; `Begin` gives a component the settled summaries of those before it |
| `DominanceTree`, `Dominance` | the graphs, the tree and what it must be; `_build` of `cfg/dominance.py`, on any graph from any root (the entry, or the virtual exit of the reversed graph) | `path` is the Python stack of `visit`, and `Visit`, `Leave` its steps; `turn` is the place of `node` in the loop over `rpo[1:]`; `Choose` takes the first candidate, `ClimbOther`, `ClimbNew` are the two loops of `intersect`, `Intersect` takes the next candidate, `Settle` ends a turn, and a pass; `Dominators` and `FrontierOf` are what the finished tree is asked |
| `ControlFlowGraph` | `hir/nodes.py`, `cfg/builder.py` | statements; `Build` folds one rule per statement over the open block, the loops and the handlers, as the builder's methods do; the dominator tree as what `Dominance` computes |
| `FunctionExecution` | lowering of loads and stores, `ir/ssa.py`; external: the interpreter on the statements, beside a walk through the graph | `ToSSA` places phis on the iterated frontier where the variable is live, and renames along the tree; one action for each kind of statement; both choose the same branch or the run shows where they part |
| `ValueInstructions` | the instructions data flows through (`ir/model.py`), the models of `taint/models.py`, `abstract/heap.py` | constructors; objects by allocation, fields, the fixpoint over all instructions |
| `ValueFlow` | the part of the dependence and taint problems that is the same | transfer of facts through values and locations, and the effects of an evaluation |
| `Taint` | `summaries.py`, `taint/engine.py`; external: programs run with the taint that travels | two instances of `ValueFlow`; `Summaries` settles the functions, `Flows` judges the entry points; the execution is the framework's calls, frames, objects, one instruction a step |
| `Templates` | `taint/templates.py`: nodes, chains, blocks, libraries and filters; `_read_markup` and what it calls; how pages are put together and which templates are established | operators; one reading of markup that the tokenizer of HTML would make |
| `TemplateRendering` | external: Django rendering and a browser reading | renders node by node under every condition and loader order; the browser reads one atom a step |
| `Refutation` | `findings/refutation.py`; external: functions run on dangerous texts | what a branch proves of values, collections, selections; verdicts on flows; the execution takes one instruction a step, its inputs chosen by the kinds they are dangerous for |
| `CallGraph` | `interprocedural/callgraph.py` | bindings of values, receivers, facts of sites, what executes before |
| `Correlation` | `dependency/correlation.py`, `graph.py`, `vex.py`, the two dependency plugins | versions, conditions, entries, `Reported`, statuses |
| `AdvisoryExecution` | external: projects run with the versions installable | calls, objects made by them, what a library's function reads of its arguments |
| `Findings` | what becomes of findings: `plugins/api.py`, `policy.py`, `suppressions.py`, `baseline.py` | operators; the loops of the code (`Refinements` over plugins, `Among` and `Partition` over findings, with one step in `Taken`) are recursive functions of how many were done |
| `CheckRun` | `main` of `cli.py` with a baseline | `Start`, `Analyse`, `Account`, `Render`, `Write`, `Replace`, `Finish` are its lines; `Fail` and `Die` may come at each; `Edit` and `PutInPlace` are others' |
| `*Proofs` | theorems | see section 6 |
| `MC*` | instances for TLC; `MCEngineManager` has the dependency tables of the built-in analyses | |

Composition: `EngineManager` extends `AnalysisManager`; `ProjectRun` and
`AnalyzeProject` extend `ModuleKeys`. `MCGraphs` has the functions of
`FunctionExecution` or the algorithm of `Dominance` run, one at a time.
`ProjectRun` implements `AnalyzeProject` and `ProjectCache` implements
`AtomicCache` (`INSTANCE ... WITH`, checked as `PromiseKept`, and proved).
`ProjectRun` uses the cache as atomic, which is what `CacheAtomic` proves of it;
the waves in it are those `ModuleSchedule` computes, stated as what they must be.
`ScheduledSummaries` composes `ModuleSchedule` with the iteration of summaries: the
components the search finds, in its order, are what is iterated. `Taint` uses
`ValueFlow` twice, for summaries and for taint, as the code's two problems share
their transfer. `Refutation`, `FunctionExecution` and `CallGraph` use the dominators
of `ControlFlowGraph`, which are stated there as the tree of exact dominance: that
the code's algorithm computes this tree, on every graph, is what `DominanceIsExact`
proves of `Dominance`. `Correlation` uses `CallGraph`, and `CheckRun` uses
`Findings`.

Six components are judged by an external one: the analysis is computed by
operators that are the code's, a program is run by actions that are Python's,
Django's or the browser's, and an invariant relates the two in every state. In
those modules the operators take a program and give the report, and the state
machine is the execution alone.

Some definitions have a variant before them with a suffix that names how it
differs (`UnwindWithoutFinally`, `KeyOfDirectImports`, `NamedEntries`, ...). They
are the near-misses of the code, each a plausible mistake, which the properties
were tried on: with the variant in place of the definition, the property fails.
No specification uses them.

## 3. Runs

| Run | Question | Instance | Why it is enough |
|---|---|---|---|
| `manager` | Can any order of calls and exceptions break the manager? | a few analyses, module and function level, one pass, one provided input with a version to replace | three frames nest, results are shared by two readers, an exception passes, and is caught by, each |
| `engine_manager` | Does the engine's order of calls keep every result fresh? | the engine's own tables, cut to the analyses that reach the index; versions up to 3 | a pass after the first and a settled one are both there |
| `project_run` | Is every report the one from scratch? | two runs, with and without the cache, serial and with two workers; three files, two of which share the import name `c` and are told apart by the package one of them is in; one edit (between runs, or while a serial run reads), one fault | the imports make a chain, a cycle or neither, and an edit of `pkg/__init__.py` renames the file beside it and moves what imports resolve to; an entry of one run meets the next after an edit at every place |
| `cache_directory` | Is the directory atomic? | two processes, restarts; an entry is the document of a whole module, written in two parts; three modules that use every form the document has | both are between any two of their steps while the other stores, an id comes back, and what is loaded is what was stored, field by field |
| `constant_propagation` | Does the solver end, on facts that cover every execution? | all programs of three blocks, 16 200 of them | loops, joins, pruned branches, branches that open late |
| `scheduled_summaries` | Are components and waves right, and does each settle, on the least summaries? | all 4 096 import graphs of four modules, and bodies of three calling functions in two modules, with an unsupported one | nested and crossing cycles; cycles of functions inside a module, between modules and both |
| `graphs` | Do graph and SSA form do what the function does? Does the dominator algorithm end, on the tree and frontiers that dominance has? | functions of an assignment, a statement with one or two nested in it, and a use; all graphs of four blocks with at most two successors each, 14 641 of them | each statement in each other, every exit out of each, loops with `else`, handlers that match and do not; loops within, beside and across one another, entered in one place or two, with edges to the root and to a block itself, blocks that are not reached |
| `taint` | Is every flow reported? | about 1 600 programs: a main function, one or two it calls, or a class of two methods called in any order | facts travel through results, containers, fields, nonlocals, branches, loops and recursion, cleared on one path or all |
| `templates` | Is what is established safe, and every filter found? | about 5 500 projects of one to three files | each construct is opened and closed before, inside and after an insertion; a name has one file or two; templates include themselves, each other in rounds of two and three, and one another twice with other bindings |
| `refutation` | Is what reaches the sink of a refuted flow harmless? | about 1 750 functions, on texts dangerous for each set of kinds | every test with the sink on either side, both or past the join; two tests joined or nested; loops; flows with no origin; functions behind a decorator that authorizes |
| `advisories` | Is what is ruled out, or not affected, not reached? | each form of an argument, of a prepared receiver, of a callee, of a requirement | each condition is met, missed and left open on some path; versions stand below, at and above each bound |
| `checks` | Is only what was accepted hidden, and the baseline never lost? | eleven projects, baselines of the four schemas, one key and a foreign one; refiners that keep the contract, break it, and write what the engine writes; checks one after the other | each step may fail or be the last, and the project or the baseline may change between any two |

`TLC` has no counterexample to any of them; what it did find while they were
written is next.

## 4. Where the program disagrees with its documentation

The catalogues of the instances leave out what is listed here: those cases are
genuine disagreements, found by TLC on a larger instance or while reading, and
with few exceptions reproduced with the program. The module named in each heading
holds the instance such a case would be added to.

Runs and keys (`MCProjectRun`, `MCConstantPropagation`, `MCAdvisories`):

* A second root: the key of a module leaves out its path below the root
  (`engine.py:557`), and its findings depend on it. `ResultsSound` fails.
* Edits while a pool works: a worker reads a file again after it was edited and
  its result is stored under the old key (`engine.py:1083`). `CacheSound` fails.
* Files of one import name: an import that several files could be meant by resolves to
  none, and the graph records that, which no key does (`cache.py:96`). With `b.py`, `y/b.py`
  and an importer of `b` in `z/`, deleting both files, or adding both, leaves the
  importer's key as it was. `ResultsSound` fails after those two edits; in the instance,
  which has one edit, two files share a name and are told apart by their directories.
* A literal whose difference with itself is not a number (`1e999 - 1e999`) in a
  loop: the state is never equal to itself, and the loop is evaluated for ever
  (`dataflow/solver.py:92`). `SolverEnds` fails.
* `x is 1000` is folded with `operator.is_` on the analyzer's own objects
  (`abstract/constants.py:54`), so `x = 1000; if x is 1000: ...` loses a branch that
  is taken. `Condition` and `Exits` model this (the literal `large`).
* A requirement `>1` with an advisory for `<2` is found to match nothing, since
  ranges are compared at their lower bounds (`dependency/graph.py:148`).
* A chain of about a thousand imports raises `RecursionError`
  (`interprocedural/modulegraph.py:200`); a malformed `pyproject.toml` ends the run
  with the `ValueError` of `source/manager.py:121` (`engine.py:467`).

Functions (`MCGraphs`):

* A parameter assigned in a condition keeps the argument in the load that
  follows (`ir/lowering.py:545`).
* A capture in a refutable case is laid out before the test (`cfg/builder.py:366`).
* The `else` of a `while` whose condition branches on its own is laid out inside
  the loop; the post-dominator tree does not count a return inside `try` as a
  leaf.

Taint (`MCTaint`): a function that fills a container and returns it
(`interprocedural/summaries.py:553`: what it returns and what that holds are two
facts); a filled container formatted as text; an alias made through a call;
`[*d.values()]`; an entry method with no input of its own gets no seeds; what is
written to a parameter or a nonlocal keeps no record of what was cleared, so that
`ReportsAreReal` is for straight programs; a sink merged from one with positions
and one without loses the positions.

Templates (`MCTemplates`): `<{% if a %}x{% endif %}{{ x }}` and
`<script>{% if a %}</script>{% endif %}{{ x }}` are established although what they print
is not protected; a block overridden inside the parent's `{% with x=y %}` is said
to print `x` and prints `y`; a filter block around an include does not collect
the names of the include; the filter of a filter block is resolved after loads
inside it.

Refutation (`MCRefutation`): a check proves an SSA value in the iteration it ran
in, and the value used may be the one of the iteration before
(`findings/refutation.py:195`, against `src/docs/usage.md:146`); only selections, whose
carried values the code refuses, are in the instance.

Call graph and correlation (`MCAdvisories`):

* A dict display that repeats a key keeps the first position
  (`interprocedural/callgraph.py:310`, against its docstring at line 76).
* The result of a call bound at module level and called in a function resolves to
  its maker with the arguments of the wrong call; calling a parameter annotated with a
  class resolves to the class; a redefined or `@overload`ed function resolves to
  its first definition.
* A call in the body of a `try` is said to come before those of its handlers
  (against `src/docs/usage.md:757`).
* An argument that is another module's name, or the result of a call, denotes that
  symbol and contradicts a condition on its value.
* A receiver bound by `with ... as` is another than its context manager; one
  merged by a phi is unresolved, so an advisory may be said not to affect the
  project although its entry is called.
* A method's parameter annotated with a module's class is typed by a matching
  signature (`interprocedural/callgraph.py:651`); an attribute inherited from a first base
  in the module is attributed to the next external base (the last was read, not
  reproduced).

Findings (`MCCheckRun`):

* The report is flushed after the baseline is saved (`cli.py:327`), and `--format json
  >/dev/full` exits with an error and the baseline replaced, against the comment
  at `cli.py:324` and `src/docs/usage.md:344`. The model follows the code: such a check ends
  "unreported" with the new baseline in place. `StoppedChecksKeepTheBaseline` speaks of the
  other ways to stop and leaves this one out; with it, TLC has a counterexample of a
  check that fails after `Replace`.
* `apply_refinement` (`plugins/api.py`) does not compare the related locations of a
  refined finding with those it had, although the docstring there says that the
  evidence is not the refiner's and that the engine rejects anything else.
* A refiner that breaks its contract raises `RefinementError`, which is not among
  the errors `main` reports: a traceback, and the exit code of "findings".
* `apply_refinement` compares the metadata a finding had, and not what was added to it. A
  refiner may add `original_severity` itself, and the trace keeps it (`setdefault`);
  it may add `refined_by`, to which the trace appends; and it may add an `advisory` to
  a finding that had none, which the policy then ignores although no rule reported it
  as one. The docstring of `refine` says that what a finding is, is not the refiner's.
  No bundled plugin overrides `refine`. The instance has refiners that do both (`stamp`,
  `cite`). `RefinementsAreTraced` says what holds whatever they do, and of the trace where
  none of them wrote its keys; `NothingIsHidden` speaks of checks in which none made a
  finding one about an advisory (`Adds`).
* In the same way the engine overwrites `origin` and `advisory_source` when a plugin
  reported them as metadata of its own (`_situated` and `_sourced` of `engine.py`; only
  `context` is left as reported): `ReportAssumption`.
* An entry of a schema 1 baseline is the text of one line. One that an older version
  recorded for the first line of a finding over several would account for a
  finding on that line alone. `BaselinesAssumption` excludes it for the findings of
  the projects considered; the transition notice of `baseline.py` asks to review such a
  baseline and record again.
* Fingerprints read the file again when they are made, after an edit perhaps;
  `NothingIsHidden` speaks of checks during which nothing was edited.
* Whether a key is needed is decided when the check starts: a check without one
  replaces a keyed baseline put in place meanwhile. `KeyedStaysKeyed` speaks of
  checks under which the baseline was not moved.

## 5. Bounds, abstractions, fairness

Bounds named in the modules: `MaxVersion` (how often an input is provided),
`MaxRuns`, `MaxEdits`, `MaxFaults` (project runs), `Ages` (evaluations of a
block told apart), `MaxCalls`, `MaxDepth`, `MaxObjects` (executions of tainted
programs: calls by the framework, within one another, objects alive),
`MaxIncludes` (includes a render follows), `MaxMade` (objects made in a run),
`MaxSuccessors` (edges out of a block).
`PageLimit`, `VariantLimit` and `MaxReceiverCalls` are the program's own limits,
made smaller. All other state is finite by itself. Deadlock is checked where the
system can always go on; `CHECK_DEADLOCK FALSE` stands where the system ends: a
solver, a fixpoint, an execution, or a number of runs or checks that is used up.

Abstractions that matter:

* Results are modelled by *what they were computed from*, so a stale result is
  one whose sources differ from those it should have. Hashes are injective. File
  contents are a few values, and what the analysis can tell of one is a constant.
* Names of files are constants of `ModuleKeys`: which names a file can be imported by
  (`import_names`), the directory each starts from, and its dotted path, given the files
  there are, packages' `__init__.py` among them. What the functions of `source/manager.py` and
  `modulegraph.py` make of paths is thereby an input; everything that is decided by names
  (which of them a module goes by, what an import means, what a key holds) is modelled.
* In `ConstantPropagation` a program has one variable, with a phi at every block,
  and the type part of an abstract value is left out because it decides no branch.
  The constants are parameters: which there are, which are taken for true, are equal to nothing,
  or may be several objects.
* In `ScheduledSummaries` a function has one parameter and its body is a set of
  paths through calls. What else a summary holds (effects on parameters, nonlocals,
  records of calls) is in `Taint`, whose fixpoint is over the functions of one
  module.
* In `ControlFlowGraph` a function has one variable and statements that assign or
  use it. The documented limits of the graph are the interpreter's there: an
  exception leaves a block at its end, `finally` and the end of `with` run on the
  normal path.
* In `Dominance` candidates are taken in reverse postorder, the order in which the
  code appends them to `predecessors`, and the successors of a block in any order.
* In `Taint` an instruction is one of the forms data flows through, and text is
  its kinds. In `Templates` markup is a sequence of atoms that stand for a
  name, an attribute, a delimiter, and what is inserted; filters have no arguments; which of
  the parts of a component a search takes first is not fixed. In `Refutation` a text
  is the kinds it is dangerous for. In `Correlation` a value is what it denotes.
* The codec of `ProjectCache` follows every field of every class the cache stores. Texts are any
  strings, and JSON by itself gives back the values it was given: what is checked
  is that nothing is left out, swapped, or read back as something else. Documents
  that `encode` did not write are misses, or damaged entries in `ProjectRun`.
* In `CheckRun` lines of code are tokens, a fingerprint is the tuple of what the
  code hashes, and others change the project or the baseline at the two places
  where a check looks at them a second time.

Fairness. Each liveness property stands under weak fairness of the program's own
steps only, never of an edit, a crash or a request: a run that is not interrupted
goes on (`Work`), a loop turns, a search and its components go on, and so do the
search and the passes of `Dominance` (one function that nothing interrupts). That an
evaluation of the manager ends is no property of its own: a computation asks for finitely
many results, and `NoReentry` bounds how deep computations nest. In `ProjectRun`,
fairness of all the work together is enough, because a pool that has a task and
a process to take it always has a step. `RunEnds` counts a crash as an end.

## 6. What is proved

For every value of the constants that satisfies the named assumptions, which TLC
evaluates on the instances. A theorem that needs more than those names it as its
own hypothesis.

* `EngineManagerProofs`: `EngineInvariant`, the inductive invariant; from it
  `EngineTypeCorrect`, `EngineFresh`, `EngineStack`, `EngineSettled` (while a settled module
  is checked its summaries are cached and read the index as it is, and nothing
  computes them again, then or after its results are dropped).
  Freshness by itself is not inductive: that a result in the cache is fresh
  needs that each computation in progress has read only fresh results, which
  needs that what it asked for is below it in the declared dependencies (the list
  is the stack), that a pass drops the results of everything above the input it
  replaces (`Dependencies` closed), and that an input is provided before anything
  above it is asked for, which is what the stages of the engine say. The last is
  where the code relies on the order of its statements. The assumption
  on the tables, `EngineAssumption`, is checked by TLC on the engine's own.
  The second part is about the manager under any client: `ManagerInvariant` gives
  `ManagerNeverReenters` and `ManagerShares`. What `get()` checks is that each
  computation asks only for what its analysis requires, which relates
  neighbours on the stack; that no key is on it twice needs the ranks to descend
  between any two frames, and that no result is computed twice needs that
  nothing on the stack is cached. Both theorems take as a hypothesis that the
  analyses can be ranked with each requiring only lower ones.
* `ProjectRunProofs`: `RunInvariant`, for any files, names, imports, roots, number of
  workers and runs; from it `ImportsSpooled` (a worker finds the entries of everything
  its component imports, edits under a pool or not), `CacheIsSound` (an entry was
  computed from exactly what its key names), `ReportsAreCurrent` (every result of a report
  was computed from the configuration, texts and names of all the module imports, as
  this run read them), `ResultsAreSound` (a report is the one from scratch) and
  `RunsKeepThePromise` (the runs implement `AnalyzeProject`: every step is one of the
  abstract run, or none).
  Soundness of the cache is not inductive by itself. Each entry has to stand for
  a module of some run (`CacheRight`), and so do those of the spool, of the wave's
  results, and of what a worker has read (`Results`, `WorkerRight`), because each
  moves to the others; the texts a worker was sent are those the run read. That
  a key names *all* that was read needs that finished modules are closed under
  imports (`Waved`), so that what a component reads is either of its own wave or
  finished and kept where it is looked for (`Findable`); and that a report has an
  entry for each module needs that no component of a wave is dropped between
  the pool and the store (`Covered`).
  The code does not ensure the hypotheses: they are the disagreements of section 4, excluded.
  All but the first two theorems assume `"pool" \notin LiveEdits`: no file is edited while
  a pool works. `ResultsAreSound` and `RunsKeepThePromise` assume three things more:
  `DistinctNames`, that no two files a run finds can be imported by one name,
  `SameContexts`, that plugins tell the same of a file under every root, and that no advisory
  matches by suffix. From these follows what the keys have to give, that equal keys
  have equal results (`KeysSuffice`), which is the lemma `DistinctNamesSuffice`. Its
  argument is that a name some import is resolved by is held by the same files under
  both contents, as long as the files that are reached have the same names and
  texts (`HoldersKept`); so the longest prefix held is the same (`NamedKept`), and what it is
  resolved to (`ResolvedAlike`). In the instance of `project_run` two files do share a name:
  there the result rests on the directories that tell them apart, and on TLC alone.
* `ProjectCacheProofs`: `EncodedDecodes`, every module that can be stored decodes to
  itself, through every class a module contains; `CacheInvariant`; from them
  `CacheWhole` (no load finds a truncated entry) and `CacheAtomic` (the directory
  implements `AtomicCache`, by a mapping under which a store takes effect when its
  file is renamed). The invariant says that temporary names belong to one
  process each and that a temporary file about to be renamed is the whole document
  of a module. `CodecAssumption` says that null is not a list.
* `DataflowProofs`: `SolverTypeCorrect`, `SourcesAreBlocks` and `SolverSettles`, for any
  flow function, monotone or not: an evaluated block that is not queued agrees
  with what its successors hold. `OthersKeepTheirs` is the lemma that evaluating
  one block leaves what others have sent in place. `ConstantsAreSound` is about
  the constants problem: when the worklist is empty, the facts cover every
  execution. Its argument is that covered states are closed under what the interpreter does
  next: in one step a block's own definition is covered (`DefinitionCovers`), the
  branch taken is not pruned, and what the successor joins covers what arrives
  (`JoinCovers`); executions are the bounded iteration of that step. Its
  hypothesis, `ConstantProblem`, is what programs are: finitely many blocks, no edge back
  to the entry, and tests that are folded as the interpreter decides them. The last leaves
  out programs the code does accept, those that compare by `is` with a literal the
  interpreter may keep several objects of: there the facts are wrong (section 4). Programs have
  one variable; their constants are any finite set.
* `ScheduleProofs`: `SearchInvariant`; from it `ComponentsAreTheCycles` and
  `WavesFollowTheImports`, for any modules, imports and order of names, with no
  hypothesis. Neither is inductive: they speak of a search that is over, and
  nothing they say mentions the numbers. The invariant says that modules are
  numbered as they are visited and that the stack and the calls are in that order
  (`Numbered`); that a module visited is on the stack or in one component (`Held`); that
  a visit in progress leads to everything above it on the stack (`Above`); that a low
  link is the number of a stacked module that is reached, and lower than the
  module's own unless its visit is in progress (`Linked`); that the low link of a visit
  bounds what the modules above it, and below the next visit, import on the stack
  (`Bounded`); and that the members of a component lead to one another and to nothing
  but components found before (`Closed`). From the last, what a module of a component
  reaches and is reached from is that component (`LeadsBack` gives the other
  direction: from anything on the stack there is a way down to a visit in
  progress); and levels are well defined, because a component imports
  lower-numbered ones only.
  The second part is about what the components then iterate: `SettleInvariant`, and
  from it `SettledSummariesAreLeast`. What a component settles on is the least
  solution over the whole project, around any cycle of imports and in any order of
  rounds. Dependencies are ordered by `Within`, and each rule of a summary gives more
  for more (`KnownGrows`, `ExternalGrows`, `AlongGrows`, `SummaryGrows`): this is what the
  comment on the loop in `_analyse_managers` relies on ("each iteration can only
  add"; "A rule reading the index without joining would break this"). Folding `Or` over
  the paths is their join, in whatever order (`FoldIsJoin`), and the rounds that define
  `Least` have reached their fixpoint, since what a table holds only grows and fits in
  as many entries as there are rounds (`LeastFacts`). That what settles is least is not
  inductive: a settled index agrees with the code only because, in the last pass,
  each module's table agreed with the index *and* the tables before it, and it
  is not above the least only because nothing ever was. The invariant says that what is
  kept is least (`Final`); that the index and the tables are within the least, the index
  exactly so for other modules (`Indexed`, `Tabled`); and that the tables of the modules
  before the current one agree with the code and the index (`Progress`). That
  the index knows all that the members call, when a component begins, is
  `ImportsAreFinal`, and rests on the levels of the first part. The hypotheses are
  `FixpointAssumption` and `CodesAssumption`: finitely many functions, symbols, kinds and
  paths.
* `DominanceProofs`: `TreeInvariant`; from it `DominanceIsExact` (the finished tree says
  of every two blocks whether all paths to the one lead through the other),
  `FrontierIsTheBoundary` (the frontier of a block is where its dominance ends), together
  `TreeIsDominance` (`TreeIsExact`), and `NothingIsMissing` (the first candidate and the
  ways up of `intersect`, which the code takes unasked, are there), for every finite graph, reducible or not, and every root. None
  is inductive: the tree is exact at the end only, and what is wrong with it before
  depends on where the pass is. The invariant says of the search that each block whose
  visit is over comes, in the order or on the path, after one that leads to it
  (`Searching`), so that in the end the order has what is reached, each block before
  some block that leads to it, and the root last (`Ordered`). From this a strict dominator
  is in a later place (`DominatorsAreLater`, by induction down from the root's). Of the
  passes it says that the way up goes to later places (`Climbing`) and never past a
  strict dominator (`Sound`, `Intersecting`), in every pass, so what dominates a
  block is always above it (`OnPathsIsAbove`). The converse holds only of a pass that changed nothing: its
  immediate dominators are above all predecessors (`Passing`), and
  once that is so of all blocks (`Complete`), the blocks that a path can reach without
  one above them are none: they are closed under edges (`AboveIsOnPaths`). A walk goes
  up only from the block that is earlier in the postorder, which is not the root, so it
  stays in the tree; that the two walks meet, and the passes end, is `TreeIsDone`. The one
  hypothesis is `DominanceAssumption`: the blocks are finitely many and the root is one.
* `CheckRunProofs` has two invariants. `CheckInvariant` is about the file; from it
  `CheckStops` (a check that fails before it recorded leaves the baseline as it was, and one
  that is killed as it was or complete) and `CheckKeepsKeys` (a check without a key leaves a
  keyed baseline keyed). It says that until it replaces the baseline
  a check finds it as it was, unless it was moved, that only a check that was
  allowed to record over what it found writes, and that what it writes is keyed
  exactly when it has a key.
  `FindingsInvariant` is about the findings; from it `RefinementsTraced`
  (`RefinementsAreTraced`), `CheckReportsTheNew` (`ExactlyTheNewAreReported`) and
  `CheckHidesNothing` (`NothingIsHidden`), for any projects, plugins, refiners in any
  number, keys, and baselines of every schema. The invariant says that a check analyses
  a project there was, whose refiners kept their contract (`Sources`); that the baseline in
  place agrees with all that is accepted for it (`World`), and so does the one that was
  read (`Previous`); that what is accounted for is what was found, all of it when the check
  records (`Results`); and that what a recording check leaves accepts exactly that
  (`Replaced`). `Agrees` is what holds between a baseline and what it was recorded
  for: as many entries for the fingerprint of a finding as there are copies of the finding
  accepted, and none for a finding whose old entry could be another's.
  That recording makes a baseline that agrees (`RecordedAgrees`), and that entries are taken
  only by what was accepted, rest on `FingerprintsTell`: in each of the four schemas, two
  findings have one fingerprint, unless it is none, exactly when a reader takes them for the
  same, which needs that findings lie on lines their files have. `Traces` relates a finding to the one
  reported; every refiner keeps it (`RefinersTell`), by what `Traced` and the contract
  check do, and so does what the engine adds before and after (`SituatedTraces`, `SourcedTraces`).
  Counting is the rest: `Among` leaves as many of any kind as there were
  (`AmongFacts`), so what is not set aside is found (`NotAsideIsFound`); and after n
  findings, `Partition` has taken as many entries of a fingerprint as there were
  findings with it, or all there were (`Parted`, kept by each step, `TakenKeeps`), so
  what is new is what exceeds the entries (`PartitionAgrees`).
  The hypotheses are of what the code takes from others. `ReportAssumption`: plugins report
  findings on lines their files have, and leave to the engine the metadata it writes itself.
  `RefineAssumption`: refiners return findings on such lines, unless they break the contract
  and end the check; what metadata they add is up to them. `BaselinesAssumption`: a
  baseline put in place agrees with what it is said to accept. Section 4 has what goes
  wrong without the first, and TLC evaluates all three on the eleven projects of
  `checks`, refiners that break the contract and baselines of each schema among them.
  Two of the properties have an exception in their own statement, for what the code
  accepts and the documentation does not say: where a refiner added the trace's own keys
  the trace may not be readable, and where one made a finding one about an advisory the
  policy may set it aside (`Adds`).
* `Closures` has the lemmas about numbers and sets that the others share.

Induction. The library's induction theorems take an operator, which none of the
installed provers instantiates. `Closures` gets it from a set instead: if some
number up to a bound is not in a set, there is a least one, and the one before
it is in the set (`LeastNumber`, `UpTo`). With that, what a *bounded iteration* of a
step computes can be proved for every input: it exists, is least among the closed
sets, grows, and is closed once the bound is the number of elements
(`IterationExists`, `IterationIsLeast`, `IterationGrows`, `IterationCloses`). `Reach` in
`ModuleKeys`, `Executions` in `ConstantPropagation` and `Reached` in `ModuleSchedule` and
`DominanceTree` are such iterations, written as recursive functions for that
reason (`SteppingIterates`). Steps that are not unions are computed one by one (`StepByStep`), and
a set that grows at every step stops within as many steps as it can have elements
(`GrowthStops`). The loops over findings are unfolded the same way: there is a function of how
many were done that each step of the loop extends (`RefinesExists`, `SelectsExists`,
`PartsExist`), so the recursive one is it, and what each step keeps holds at the end. A fold over a finite set is no recursive operator of the module that
uses it: `FoldIsJoin` unfolds it, by induction on the number of elements.

Only model-checked:

* every liveness property (`SolverEnds`, `RunEnds`, `TreeIsDone`, the search and the
  fixpoint that settle): fairness and `ENABLED` are outside what the provers do;
* `FunctionExecution`, `Taint`, `TemplateRendering`, `Refutation` and
  `AdvisoryExecution`, and with them the invariants that judge the control flow
  graph, SSA, taint, templates, refutation and advisories: they are built on
  recursive operators over statements, trees and graphs, and a module that
  reaches a recursive operator is out of reach of the SMT backend.

## 7. Plan

Modelled first because everything rests on it: the manager, the engine's order,
the run with its cache and pool; then the algorithms under it (solver, constants,
summaries, schedule, dominators); then what the findings are made of (graphs and SSA, taint,
templates, refutation, advisories) and what becomes of them. What is left, in
this order:

1. Clearing that depends on arguments, and the templates a call renders, in the
   summaries and taint.
2. Frameworks' routes as entry points; sinks made of commands.
3. Scopes and closures of `semantic/scopes.py` against Python's rules.
4. Ranges over integers, with widening, as a second client of the solver.

## 8. Not modelled

`PROJECT.json` has, for each component that is modelled partly, what is left out.
In short: scanners of characters (template syntax, shell words, secrets) have no
state and are better tested; the translations from tree to tree (front end,
lowering of expressions, scopes) and the bundled rules are pure functions of one
tree; formats (reports, manifests, lock files, SBOMs) are input and output; the
discovery of plugins and the table of open files run once, in order. Arithmetic on
floats (`abstract/ranges.py`) is outside TLC: an int constant beyond the float
range raises `OverflowError` there (`abstract/ranges.py:181`), which is a hazard
listed without a property, as is the recursion limit
(`interprocedural/modulegraph.py:200`). A malformed manifest (`engine.py:467`) ends the
run in one step, before anything is modelled.
