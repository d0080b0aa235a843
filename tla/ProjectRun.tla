------------------------------- MODULE ProjectRun ------------------------------
(***************************************************************************)
(* Runs of analyze_project over a project directory and a persistent       *)
(* cache, one after the other, each in this process or with a pool of      *)
(* worker processes; files are edited, runs are interrupted and cache      *)
(* entries are lost on the way.                                            *)
(*                                                                         *)
(*   pc         what the run is doing: "idle" between runs, "read",        *)
(*              "load" (cache), "wave" (choosing one), "work", "store"     *)
(*   graph      the module graph of what it has read                       *)
(*   jobs       "serial", or "pool" for jobs > 1                           *)
(*   caching    the run was given the cache                                *)
(*   cache      the entries of the cache, by key                           *)
(*   spool      those of the run's temporary directory                     *)
(*   results    the results the run knows, by module                       *)
(*   done       the modules of earlier waves                               *)
(*   pending    the components of the wave nobody analyses yet             *)
(*   computed   the results of the wave so far                             *)
(*   stored     those of them written for later waves and runs             *)
(*   worker     what each worker process works on and has read            *)
(*   hurt       an entry was lost during the run                           *)
(***************************************************************************)
EXTENDS ModuleKeys, Sequences, Functions

CONSTANTS
    Order,       \* the order files are read in: Conf, then the modules by path
    NoReport,
    Workers,
    NoText,      \* the configuration of a worker not started
    Damaged,     \* an entry that cannot be decoded
    Jobs,        \* the values of jobs the runs are given: a subset of {"serial", "pool"}
    Projects,    \* the contents the files may have at first
    LiveEdits,   \* the values of jobs with which files are edited while a run reads them
    MaxRuns, MaxEdits, MaxFaults  \* bounds

\* Results, by what they may have been computed from.
Owns == [file : Modules, name : Names \cup Modules, names : Seq(Names), text : Texts]
Contexts == {Context[r][m] : r \in Roots, m \in Modules}
SeenModules == [own : Owns, resolved : SUBSET [name : Names, to : SUBSET Modules]]
Entries == [conf : Texts, context : Contexts, matched : SUBSET Names, seen : SUBSET SeenModules]

ASSUME RunAssumption ==
    /\ Order \in Seq(Files)
    /\ Files = {Order[i] : i \in DOMAIN Order}
    /\ \A i, j \in DOMAIN Order : Order[i] = Order[j] => i = j
    /\ Projects \subseteq [Files -> Texts]
    /\ Jobs \subseteq {"serial", "pool"}
    /\ Damaged \notin Entries

VARIABLES
    disk, pc, root, snap, graph, report, jobs, caching, cache, spool, results, done, pending, computed, stored, worker,
    hurt, runs, edits, faults

run == <<root, jobs, caching, graph>>
progress == <<results, done, pending, computed, stored>>
bounds == <<runs, edits, faults>>
vars == <<disk, pc, snap, report, run, cache, spool, progress, worker, hurt, bounds>>

KeyOf(m) == Key(graph, snap, m)
Idle == [conf |-> NoText, task |-> {}, texts |-> <<>>, read |-> <<>>]

\* The modules outside a component whose summaries it reads: all those its members
\* import, transitively.
Needed(c) == (UNION {Reach(graph, m) : m \in c}) \ c

-----------------------------------------------------------------------------
(* The stores.                                                             *)

\* Where finished modules are kept for the next waves, and what a load finds: an
\* entry that is not there or cannot be decoded is a miss.
Kept == IF caching THEN cache ELSE spool
Hit(entries, k) == k \in DOMAIN entries /\ entries[k] # Damaged
With(entries, k, e) == [x \in DOMAIN entries \cup {k} |-> IF x = k THEN e ELSE entries[x]]

-----------------------------------------------------------------------------
(* A run.                                                                  *)

Begin(r, j, c) ==
    /\ pc = "idle"
    /\ runs < MaxRuns
    /\ runs' = runs + 1
    /\ pc' = "read"
    /\ root' = r /\ jobs' = j /\ caching' = c /\ graph' = <<>>
    /\ snap' = <<>>
    /\ hurt' = FALSE
    /\ UNCHANGED <<disk, report, cache, spool, progress, worker, edits, faults>>

ReadFile ==
    /\ pc = "read"
    /\ LET f == Order[Cardinality(DOMAIN snap) + 1]
       IN  snap' = With(snap, f, disk[f])
    /\ pc' = IF DOMAIN snap' = Files THEN "load" ELSE "read"
    /\ graph' = IF DOMAIN snap' = Files THEN Graph(root, snap') ELSE <<>>
    /\ UNCHANGED <<disk, report, root, jobs, caching, cache, spool, progress, worker, hurt, bounds>>

Load ==
    /\ pc = "load"
    /\ results' = [m \in {x \in graph.modules : caching /\ Hit(cache, KeyOf(x))} |-> cache[KeyOf(m)]]
    /\ done' = {} /\ computed' = <<>> /\ stored' = {}
    /\ pc' = "wave"
    /\ UNCHANGED <<disk, report, run, snap, cache, spool, pending, worker, hurt, bounds>>

NextWave ==
    /\ pc = "wave"
    /\ done # graph.modules
    /\ pending' = {c \in Wave(graph, done) : ~(c \subseteq DOMAIN results)}
    /\ pc' = "work"
    /\ UNCHANGED <<disk, report, run, snap, cache, spool, results, done, computed, stored, worker, hurt, bounds>>

\* The results of a component: its members as their contents were read, with what
\* the entries of the modules it imports were computed from.
Analysed(c, conf, texts, imported) ==
    [m \in c |->
        [conf |-> conf,
         context |-> Context[root][m],
         matched |-> Matched(graph, m, texts[m]),
         seen |-> {Seen(graph, snap, x, texts[x]) : x \in c} \cup UNION {imported[y].seen : y \in DOMAIN imported}]]

\* Later results first, as dict.update leaves them.
Updated(found, more) == [m \in DOMAIN found \cup DOMAIN more |-> IF m \in DOMAIN more THEN more[m] ELSE found[m]]

\* A component analysed in this process, from the sources and results in memory.
AnalyseHere(c) ==
    /\ pc = "work"
    /\ jobs = "serial"
    /\ c \in pending
    /\ pending' = pending \ {c}
    /\ computed' = Updated(computed,
                           Analysed(c, snap[Conf], Restrict(snap, c), Restrict(results, Needed(c))))
    /\ UNCHANGED <<disk, pc, report, run, snap, cache, spool, results, done, stored, worker, hurt, bounds>>

\* A worker process reads the configuration when the pool starts it, and the files
\* of a component when it is handed one.
StartWorker(w) ==
    /\ pc = "work"
    /\ jobs = "pool"
    /\ pending # {}
    /\ worker[w].conf = NoText
    /\ worker' = [worker EXCEPT ![w].conf = disk[Conf]]
    /\ UNCHANGED <<disk, pc, report, run, snap, cache, spool, progress, hurt, bounds>>

TakeTask(w, c) ==
    /\ pc = "work"
    /\ c \in pending
    /\ worker[w].conf # NoText
    /\ worker[w].task = {}
    /\ pending' = pending \ {c}
    /\ worker' = [worker EXCEPT ![w].task = c, ![w].texts = Restrict(disk, c)]
    /\ UNCHANGED <<disk, pc, report, run, snap, cache, spool, results, done, computed, stored, hurt, bounds>>

\* The worker reads the entries of what the component needs, those it has not read for
\* an earlier one from the spool.
Imported(w, c) ==
    [m \in Needed(c) |-> IF KeyOf(m) \in DOMAIN worker[w].read THEN worker[w].read[KeyOf(m)] ELSE Kept[KeyOf(m)]]

Able(w) ==
    /\ \A m \in worker[w].task : worker[w].texts[m] \notin Broken
    /\ \A m \in Needed(worker[w].task) : KeyOf(m) \in DOMAIN worker[w].read \/ Hit(Kept, KeyOf(m))

FinishTask(w) ==
    /\ pc = "work"
    /\ worker[w].task # {}
    /\ Able(w)
    /\ LET imported == Imported(w, worker[w].task)
           read == [k \in {KeyOf(m) : m \in DOMAIN imported} |-> imported[CHOOSE m \in DOMAIN imported : KeyOf(m) = k]]
       IN  /\ computed' = Updated(computed, Analysed(worker[w].task, worker[w].conf, worker[w].texts, imported))
           /\ worker' = [worker EXCEPT ![w].task = {}, ![w].texts = <<>>, ![w].read = Updated(@, read)]
    /\ UNCHANGED <<disk, pc, report, run, snap, cache, spool, results, done, pending, stored, hurt, bounds>>

\* Everything of the wave has been analysed.
Collect ==
    /\ pc = "work"
    /\ pending = {}
    /\ \A w \in Workers : worker[w].task = {}
    /\ pc' = IF jobs = "pool" \/ caching THEN "store" ELSE "wave"
    /\ IF jobs = "pool" \/ caching
       THEN UNCHANGED <<results, done, computed>>
       ELSE /\ results' = Updated(results, computed)
            /\ done' = done \cup UNION Wave(graph, done)
            /\ computed' = <<>>
    /\ UNCHANGED <<disk, report, run, snap, cache, spool, pending, stored, worker, hurt, bounds>>

StoreInCacheOnly(m) ==
    /\ pc = "store"
    /\ m \in DOMAIN computed \ stored
    /\ stored' = stored \cup {m}
    /\ cache' = IF caching THEN With(cache, KeyOf(m), computed[m]) ELSE cache
    /\ UNCHANGED <<disk, pc, report, run, snap, spool, results, done, pending, computed, worker, hurt, bounds>>

\* One result is written, replacing what was there at once.
Store(m) ==
    /\ pc = "store"
    /\ m \in DOMAIN computed \ stored
    /\ stored' = stored \cup {m}
    /\ IF caching
       THEN /\ cache' = With(cache, KeyOf(m), computed[m])
            /\ UNCHANGED spool
       ELSE /\ spool' = With(spool, KeyOf(m), computed[m])
            /\ UNCHANGED cache
    /\ UNCHANGED <<disk, pc, report, run, snap, results, done, pending, computed, worker, hurt, bounds>>

EndWave ==
    /\ pc = "store"
    /\ stored = DOMAIN computed
    /\ results' = Updated(results, computed)
    /\ done' = done \cup UNION Wave(graph, done)
    /\ computed' = <<>> /\ stored' = {}
    /\ pc' = "wave"
    /\ UNCHANGED <<disk, report, run, snap, cache, spool, pending, worker, hurt, bounds>>

\* The pool, the temporary directory and what the run knew are gone, whatever ended it.
Closed ==
    /\ pc' = "idle"
    /\ spool' = <<>>
    /\ results' = <<>> /\ done' = {} /\ pending' = {} /\ computed' = <<>> /\ stored' = {}
    /\ worker' = [w \in Workers |-> Idle]
    /\ jobs' = "serial" /\ caching' = FALSE /\ snap' = <<>> /\ graph' = <<>> /\ hurt' = FALSE
    /\ UNCHANGED <<disk, root, cache>>

Finish ==
    /\ pc = "wave"
    /\ done = graph.modules
    /\ report' = [root |-> root, snap |-> snap, entries |-> results]
    /\ Closed
    /\ UNCHANGED bounds

\* A worker misses an entry, or cannot parse what has become of a file: the exception
\* ends the run.
FailTask(w) ==
    /\ pc = "work"
    /\ worker[w].task # {}
    /\ ~Able(w)
    /\ Closed
    /\ UNCHANGED <<report, bounds>>

-----------------------------------------------------------------------------
(* What happens around the runs.                                           *)

Edit(f, t) ==
    /\ pc = "idle" \/ jobs \in LiveEdits
    /\ edits < MaxEdits
    /\ t # disk[f]
    /\ edits' = edits + 1
    /\ disk' = [disk EXCEPT ![f] = t]
    /\ UNCHANGED <<pc, report, run, snap, cache, spool, progress, worker, hurt, runs, faults>>

\* The run is killed, or its pool loses a process.
Crash ==
    /\ pc # "idle"
    /\ faults < MaxFaults
    /\ faults' = faults + 1
    /\ Closed
    /\ UNCHANGED <<report, runs, edits>>

\* An entry of the cache is lost or spoilt by something else.
Damage(k) ==
    /\ faults < MaxFaults
    /\ k \in DOMAIN cache
    /\ cache[k] # Damaged
    /\ faults' = faults + 1
    /\ cache' = With(cache, k, Damaged)
    /\ hurt' = TRUE
    /\ UNCHANGED <<disk, pc, report, run, snap, spool, progress, worker, runs, edits>>

-----------------------------------------------------------------------------

Init ==
    /\ disk \in Projects
    /\ pc = "idle"
    /\ root \in Roots /\ jobs = "serial" /\ caching = FALSE
    /\ snap = <<>> /\ graph = <<>>
    /\ report = NoReport
    /\ cache = <<>> /\ spool = <<>>
    /\ results = <<>> /\ done = {} /\ pending = {} /\ computed = <<>> /\ stored = {}
    /\ worker = [w \in Workers |-> Idle]
    /\ hurt = FALSE
    /\ runs = 0 /\ edits = 0 /\ faults = 0

Work ==
    \/ ReadFile \/ Load \/ NextWave \/ Collect \/ EndWave \/ Finish
    \/ \E c \in pending : AnalyseHere(c) \/ \E w \in Workers : TakeTask(w, c)
    \/ \E w \in Workers : StartWorker(w) \/ FinishTask(w) \/ FailTask(w)
    \/ \E m \in DOMAIN computed : Store(m)

Next ==
    \/ \E r \in Roots, j \in Jobs, c \in BOOLEAN : Begin(r, j, c)
    \/ Work
    \/ \E f \in Files, t \in Texts : Edit(f, t)
    \/ Crash
    \/ \E k \in DOMAIN cache : Damage(k)

\* A run that is not interrupted keeps working.
Spec == Init /\ [][Next]_vars /\ WF_vars(Work)

-----------------------------------------------------------------------------
(* Properties.                                                             *)

\* A key names exactly what its entry was computed from, so an entry can be served
\* to any run that computes the same key.
CacheSound ==
    \A k \in DOMAIN cache :
        cache[k] # Damaged =>
            /\ cache[k].conf = k.conf
            /\ {x.own : x \in cache[k].seen} = {k.own} \cup k.imported

\* What a run reports is what an analysis from scratch of what it read reports,
\* whatever was cached, lost, interrupted or edited before, with any jobs.
ResultsSound ==
    report # NoReport =>
        /\ DOMAIN report.entries = Analysable(report.root, report.snap)
        /\ \A m \in DOMAIN report.entries : report.entries[m] = FromScratch(report.root, report.snap, m)

\* A worker finds every entry its component imports, unless one was lost meanwhile:
\* those of earlier waves were stored, those served from the cache are there.
ImportsAreSpooled ==
    ~hurt => \A w \in Workers : \A m \in Needed(worker[w].task) : Hit(Kept, KeyOf(m))

\* Every run ends, with a report or not.
RunEnds == (pc # "idle") ~> (pc = "idle")

\* The runs implement those of an analyzer without cache, waves or processes.
Phase == CASE pc \in {"idle", "read"} -> pc [] OTHER -> "analyse"
Promise == INSTANCE AnalyzeProject WITH phase <- Phase
PromiseKept == Promise!AbstractSpec
=============================================================================
