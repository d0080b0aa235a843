----------------------------- MODULE AnalyzeProject ----------------------------
(***************************************************************************)
(* What analyze_project promises, without its cache, waves and processes:  *)
(* a run reads every file once, one after the other, while they may be     *)
(* edited, and reports for each module what an analysis from scratch of    *)
(* what it read gives.                                                     *)
(***************************************************************************)
EXTENDS ModuleKeys, Sequences

CONSTANTS
    Order,     \* the order files are read in: Conf, then the modules by path
    NoReport

VARIABLES
    disk,      \* the contents of each file
    phase,     \* "idle", "read" or "analyse"
    root,      \* the root of the run
    snap,      \* the contents read so far
    report     \* what the last run to end reported

abstractVars == <<disk, phase, root, snap, report>>

Report(r, s) == [root |-> r, snap |-> s, entries |-> [m \in Analysable(r, s) |-> FromScratch(r, s, m)]]

Edit ==
    /\ \E f \in Files, t \in Texts : disk' = [disk EXCEPT ![f] = t]
    /\ UNCHANGED <<phase, root, snap, report>>

Begin ==
    /\ phase = "idle"
    /\ root' \in Roots
    /\ phase' = "read"
    /\ snap' = <<>>
    /\ UNCHANGED <<disk, report>>

ReadFile ==
    /\ phase = "read"
    /\ \E f \in Files \ DOMAIN snap :
          snap' = [g \in DOMAIN snap \cup {f} |-> IF g = f THEN disk[f] ELSE snap[g]]
    /\ phase' = IF DOMAIN snap' = Files THEN "analyse" ELSE "read"
    /\ UNCHANGED <<disk, root, report>>

Answer ==
    /\ phase = "analyse"
    /\ phase' = "idle" /\ snap' = <<>>
    /\ report' = Report(root, snap)
    /\ UNCHANGED <<disk, root>>

\* A run that does not end leaves the last report as it was.
Abort ==
    /\ phase # "idle"
    /\ phase' = "idle" /\ snap' = <<>>
    /\ UNCHANGED <<disk, root, report>>

AbstractInit ==
    /\ disk \in [Files -> Texts]
    /\ phase = "idle"
    /\ root \in Roots
    /\ snap = <<>>
    /\ report = NoReport

AbstractSpec == AbstractInit /\ [][Edit \/ Begin \/ ReadFile \/ Answer \/ Abort]_abstractVars
=============================================================================
