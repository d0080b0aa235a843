------------------------- MODULE MCScheduledSummaries -------------------------
(***************************************************************************)
(* Projects of four modules: every import graph, with a function each, and *)
(* two modules of two functions, one of them unsupported, that call one    *)
(* another in many ways.                                                   *)
(***************************************************************************)
EXTENDS ScheduledSummaries

CONSTANTS clean, source

MCFunctions == 1..6
MCModules == 1..4
MCModuleOf == <<1, 1, 2, 2, 3, 4>>
MCUnsupported == {4}
MCExternals == {clean, source}
MCKinds == {"html", "shell"}
MCClears == [e \in MCExternals |-> IF e = clean THEN {"html"} ELSE {}]

Path(parameter, callees) == [parameter |-> parameter, calls |-> callees]

\* A path that needs no other function, and one that goes through one.
Bases == {Path(FALSE, <<>>), Path(TRUE, <<>>), Path(TRUE, <<clean>>), Path(FALSE, <<source>>)}
Calls(fs) == {Path(TRUE, <<f>>) : f \in fs} \cup {Path(TRUE, <<clean, f>>) : f \in fs}
Bodies(fs) == {{base, call} : base \in Bases, call \in Calls(fs)} \cup {{base} : base \in Bases}
Small(fs) == {{Path(FALSE, <<source>>), call} : call \in Calls(fs)} \cup {{base} : base \in Bases}

First(m) == CHOOSE f \in MCFunctions : MCModuleOf[f] = m /\ \A g \in MCFunctions : MCModuleOf[g] = m => f <= g
AsGraph(g) ==
    [f \in MCFunctions |->
        IF f # First(MCModuleOf[f]) THEN {}
        ELSE {Path(TRUE, <<First(m)>>) : m \in g[MCModuleOf[f]]}
             \cup CASE f = 1 -> {Path(FALSE, <<source>>)} [] f = 3 -> {Path(TRUE, <<clean>>)} [] OTHER -> {}]
MCCodes ==
    {AsGraph(g) : g \in {h \in [MCModules -> SUBSET MCModules] : \A m \in MCModules : m \notin h[m]}}
    \cup {[f \in MCFunctions |-> CASE f = 1 -> a [] f = 2 -> b [] f = 3 -> c [] OTHER -> {}] :
            a \in Bodies({2, 3}), b \in Small({1, 3}), c \in Small({1, 2, 4})}
=============================================================================
