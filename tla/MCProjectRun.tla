----------------------------- MODULE MCProjectRun ------------------------------
(* Three files: pkg/__init__.py (a), c.py (b) and pkg/sub/c.py (c). a imports c, which *)
(* is b: pkg.sub.c is c only beside itself, unless pkg is no package, when both files  *)
(* are c. b imports pkg.sub.c, which is c; without it, pkg, so that a and b are a      *)
(* component; and c imports c, which is itself.                                        *)
EXTENDS ProjectRun

CONSTANTS a, b, c, conf, t1, t2, gone, top, sub, w1, w2

MCModules == {a, b, c}
MCTexts == {t1, t2, gone}
MCBroken == {gone}
MCUnder == [r \in Roots |-> IF r = top THEN MCModules ELSE {c}]
MCNames == {"pkg", "pkg.sub", "pkg.sub.c", "c"}
MCPrefixes ==
    [n \in MCNames |->
        CASE n = "pkg.sub.c" -> <<n, "pkg.sub", "pkg">>
          [] n = "pkg.sub" -> <<n, "pkg">>
          [] OTHER -> <<n>>]
MCImportNames ==
    [r \in Roots |-> [there \in SUBSET MCModules |-> [m \in MCModules |->
        CASE m = a -> <<"pkg">>
          [] m = b -> <<"c">>
          [] OTHER -> IF a \in there THEN <<"pkg.sub.c", "c">> ELSE <<"c">>]]]
MCStartsFrom == [m \in MCModules |-> [n \in MCNames |-> IF m = c /\ n = "c" THEN sub ELSE top]]
MCDottedPath == [r \in Roots |-> [m \in MCModules |-> CASE m = a -> "pkg" [] m = c /\ r = top -> "pkg.sub.c" [] OTHER -> "c"]]
MCImports ==
    [m \in MCModules |-> [t \in MCTexts |->
        CASE t = gone -> {}
          [] m = b -> IF t = t1 THEN {"pkg.sub.c"} ELSE {}
          [] OTHER -> {"c"}]]
MCDerives == [m \in MCModules |-> [t \in MCTexts |-> {}]]
MCOrder == <<conf, b, a, c>>
MCFiles == MCModules \cup {conf}

\* A chain; a component of two modules; two files of one module name.
MCProjects ==
    {[f \in MCFiles |-> t1],
     [f \in MCFiles |-> IF f = c THEN gone ELSE t1],
     [f \in MCFiles |-> IF f = a THEN gone ELSE t1]}

\* Plugins tell nothing, or where a file lies, by its path under the root.
SameContext == [r \in Roots |-> [m \in MCModules |-> "any"]]
PathContext == [r \in Roots |-> [m \in MCModules |-> IF r = top THEN "test" ELSE "product"]]
=============================================================================
