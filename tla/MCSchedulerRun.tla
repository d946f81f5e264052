--------------------------- MODULE MCSchedulerRun ----------------------------
(***************************************************************************)
(* A small task reference for SchedulerRun: after a, three tasks that      *)
(* compete for two resources, a generation larger than the two workers;    *)
(* then d, which needs two of them, and f, which needs the third, so that  *)
(* a failure dooms one of them and not the other. Two depend on a task of  *)
(* the hub.                                                                *)
(***************************************************************************)
EXTENDS SchedulerRun, FiniteSetsExt, TLC

CONSTANTS a, b, c, d, e, f, hub, r1, r2, w1, w2

MCTasks     == {a, b, c, d, e, f}
MCAbsent    == {hub}
MCResources == {r1, r2}
MCWorkers   == {w1, w2}

MCDeps ==
    (a :> <<>>) @@ (b :> <<a>>) @@ (c :> <<hub, a>>) @@ (d :> <<b, c>>) @@ (e :> <<hub, a>>)
        @@ (f :> <<e>>)

MCNeeds ==
    (a :> {r1}) @@ (b :> {r1}) @@ (c :> {r1, r2}) @@ (d :> {}) @@ (e :> {r2}) @@ (f :> {})

MCGenerations ==
    [G \in SUBSET MCTasks |->
        LET gen[t \in G] ==
                IF DependentsWithin(G, t) = {} THEN 0
                ELSE 1 + Max({gen[u] : u \in DependentsWithin(G, t)})
        IN  gen]
=============================================================================
