--------------------------- MODULE MCWorkerRun ----------------------------
(***************************************************************************)
(* A small task reference for WorkerRun: a diamond whose two middle tasks  *)
(* compete for a resource, and a task that competes for another one and    *)
(* depends only on a task that already ran in the hub.                     *)
(***************************************************************************)
EXTENDS WorkerRun, FiniteSetsExt, TLC

CONSTANTS a, b, c, d, e, hub, r1, r2, w1, w2

MCTasks     == {a, b, c, d, e}
MCAbsent    == {hub}
MCResources == {r1, r2}
MCWorkers   == {w1, w2}

MCDeps ==
    (a :> <<>>) @@ (b :> <<a>>) @@ (c :> <<hub, a>>) @@ (d :> <<b, c>>) @@ (e :> <<hub>>)

MCNeeds ==
    (a :> {r1}) @@ (b :> {r1}) @@ (c :> {r1, r2}) @@ (d :> {}) @@ (e :> {r2})

MCGenerations ==
    [G \in SUBSET MCTasks |->
        LET gen[t \in G] ==
                IF DependentsWithin(G, t) = {} THEN 0
                ELSE 1 + Max({gen[u] : u \in DependentsWithin(G, t)})
        IN  gen]
=============================================================================
