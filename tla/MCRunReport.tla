----------------------------- MODULE MCRunReport -----------------------------
(***************************************************************************)
(* Three tasks, two of them with a build in a spoke, and events of which   *)
(* two fit in a call, one fills it and one is too large for any.           *)
(***************************************************************************)
EXTENDS RunReport, TLC

CONSTANTS a, s1, s2

MCTasks      == {a, s1, s2}
MCSpokeTasks == {s1, s2}

MCSize ==
    [f \in Files |->
        CASE f[1] = a  -> 2
          [] f[1] = s1 -> IF f[2] = "task" THEN 1 ELSE 6
          [] f[1] = s2 -> IF f[2] = "task" THEN 5 ELSE 1]
=============================================================================
