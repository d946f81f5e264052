----------------------------- MODULE RunContract -----------------------------
(***************************************************************************)
(* What one run of the task engine promises, whatever the scheduling       *)
(* algorithm and whoever executes the tasks: a task starts once, after its *)
(* dependencies completed and while nobody uses the resources it requires, *)
(* and the run is over only when nothing runs and nothing can be started.  *)
(***************************************************************************)
EXTENDS TaskGraph

VARIABLES
    phase,  \* what has become of every task
    over    \* the run has announced that it is complete

contractVars == <<phase, over>>

Running == {t \in Tasks : phase[t] = "running"}
Failed  == {t \in Tasks : phase[t] = ERRORED}

Init == /\ phase = [t \in Tasks |-> "pending"]
        /\ over = FALSE

Start(t) ==
    /\ ~over
    /\ phase[t] = "pending"
    /\ \A d \in DepsOf(t) : phase[d] = COMPLETED
    /\ \A u \in Running : Needs[t] \cap Needs[u] = {}
    /\ phase' = [phase EXCEPT ![t] = "running"]
    /\ UNCHANGED over

Finish(t, outcome) ==
    /\ phase[t] = "running"
    /\ phase' = [phase EXCEPT ![t] = outcome]
    /\ UNCHANGED over

Announce ==
    /\ Running = {}
    /\ \A t \in Tasks : phase[t] = "pending" => t \in Doomed(Failed)
    /\ over' = TRUE
    /\ UNCHANGED phase

Next ==
    \/ \E t \in Tasks : Start(t)
    \/ \E t \in Tasks : \E outcome \in {COMPLETED, ERRORED} : Finish(t, outcome)
    \/ Announce

Spec == Init /\ [][Next]_contractVars
=============================================================================
