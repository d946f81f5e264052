------------------------------ MODULE WorkerRun ------------------------------
(***************************************************************************)
(* One run with topological_generations_without_scheduler: no scheduler    *)
(* and no queues of tasks. Every worker looks for its next task itself,    *)
(* scanning tasks_to_run under the lock, and the first to find that all    *)
(* that is left is blocked for good announces the end.                     *)
(***************************************************************************)
EXTENDS TaskGraph

CONSTANTS
    Workers,  \* the num_workers worker threads or processes
    NoWorker, \* nobody: who holds a lock that is free
    Mode,     \* "threads" (control_event) or "processes" (control_queue)
    Fragile   \* tasks whose creation or event recording may raise

ASSUME WorkersAssumption ==
    IsFiniteSet(Workers) /\ Workers # {} /\ NoWorker \notin Workers
ASSUME ModeAssumption    == Mode \in {"threads", "processes"}
ASSUME FragileAssumption == Fragile \subseteq Tasks

VARIABLES
    tasksToRun,  \* tasks_to_run, which no one changes once the workers start
    status,      \* QUEUE_STATUS of every task in all_tasks
    resources,   \* resources: the task that uses each resource
    lock,        \* the worker that holds the lock, or NoWorker
    wpc,         \* where every worker is
    cursor,      \* the position in tasks_to_run a scanning worker has reached
    stuck,       \* all(task_permanently_blocked_status), of the scan so far
    held,        \* next_task of every worker
    result,      \* result of every worker
    complete,    \* control_event is set, or control_queue has its message
    runner       \* where the runner's main thread is

scanVars == <<cursor, stuck>>
vars == <<tasksToRun, status, resources, lock, wpc, scanVars, held, result, complete,
          runner>>

WorkerStates ==
    {"looking", "scanning", "picking", "starting", "running", "reporting", "stopped",
     "dead"}

TypeOK ==
    /\ tasksToRun \in Seq(Tasks)
    /\ status \in [Tasks -> {NOT_SET, IN_PROGRESS, COMPLETED, ERRORED, BLOCKED}]
    /\ resources \in [Resources -> Tasks \cup {NoTask}]
    /\ lock \in Workers \cup {NoWorker}
    /\ wpc \in [Workers -> WorkerStates]
    /\ cursor \in [Workers -> 1 .. Len(tasksToRun) + 1]
    /\ stuck \in [Workers -> BOOLEAN]
    /\ held \in [Workers -> Tasks \cup {NoTask}]
    /\ result \in [Workers -> {NOT_SET, COMPLETED, ERRORED}]
    /\ complete \in BOOLEAN
    /\ runner \in {"waiting", "returned"}

\* The processes runner fills tasks_to_run with the generations of the graph, the
\* last one first; the threads runner leaves it as the empty list.
TasksToRun ==
    IF Mode = "threads" THEN {<<>>}
    ELSE {s \in [1 .. Cardinality(Tasks) -> Tasks] :
            /\ \A t \in Tasks : \E i \in DOMAIN s : s[i] = t
            /\ \A i, j \in DOMAIN s :
                  i < j => Generations[Tasks][s[i]] >= Generations[Tasks][s[j]]}

Init ==
    /\ tasksToRun \in TasksToRun
    /\ status = [t \in Tasks |-> NOT_SET]
    /\ resources = [r \in Resources |-> NoTask]
    /\ lock = NoWorker
    /\ wpc = [w \in Workers |-> "looking"]
    /\ cursor = [w \in Workers |-> 1]
    /\ stuck = [w \in Workers |-> TRUE]
    /\ held = [w \in Workers |-> NoTask]
    /\ result = [w \in Workers |-> NOT_SET]
    /\ complete = FALSE
    /\ runner = "waiting"

-----------------------------------------------------------------------------
(* Looking for the next task, under the lock. *)

\* The positions of the dependencies of t that have not completed.
Unmet(t) ==
    {i \in DOMAIN Deps[t] : Deps[t][i] \in Tasks /\ status[Deps[t][i]] # COMPLETED}

CurrentlyBlocked(t) == Unmet(t) # {}

\* has_dependencies_remaining returns as soon as it meets an unmet dependency: the
\* first one decides whether t is blocked for good.
FirstUnmetIs(t, statuses) ==
    \E i \in Unmet(t) :
        /\ \A j \in Unmet(t) : i <= j
        /\ status[Deps[t][i]] \in statuses

\* Mutants: one that is in progress blocks for good; one that is blocked does not.
BlockedByProgress(t)    == FirstUnmetIs(t, {ERRORED, BLOCKED, IN_PROGRESS})
BlockedByFailureOnly(t) == FirstUnmetIs(t, {ERRORED})

PermanentlyBlocked(t) == FirstUnmetIs(t, {ERRORED, BLOCKED})

\* Mutant: one free resource is enough.
SomeResourceFree(t) == Needs[t] = {} \/ \E r \in Needs[t] : resources[r] = NoTask

ResourcesFree(t) == \A r \in Needs[t] : resources[r] = NoTask

Scanned(w) == tasksToRun[cursor[w]]

\* Mutant: the scan does not wait for the lock.
BeginScanUnlocked(w) ==
    /\ wpc[w] = "looking"
    /\ lock' = w
    /\ cursor' = [cursor EXCEPT ![w] = 1]
    /\ stuck' = [stuck EXCEPT ![w] = TRUE]
    /\ wpc' = [wpc EXCEPT ![w] = "scanning"]
    /\ UNCHANGED <<tasksToRun, status, resources, held, result, complete, runner>>

BeginScan(w) ==
    /\ wpc[w] = "looking"
    /\ lock = NoWorker
    /\ lock' = w
    /\ cursor' = [cursor EXCEPT ![w] = 1]
    /\ stuck' = [stuck EXCEPT ![w] = TRUE]
    /\ wpc' = [wpc EXCEPT ![w] = "scanning"]
    /\ UNCHANGED <<tasksToRun, status, resources, held, result, complete, runner>>

\* The task under the cursor cannot be started now: what the scan learns from it, where
\* a task whose status is one of `settled` does not keep the run from ending.
PassWith(w, settled) ==
    /\ wpc[w] = "scanning"
    /\ cursor[w] <= Len(tasksToRun)
    /\ \/ /\ status[Scanned(w)] \in settled
          /\ UNCHANGED <<status, stuck>>
       \/ /\ status[Scanned(w)] = IN_PROGRESS
          /\ status[Scanned(w)] \notin settled
          /\ stuck' = [stuck EXCEPT ![w] = FALSE]
          /\ UNCHANGED status
       \/ /\ status[Scanned(w)] = NOT_SET
          /\ PermanentlyBlocked(Scanned(w))
          /\ status' = [status EXCEPT ![Scanned(w)] = BLOCKED]
          /\ UNCHANGED stuck
       \/ /\ status[Scanned(w)] = NOT_SET
          /\ ~PermanentlyBlocked(Scanned(w))
          /\ CurrentlyBlocked(Scanned(w)) \/ ~ResourcesFree(Scanned(w))
          /\ stuck' = [stuck EXCEPT ![w] = FALSE]
          /\ UNCHANGED status
    /\ cursor' = [cursor EXCEPT ![w] = @ + 1]
    /\ UNCHANGED <<tasksToRun, resources, lock, wpc, held, result, complete, runner>>

\* Mutant: a task in progress does not keep the run from ending.
PassRunningTask(w) == PassWith(w, {COMPLETED, ERRORED, BLOCKED, IN_PROGRESS})

PassTask(w) == PassWith(w, {COMPLETED, ERRORED, BLOCKED})

\* get_next_task_to_run returns the task under the cursor.
PickTask(w) ==
    /\ wpc[w] = "scanning"
    /\ cursor[w] <= Len(tasksToRun)
    /\ status[Scanned(w)] = NOT_SET
    /\ ~CurrentlyBlocked(Scanned(w))
    /\ ResourcesFree(Scanned(w))
    /\ held' = [held EXCEPT ![w] = Scanned(w)]
    /\ wpc' = [wpc EXCEPT ![w] = "picking"]
    /\ UNCHANGED <<tasksToRun, status, resources, lock, scanVars, result, complete, runner>>

\* lock_next_task_to_run marks the task and its resources, and the lock is released.
LockAs(w, owner) ==
    /\ wpc[w] = "picking"
    /\ status' = [status EXCEPT ![held[w]] = IN_PROGRESS]
    /\ resources' = [r \in Resources |-> IF r \in Needs[held[w]] THEN owner ELSE resources[r]]
    /\ lock' = NoWorker
    /\ wpc' = [wpc EXCEPT ![w] = "starting"]
    /\ UNCHANGED <<tasksToRun, scanVars, held, result, complete, runner>>

\* Mutant: the resources are locked for the worker.
LockForWorker(w) == LockAs(w, w)

LockTask(w) == LockAs(w, held[w])

\* Nothing to start: the worker sleeps and looks again, or, when all that is left is
\* blocked for good, announces the end and returns.
EndScan(w) ==
    /\ wpc[w] = "scanning"
    /\ cursor[w] > Len(tasksToRun)
    /\ lock' = NoWorker
    /\ complete' = (complete \/ stuck[w])
    /\ wpc' = [wpc EXCEPT ![w] = IF stuck[w] THEN "stopped" ELSE "looking"]
    /\ UNCHANGED <<tasksToRun, status, resources, scanVars, held, result, runner>>

-----------------------------------------------------------------------------
(* Executing it, without the lock. *)

StartTask(w) ==
    /\ wpc[w] = "starting"
    /\ wpc' = [wpc EXCEPT ![w] = "running"]
    /\ UNCHANGED <<tasksToRun, status, resources, lock, scanVars, held, result, complete,
                   runner>>

ExecuteTask(w) ==
    /\ wpc[w] = "running"
    /\ \E outcome \in {COMPLETED, ERRORED} : result' = [result EXCEPT ![w] = outcome]
    /\ wpc' = [wpc EXCEPT ![w] = "reporting"]
    /\ UNCHANGED <<tasksToRun, status, resources, lock, scanVars, held, complete, runner>>

\* Nothing catches what is raised before or after execute.
WorkerDies(w) ==
    /\ wpc[w] \in {"starting", "reporting"}
    /\ held[w] \in Fragile
    /\ wpc' = [wpc EXCEPT ![w] = "dead"]
    /\ UNCHANGED <<tasksToRun, status, resources, lock, scanVars, held, result, complete,
                   runner>>

\* The worker's second critical section writes back the resources and the result; then
\* it looks for its next task.
SetTaskWith(w, resourcesLeft) ==
    /\ wpc[w] = "reporting"
    /\ lock = NoWorker
    /\ resources' = resourcesLeft
    /\ status' = [status EXCEPT ![held[w]] = result[w]]
    /\ held' = [held EXCEPT ![w] = NoTask]
    /\ result' = [result EXCEPT ![w] = NOT_SET]
    /\ wpc' = [wpc EXCEPT ![w] = "looking"]
    /\ UNCHANGED <<tasksToRun, lock, scanVars, complete, runner>>

\* Mutant: the resources are not given back.
SetTaskKeepResources(w) == SetTaskWith(w, resources)

\* set_task_as_run.
SetTaskAsRun(w) ==
    SetTaskWith(w, [r \in Resources |-> IF r \in Needs[held[w]] THEN NoTask ELSE resources[r]])

-----------------------------------------------------------------------------
\* The runner terminates the worker processes where they are, or leaves the threads
\* to end by themselves.
ShutDown ==
    /\ runner = "waiting"
    /\ complete
    /\ runner' = "returned"
    /\ wpc' = IF Mode = "processes" THEN [w \in Workers |-> "stopped"] ELSE wpc
    /\ UNCHANGED <<tasksToRun, status, resources, lock, scanVars, held, result, complete>>

AllEnded == runner = "returned" /\ \A w \in Workers : wpc[w] \in {"stopped", "dead"}

Ended == AllEnded /\ UNCHANGED vars

Worker(w) ==
    \/ BeginScan(w) \/ PassTask(w) \/ PickTask(w) \/ LockTask(w) \/ EndScan(w)
    \/ StartTask(w) \/ ExecuteTask(w) \/ WorkerDies(w) \/ SetTaskAsRun(w)

Next == (\E w \in Workers : Worker(w)) \/ ShutDown \/ Ended

Spec == Init /\ [][Next]_vars

\* Every worker keeps running. A worker that finds nothing sleeps for a second
\* outside the lock, so one that waits for the lock gets it.
Fairness ==
    /\ \A w \in Workers : WF_vars(Worker(w))
    /\ \A w \in Workers : SF_vars(BeginScan(w)) /\ SF_vars(SetTaskAsRun(w))
    /\ WF_vars(ShutDown)

FairSpec == Spec /\ Fairness

-----------------------------------------------------------------------------
(* Properties. *)

Completed == {t \in Tasks : status[t] = COMPLETED}
Errored   == {t \in Tasks : status[t] = ERRORED}

\* The workers that hold a task and its resources.
Using == {w \in Workers : wpc[w] \in {"starting", "running", "reporting", "dead"}}

\* A task is in progress in the hands of one worker, whose resources are its own: no two
\* workers pick the same task, nor two that require the same resource, and the dictionary
\* lists exactly the resources of the tasks in progress.
OneWorkerPerTask ==
    /\ \A v, w \in Using : v # w =>
          held[v] # held[w] /\ Needs[held[v]] \cap Needs[held[w]] = {}
    /\ \A t \in Tasks : status[t] = IN_PROGRESS <=> \E w \in Using : held[w] = t
    /\ \A r \in Resources, t \in Tasks :
          resources[r] = t <=> \E w \in Using : held[w] = t /\ r \in Needs[t]

\* A task is given up only because one it needs, directly or not, failed: a
\* dependency that is merely slow never blocks it for good.
BlockedIsDoomed ==
    \A t \in Tasks : status[t] = BLOCKED => t \in Doomed(Errored)

\* The run is announced as complete only when nothing is in progress and every task
\* completed, failed, or needs one that failed.
CompleteMeansSettled ==
    complete => Using = {} /\ Tasks = Completed \cup Doomed(Errored)

\* Nobody finishes the task of a worker that died, nor frees its resources.
SomeoneDied == \E w \in Workers : wpc[w] = "dead"

\* Every run in which no worker dies ends, with every worker stopped: no task is starved,
\* whatever competes for its resources.
RunEnds == <>(AllEnded \/ SomeoneDied)

-----------------------------------------------------------------------------
Phase(t) ==
    CASE status[t] = IN_PROGRESS -> "running"
      [] status[t] \in {COMPLETED, ERRORED} -> status[t]
      [] OTHER -> "pending"

Contract == INSTANCE RunContract WITH
    phase <- [t \in Tasks |-> Phase(t)],
    over  <- complete

\* The algorithm without a scheduler keeps the contract of a run: a task starts once,
\* after all its dependencies completed, and its outcome is final.
KeepsContract == Contract!Spec
=============================================================================
