---------------------------- MODULE SchedulerRun -----------------------------
(***************************************************************************)
(* One run with the default algorithm, topological_generations: a          *)
(* scheduler that cuts the remaining graph into generations and sends the  *)
(* last one, task by task, through task_queue; workers that take a task,   *)
(* wait for its resources in the shared file resources.json, execute it    *)
(* and answer on results_queue; and the runner that waits for the end.     *)
(***************************************************************************)
EXTENDS TaskGraph, Integers, Functions

CONSTANTS
    Workers,  \* the num_workers worker threads or processes
    NoWorker, \* nobody: who holds a lock that is free
    Mode,     \* "threads" (control_event) or "processes" (control_queue)
    Fragile   \* tasks whose creation or event recording may raise

ASSUME WorkersAssumption == IsFiniteSet(Workers) /\ Workers # {} /\ NoWorker \notin Workers
ASSUME ModeAssumption    == Mode \in {"threads", "processes"}
ASSUME FragileAssumption == Fragile \subseteq Tasks

VARIABLES
    status,        \* QUEUE_STATUS of every task in all_tasks
    sched,         \* where scheduler_task is
    generation,    \* current_generation: the tasks still to send
    inFlight,      \* number_of_tasks_in_flight
    processed,     \* number_of_tasks_processed
    inGeneration,  \* number_of_tasks_in_generation
    taskQueue,     \* task_queue
    resultsQueue,  \* the answers in results_queue: its producers are concurrent,
                   \* so they may come out in any order
    lock,          \* the worker that holds the lock, or NoWorker
    resources,     \* resources.json: the task that uses each resource
    wpc,           \* where every worker is
    held,          \* task_reference of every worker
    inUse,         \* resources_in_use, the copy a worker read under the lock
    result,        \* result of every worker
    complete,      \* control_event is set, or control_queue has its message
    runner         \* where the runner's main thread is

schedVars  == <<sched, generation, inFlight, processed, inGeneration>>
workerVars == <<wpc, held, inUse, result>>
vars == <<status, schedVars, taskQueue, resultsQueue, lock, resources,
          workerVars, complete, runner>>

SchedStates  == {"building", "filling", "draining", "returned"}
WorkerStates == {"idle", "waiting", "locking", "starting", "running",
                 "reporting", "unlocking", "releasing", "stopped", "dead"}
Owners == [Resources -> Tasks \cup {NoTask}]

TypeOK ==
    /\ status \in [Tasks -> {NOT_SET, COMPLETED, ERRORED}]
    /\ sched \in SchedStates
    /\ generation \subseteq Tasks
    /\ inFlight \in Int /\ processed \in Nat /\ inGeneration \in Nat
    /\ taskQueue \in Seq(Tasks)
    /\ resultsQueue \subseteq Tasks \X {COMPLETED, ERRORED}
    /\ lock \in Workers \cup {NoWorker}
    /\ resources \in Owners
    /\ wpc \in [Workers -> WorkerStates]
    /\ held \in [Workers -> Tasks \cup {NoTask}]
    /\ inUse \in [Workers -> Owners]
    /\ result \in [Workers -> {NOT_SET, COMPLETED, ERRORED}]
    /\ complete \in BOOLEAN
    /\ runner \in {"waiting", "returned"}

Init ==
    /\ status = [t \in Tasks |-> NOT_SET]
    /\ sched = "building"
    /\ generation = {}
    /\ inFlight = 0 /\ processed = 0 /\ inGeneration = 0
    /\ taskQueue = <<>> /\ resultsQueue = {}
    /\ lock = NoWorker
    /\ resources = [r \in Resources |-> NoTask]
    /\ wpc = [w \in Workers |-> "idle"]
    /\ held = [w \in Workers |-> NoTask]
    /\ inUse = [w \in Workers |-> [r \in Resources |-> NoTask]]
    /\ result = [w \in Workers |-> NOT_SET]
    /\ complete = FALSE
    /\ runner = "waiting"

-----------------------------------------------------------------------------
(* The scheduler. *)

Completed == {t \in Tasks : status[t] = COMPLETED}
Errored   == {t \in Tasks : status[t] = ERRORED}

\* Mutant: a graph that keeps the dependents of a failure.
RemainingKeepsDependents == Tasks \ (Completed \cup Errored)

\* build_the_dag: what has not run, less what needs a task that failed.
Remaining == Tasks \ (Completed \cup Doomed(Errored))

\* Cut the remaining graph, and start to count the tasks `from` there.
BuildFrom(from) ==
    /\ sched = "building"
    /\ Remaining # {}
    /\ generation' = LastGeneration(Remaining)
    /\ inFlight' = 0
    /\ processed' = from
    /\ inGeneration' = Cardinality(generation')
    /\ sched' = "filling"
    /\ UNCHANGED <<status, taskQueue, resultsQueue, lock, resources, workerVars,
                   complete, runner>>

\* Mutant: the count of the last generation is not reset.
BuildWithoutReset == BuildFrom(processed)

BuildGeneration == BuildFrom(0)

AnnounceComplete ==
    /\ sched = "building"
    /\ Remaining = {}
    /\ complete' = TRUE
    /\ sched' = "returned"
    /\ UNCHANGED <<status, generation, inFlight, processed, inGeneration, taskQueue,
                   resultsQueue, lock, resources, workerVars, runner>>

MustFill == generation # {} /\ inFlight < Cardinality(Workers)

\* task_queue.put of a task of the generation, of which `left` is still to send.
Send(t, left) ==
    /\ sched = "filling"
    /\ MustFill
    /\ generation' = left
    /\ taskQueue' = Append(taskQueue, t)
    /\ inFlight' = inFlight + 1
    /\ UNCHANGED <<status, sched, processed, inGeneration, resultsQueue, lock,
                   resources, workerVars, complete, runner>>

\* Mutant: the task that is sent stays in the generation.
SendTaskTwice == \E t \in generation : Send(t, generation)

SendTask == \E t \in generation : Send(t, generation \ {t})

\* results_queue.get() and the update of all_tasks that follows it; `rest` is what
\* scheduler_task does once nothing is left to send.
Receive(rest) ==
    /\ \/ sched = "filling" /\ ~MustFill
       \/ sched = "draining"
    /\ \E answer \in resultsQueue :
          /\ status' = [status EXCEPT ![answer[1]] = answer[2]]
          /\ resultsQueue' = resultsQueue \ {answer}
    /\ inFlight' = inFlight - 1
    /\ processed' = processed + 1
    /\ sched' = IF generation # {} THEN "filling" ELSE rest
    /\ UNCHANGED <<generation, inGeneration, taskQueue, lock, resources, workerVars,
                   complete, runner>>

\* Mutant: the generation ends when it is sent.
ReceiveWithoutDraining == Receive("building")

\* Only answers are awaited then, until the whole generation is processed.
ReceiveResult == Receive(IF processed + 1 < inGeneration THEN "draining" ELSE "building")

-----------------------------------------------------------------------------
(* The workers. *)

\* are_resources_are_free_for_task, on the file as it is now.
ResourcesFree(t, file) == \A r \in Needs[t] : file[r] = NoTask

TakeTask(w) ==
    /\ wpc[w] = "idle"
    /\ taskQueue # <<>>
    /\ held' = [held EXCEPT ![w] = Head(taskQueue)]
    /\ taskQueue' = Tail(taskQueue)
    /\ wpc' = [wpc EXCEPT ![w] = "waiting"]
    /\ UNCHANGED <<status, schedVars, resultsQueue, lock, resources, inUse, result,
                   complete, runner>>

\* A get that times out re-reads control_event, in `mode` only.
StopIn(mode, w) ==
    /\ wpc[w] = "idle"
    /\ Mode = mode /\ complete
    /\ taskQueue = <<>>
    /\ wpc' = [wpc EXCEPT ![w] = "stopped"]
    /\ UNCHANGED <<status, schedVars, taskQueue, resultsQueue, lock, resources, held,
                   inUse, result, complete, runner>>

\* Mutant: the event is never read again.
StopWorkerDeaf(w) == StopIn("processes", w)

StopWorker(w) == StopIn("threads", w)

\* Take the lock and go on with `copy`, what the worker knows of the file.
EnterLock(w, to, copy) ==
    /\ lock' = w
    /\ inUse' = [inUse EXCEPT ![w] = copy]
    /\ wpc' = [wpc EXCEPT ![w] = to]
    /\ UNCHANGED <<status, schedVars, taskQueue, resultsQueue, resources, held, result,
                   complete, runner>>

\* Mutant: the file is read without the lock.
CheckWithoutLock(w) ==
    /\ wpc[w] = "waiting"
    /\ ResourcesFree(held[w], resources)
    /\ EnterLock(w, "locking", resources)

\* Under the lock, read the file and find the resources free. A worker that finds
\* them in use releases the lock, sleeps and tries again: nothing has changed.
CheckResources(w) ==
    /\ wpc[w] = "waiting"
    /\ lock = NoWorker
    /\ ResourcesFree(held[w], resources)
    /\ EnterLock(w, "locking", resources)

\* Write the copy back with `owner` for the task's own resources, and leave the lock.
LockFor(w, owner) ==
    /\ wpc[w] = "locking"
    /\ resources' = [r \in Resources |->
                        IF r \in Needs[held[w]] THEN owner ELSE inUse[w][r]]
    /\ lock' = NoWorker
    /\ wpc' = [wpc EXCEPT ![w] = "starting"]
    /\ UNCHANGED <<status, schedVars, taskQueue, resultsQueue, held, inUse, result,
                   complete, runner>>

\* Mutant: the file names the worker thread, thread_name, not the task it locks for.
LockForTheThread(w) == LockFor(w, w)

\* lock_resources_for_task.
LockResources(w) == LockFor(w, held[w])

\* task_factory.create, on_task_start, get_processing_time_details.
StartTask(w) ==
    /\ wpc[w] = "starting"
    /\ wpc' = [wpc EXCEPT ![w] = "running"]
    /\ UNCHANGED <<status, schedVars, taskQueue, resultsQueue, lock, resources, held,
                   inUse, result, complete, runner>>

\* task.execute() returns or raises.
ExecuteTask(w) ==
    /\ wpc[w] = "running"
    /\ \E outcome \in {COMPLETED, ERRORED} : result' = [result EXCEPT ![w] = outcome]
    /\ wpc' = [wpc EXCEPT ![w] = "reporting"]
    /\ UNCHANGED <<status, schedVars, taskQueue, resultsQueue, lock, resources, held,
                   inUse, complete, runner>>

\* Nothing catches what is raised before or after execute: the worker is gone, with
\* its task and the task's resources.
WorkerDies(w) ==
    /\ wpc[w] \in {"starting", "reporting"}
    /\ held[w] \in Fragile
    /\ wpc' = [wpc EXCEPT ![w] = "dead"]
    /\ UNCHANGED <<status, schedVars, taskQueue, resultsQueue, lock, resources, held,
                   inUse, result, complete, runner>>

\* Mutant: the copy read before the task was executed is used again.
ReadNothing(w) ==
    /\ wpc[w] = "reporting"
    /\ lock = NoWorker
    /\ EnterLock(w, "unlocking", inUse[w])

\* Under the lock again, unlock_resources_for_task reads the file ...
ReadLocked(w) ==
    /\ wpc[w] = "reporting"
    /\ lock = NoWorker
    /\ EnterLock(w, "unlocking", resources)

\* ... and writes it back without the task's resources; the answer is put before
\* the lock is released.
UnlockAs(w, file) ==
    /\ wpc[w] = "unlocking"
    /\ resources' = file
    /\ resultsQueue' = resultsQueue \cup {<<held[w], result[w]>>}
    /\ wpc' = [wpc EXCEPT ![w] = "releasing"]
    /\ UNCHANGED <<status, schedVars, taskQueue, lock, held, inUse, result, complete,
                   runner>>

\* Mutant: the resources are not given back.
UnlockNothing(w) == UnlockAs(w, resources)

UnlockResources(w) ==
    UnlockAs(w, [r \in Resources |-> IF r \in Needs[held[w]] THEN NoTask ELSE inUse[w][r]])

ReleaseLock(w) ==
    /\ wpc[w] = "releasing"
    /\ lock' = NoWorker
    /\ held' = [held EXCEPT ![w] = NoTask]
    /\ result' = [result EXCEPT ![w] = NOT_SET]
    /\ wpc' = [wpc EXCEPT ![w] = IF Mode = "threads" /\ complete THEN "stopped" ELSE "idle"]
    /\ UNCHANGED <<status, schedVars, taskQueue, resultsQueue, resources, inUse,
                   complete, runner>>

-----------------------------------------------------------------------------
\* The runner leaves its wait: it terminates the worker processes, where they are,
\* or gives each thread one second to end and leaves it.
ShutDown ==
    /\ runner = "waiting"
    /\ complete
    /\ runner' = "returned"
    /\ wpc' = IF Mode = "processes" THEN [w \in Workers |-> "stopped"] ELSE wpc
    /\ UNCHANGED <<status, schedVars, taskQueue, resultsQueue, lock, resources, held,
                   inUse, result, complete>>

AllEnded == runner = "returned" /\ \A w \in Workers : wpc[w] \in {"stopped", "dead"}

\* The run is over: nothing is left to happen.
Ended == AllEnded /\ UNCHANGED vars

Scheduler == BuildGeneration \/ AnnounceComplete \/ SendTask \/ ReceiveResult

Worker(w) ==
    \/ TakeTask(w) \/ StopWorker(w) \/ CheckResources(w) \/ LockResources(w)
    \/ StartTask(w) \/ ExecuteTask(w) \/ WorkerDies(w)
    \/ ReadLocked(w) \/ UnlockResources(w) \/ ReleaseLock(w)

Next == Scheduler \/ (\E w \in Workers : Worker(w)) \/ ShutDown \/ Ended

Spec == Init /\ [][Next]_vars

\* The scheduler, every worker and the runner are threads or processes of their own
\* that the operating system keeps running; none of them waits on anything but the
\* queues, the lock and the event.
Fairness ==
    /\ WF_vars(Scheduler)
    /\ \A w \in Workers : WF_vars(Worker(w))
    /\ WF_vars(ShutDown)

FairSpec == Spec /\ Fairness

-----------------------------------------------------------------------------
(* Properties. *)

\* The workers between the write that locks their resources and the write that
\* unlocks them.
Using == {w \in Workers :
            wpc[w] \in {"starting", "running", "reporting", "unlocking", "dead"}}

\* Two tasks that require the same resource are never executed at the same time:
\* the check and the write of worker_task are one critical section per task.
ResourceExclusion ==
    \A v, w \in Using : v # w => Needs[held[v]] \cap Needs[held[w]] = {}

\* resources.json lists exactly the resources of the tasks in execution: no
\* read-modify-write of one worker loses that of another, and none is left behind.
FileMatchesUse ==
    \A r \in Resources, t \in Tasks :
        resources[r] = t <=> \E w \in Using : held[w] = t /\ r \in Needs[t]

\* A task is executed only after all its dependencies in the reference completed:
\* the last generation of the remaining graph rests on nothing that remains.
DependenciesCompleted ==
    \A w \in Using : DepsOf(held[w]) \subseteq Completed

\* Where a task can be: in the queue, in the hands of a worker that has yet to answer,
\* among the answers, or recorded in all_tasks.
Queued   == Range(taskQueue)
Owing    == {w \in Workers : held[w] \in Tasks /\ wpc[w] \notin {"releasing", "stopped"}}
InHands  == {held[w] : w \in Owing}
Answered == {answer[1] : answer \in resultsQueue}
Recorded == Completed \cup Errored

\* The tasks that were sent and whose result the scheduler does not have yet.
Sent == Queued \cup InHands \cup Answered

\* A task is in one place only, and once: still to send, in the queue, in one worker's
\* hands, in one answer, or recorded with its result. It is never executed twice.
InOnePlace ==
    /\ IsInjective(taskQueue)
    /\ \A v, w \in Owing : held[v] = held[w] => v = w
    /\ \A x, y \in resultsQueue : x[1] = y[1] => x = y
    /\ Queued \cap (InHands \cup Answered) = {}
    /\ InHands \cap Answered = {}
    /\ generation \cap Sent = {}
    /\ Recorded \cap (generation \cup Sent) = {}

\* While a generation is in progress the scheduler's counters account for every
\* task of it, so that the waits of scheduler_task end neither early nor never.
CountersAccount ==
    sched \in {"filling", "draining"} =>
        /\ inFlight = Cardinality(Sent)
        /\ processed + inFlight + Cardinality(generation) = inGeneration
        /\ inFlight <= Cardinality(Workers)

\* The run is announced as complete only when nothing is in execution and every
\* task completed, failed, or needs one that failed.
CompleteMeansSettled ==
    complete => Using = {} /\ Tasks = Completed \cup Doomed(Errored)

\* build_the_dag asks networkx for the ancestors of every failed task, after it
\* removed the completed tasks and the ancestors of other failures: no failed task
\* is itself the ancestor of another one, so the node is always still there.
FailuresAreIndependent ==
    \A t \in Errored : t \notin Doomed(Errored \ {t})

\* What the scheduler recorded of a task is never changed, nor forgotten.
ResultsAreFinal ==
    [][\A t \in Tasks : status[t] # NOT_SET => status'[t] = status[t]]_vars

\* Every run ends: the scheduler announces it, the runner returns, and every worker
\* stops.
RunEnds == <>AllEnded

\* A worker that waits for resources gets them: no holder keeps them for ever, and
\* no other worker overtakes it for ever.
ResourcesAreGranted ==
    \A w \in Workers : wpc[w] = "waiting" ~> wpc[w] = "running"

-----------------------------------------------------------------------------
\* The contract's view of this run: a task is running while its resources are in the
\* file, and has its outcome as soon as the answer is put.
Outcome(t) ==
    IF status[t] # NOT_SET THEN status[t]
    ELSE IF <<t, COMPLETED>> \in resultsQueue THEN COMPLETED
    ELSE IF <<t, ERRORED>> \in resultsQueue THEN ERRORED
    ELSE IF \E w \in Using : held[w] = t THEN "running"
    ELSE "pending"

Contract == INSTANCE RunContract WITH
    phase <- [t \in Tasks |-> Outcome(t)],
    over  <- complete

\* The default algorithm keeps the contract of a run.
KeepsContract == Contract!Spec
=============================================================================
