------------------------------ MODULE RunReport ------------------------------
(***************************************************************************)
(* What run_tasks (workflow/runner.py) does once the task engine returned: *)
(* it counts the failures, waits in hub execution mode for the CodeBuild   *)
(* builds that RunDeployInSpokeTask started in the spokes, forwards the    *)
(* results to OpsCenter and EventBridge, answers on_complete_url and exits.*)
(* Dry runs, list-launches and exploded runs are left out: the only caller *)
(* passes False for each of them.                                          *)
(***************************************************************************)
EXTENDS Integers, Sequences, FiniteSets, SequencesExt, FiniteSetsExt

CONSTANTS
    Tasks,       \* the tasks of the run
    SpokeTasks,  \* those that are a RunDeployInSpokeTask: each starts a build
    NoTask,      \* no build is being polled
    Size,        \* the size in bytes of the event of every result file
    MaxEntries,  \* the entries a call of put_events takes: 10 in the code
    MaxBytes     \* batch_size_limit: 256000 in the code

ASSUME TasksAssumption == IsFiniteSet(Tasks) /\ SpokeTasks \subseteq Tasks /\ NoTask \notin Tasks
ASSUME LimitsAssumption == MaxEntries \in Nat \ {0} /\ MaxBytes \in Nat \ {0}

\* A task leaves results/success or results/failure; the build of a spoke that did not
\* succeed leaves a file of its own in results/failure.
Files == Tasks \X {"task", "build"}

ASSUME SizeAssumption == Size \in [Files -> Nat \ {0}]

Options == [hub : BOOLEAN, eventbridge : BOOLEAN, opscenter : BOOLEAN, url : BOOLEAN]

VARIABLES
    options,           \* execution_mode is hub; where to report
    pc,                \* where run_tasks is
    succeeded,         \* the files in results/success
    failed,            \* the files in results/failure
    hasFailures,       \* has_failures
    hasSpokeFailures,  \* has_spoke_failures
    build,             \* the status of the build of every spoke task
    toPoll,            \* all_run_deploy_in_spoke_tasks, those still to poll
    polled,            \* the task whose build is being polled, or NoTask
    forwarded,         \* the failures create_ops_item was called for
    batches,           \* the batches still to send
    sent,              \* the events sent, in order
    posted,            \* the Status that on_complete_url was told, or "none"
    exitCode           \* the exit code of the process, or -1

resultVars == <<succeeded, failed, hasFailures>>
pollVars   == <<toPoll, polled, hasSpokeFailures>>
outVars    == <<forwarded, batches, sent, posted, exitCode>>
vars == <<options, pc, resultVars, build, pollVars, outVars>>

BuildStates == {"none", "IN_PROGRESS", "SUCCEEDED", "FAILED"}

TypeOK ==
    /\ options \in Options
    /\ pc \in {"running", "polling", "forwarding", "sending", "posting", "exiting",
               "exited", "crashed"}
    /\ succeeded \subseteq Files /\ failed \subseteq Files
    /\ hasFailures \in BOOLEAN /\ hasSpokeFailures \in BOOLEAN
    /\ build \in [SpokeTasks -> BuildStates]
    /\ toPoll \subseteq SpokeTasks
    /\ polled \in SpokeTasks \cup {NoTask}
    /\ forwarded \subseteq Files
    /\ batches \in Seq(Seq(Files))
    /\ sent \in Seq(Files)
    /\ posted \in {"none", "SUCCESS", "FAILURE"}
    /\ exitCode \in {-1, 0, 1}

Init ==
    /\ options \in Options
    /\ pc = "running"
    /\ succeeded = {} /\ failed = {}
    /\ hasFailures = FALSE /\ hasSpokeFailures = FALSE
    /\ build = [t \in SpokeTasks |-> "none"]
    /\ toPoll = {} /\ polled = NoTask
    /\ forwarded = {} /\ batches = <<>> /\ sent = <<>>
    /\ posted = "none" /\ exitCode = -1

-----------------------------------------------------------------------------
(* The batches of events. *)

Bytes(batch) == FoldLeft(LAMBDA n, entry : n + Size[entry], 0, batch)

\* Mutant: the limit of entries is noticed one entry too late.
FullOneLate(batch, entry) == Bytes(batch) + Size[entry] > MaxBytes \/ Len(batch) > MaxEntries

\* There is no room for the entry in the batch. An empty batch may have none.
IsFullFor(batch, entry) == Bytes(batch) + Size[entry] > MaxBytes \/ Len(batch) >= MaxEntries

\* Mutant: the entry that does not fit is lost.
AddEntryThatFits(bs, entry) ==
    IF IsFullFor(Last(bs), entry) THEN Append(bs, <<>>)
    ELSE [bs EXCEPT ![Len(bs)] = Append(@, entry)]

AddEntry(bs, entry) ==
    IF IsFullFor(Last(bs), entry) THEN Append(bs, <<entry>>)
    ELSE [bs EXCEPT ![Len(bs)] = Append(@, entry)]

\* Mutant: the entries are not put into batches.
NoBatches(entries) == entries

\* The first batch is there before the first entry.
GenerateBatches(entries) == FoldLeft(AddEntry, << <<>> >>, entries)

-----------------------------------------------------------------------------
(* The run and the spokes. *)

\* The tasks of the reference: hub_generator adds spoke tasks to the hub's only.
Reference == IF options.hub THEN Tasks ELSE Tasks \ SpokeTasks

\* runner.run returns. Every task succeeded, failed or was not executed; a spoke task
\* that failed may have done so after it started its build.
RunEnds ==
    /\ pc = "running"
    /\ \E success \in SUBSET Reference : \E failure \in SUBSET (Reference \ success) :
          /\ succeeded' = success \X {"task"}
          /\ failed' = failure \X {"task"}
          /\ hasFailures' = (failure # {})
          /\ toPoll' = IF options.hub THEN success \cap SpokeTasks ELSE {}
          /\ build' \in {b \in [SpokeTasks -> {"none", "IN_PROGRESS"}] :
                            \A t \in SpokeTasks :
                                /\ t \in success => b[t] = "IN_PROGRESS"
                                /\ t \notin success \cup failure => b[t] = "none"}
    /\ pc' = "polling"
    /\ UNCHANGED <<options, polled, hasSpokeFailures, outVars>>

\* A build ends in its spoke, whatever the hub does.
BuildEnds(t) ==
    /\ build[t] = "IN_PROGRESS"
    /\ \E status \in {"SUCCEEDED", "FAILED"} : build' = [build EXCEPT ![t] = status]
    /\ UNCHANGED <<options, pc, resultVars, pollVars, outVars>>

\* The files of the builds are read in any order.
PollNext ==
    /\ pc = "polling"
    /\ polled = NoTask
    /\ polled' \in toPoll
    /\ UNCHANGED <<options, pc, resultVars, build, toPoll, hasSpokeFailures, outVars>>

\* The status of the polled build is known, and with it whether a spoke failed so far.
Polled(failure) ==
    /\ pc = "polling"
    /\ polled # NoTask
    /\ toPoll' = toPoll \ {polled}
    /\ polled' = NoTask
    /\ hasSpokeFailures' = failure
    /\ failed' = IF build[polled] = "FAILED" THEN failed \cup {<<polled, "build">>} ELSE failed
    /\ UNCHANGED <<options, pc, succeeded, hasFailures, build, outVars>>

\* Mutants: only a success ends the wait; what is remembered is the last build.
ReadBuildOfSuccess == polled # NoTask /\ build[polled] = "SUCCEEDED" /\ Polled(hasSpokeFailures)
ReadBuildForgets ==
    polled # NoTask /\ build[polled] # "IN_PROGRESS" /\ Polled(build[polled] = "FAILED")

\* get_build_status_for_in, once the build is no longer in progress: until then the
\* call is repeated and nothing changes.
ReadBuild ==
    /\ polled # NoTask
    /\ build[polled] # "IN_PROGRESS"
    /\ Polled(hasSpokeFailures \/ build[polled] = "FAILED")

\* Every build has ended: the files of both directories, in the order in which they
\* are listed, become the entries. ssm_client and events are used only when enabled.
PollingDone ==
    /\ pc = "polling"
    /\ toPoll = {}
    /\ pc' = "forwarding"
    /\ IF options.eventbridge
       THEN \E s \in SetToSeqs(succeeded), f \in SetToSeqs(failed) :
                batches' = GenerateBatches(s \o f)
       ELSE batches' = <<>>
    /\ UNCHANGED <<options, resultVars, build, pollVars, forwarded, sent, posted, exitCode>>

-----------------------------------------------------------------------------
(* The report. *)

\* One call of create_ops_item; the one exception that is caught is logged.
ForwardFailure ==
    /\ pc = "forwarding"
    /\ options.opscenter
    /\ \E file \in failed \ forwarded : forwarded' = forwarded \cup {file}
    /\ UNCHANGED <<options, pc, resultVars, build, pollVars, batches, sent, posted, exitCode>>

ForwardingDone ==
    /\ pc = "forwarding"
    /\ options.opscenter => failed = forwarded
    /\ pc' = "sending"
    /\ UNCHANGED <<options, resultVars, build, pollVars, outVars>>

SendBatch ==
    /\ pc = "sending"
    /\ batches # <<>>
    /\ sent' = sent \o Head(batches)
    /\ batches' = Tail(batches)
    /\ UNCHANGED <<options, pc, resultVars, build, pollVars, forwarded, posted, exitCode>>

SendingDone ==
    /\ pc = "sending"
    /\ batches = <<>>
    /\ pc' = IF options.url THEN "posting" ELSE "exiting"
    /\ UNCHANGED <<options, resultVars, build, pollVars, outVars>>

\* The answer to on_complete_url.
PostResult ==
    /\ pc = "posting"
    /\ posted' = IF hasFailures THEN "FAILURE" ELSE "SUCCESS"
    /\ pc' = "exiting"
    /\ UNCHANGED <<options, resultVars, build, pollVars, forwarded, batches, sent, exitCode>>

Exit ==
    /\ pc = "exiting"
    /\ exitCode' = IF hasSpokeFailures \/ hasFailures THEN 1 ELSE 0
    /\ pc' = "exited"
    /\ UNCHANGED <<options, resultVars, build, pollVars, forwarded, batches, sent, posted>>

\* A call to AWS or to on_complete_url raises: nothing catches it, so the process ends
\* there with the exit code of an exception.
CallRaises ==
    /\ \/ pc = "polling" /\ polled # NoTask
       \/ pc = "forwarding" /\ options.opscenter
       \/ pc = "sending" /\ options.eventbridge
       \/ pc = "posting"
    /\ pc' = "crashed"
    /\ exitCode' = 1
    /\ UNCHANGED <<options, resultVars, build, pollVars, forwarded, batches, sent, posted>>

-----------------------------------------------------------------------------
Over == pc \in {"exited", "crashed"}

Ended == Over /\ UNCHANGED vars

RunTasks ==
    \/ RunEnds \/ PollNext \/ ReadBuild \/ PollingDone
    \/ ForwardFailure \/ ForwardingDone \/ SendBatch \/ SendingDone
    \/ PostResult \/ Exit

Next == RunTasks \/ CallRaises \/ (\E t \in SpokeTasks : BuildEnds(t)) \/ Ended

Spec == Init /\ [][Next]_vars

\* The process keeps running, and CodeBuild ends every build sooner or later: a build
\* has a timeout. No call has to raise.
Fairness == WF_vars(RunTasks) /\ \A t \in SpokeTasks : WF_vars(BuildEnds(t))

FairSpec == Spec /\ Fairness

-----------------------------------------------------------------------------
(* Properties. *)

\* The tasks of the run that failed, in the hub or in the build they started.
TasksThatFailed ==
    {t \in Tasks : <<t, "task">> \in failed}
        \cup {t \in SpokeTasks : build[t] = "FAILED"}

\* The exit code of the process is 0 exactly when no task failed and no build of a
\* spoke failed, and by then every build that was waited for has ended.
ExitTellsTheTruth ==
    pc = "exited" =>
        /\ exitCode = 0 <=> TasksThatFailed = {}
        /\ \A t \in SpokeTasks : <<t, "task">> \in succeeded => build[t] # "IN_PROGRESS"

\* When the process has exited by itself, every file of results was sent to EventBridge
\* once, and every failure, of a spoke too, was forwarded to OpsCenter.
EveryResultIsReported ==
    pc = "exited" =>
        /\ options.eventbridge => IsInjective(sent) /\ Range(sent) = succeeded \cup failed
        /\ options.opscenter => forwarded = failed

\* No batch exceeds what put_events takes; one entry that is too large is alone.
BatchesFit ==
    \A i \in DOMAIN batches :
        /\ Len(batches[i]) <= MaxEntries
        /\ Bytes(batches[i]) <= MaxBytes \/ Len(batches[i]) = 1

\* The Status SUCCESS is posted with the Reason "All tasks run with success": it is the
\* answer to a run in which no task failed, in the hub or in a spoke.
SuccessMeansAllTasks == posted = "SUCCESS" => TasksThatFailed = {}

\* The process ends, whatever the builds and the calls do.
ReportEnds == <>Over
=============================================================================
