----------------------------- MODULE Provisioning -----------------------------
(***************************************************************************)
(* Run after run of the launch, stack and output tasks on the objects of   *)
(* one launch.  The manifest may ask for something else in every run, any  *)
(* task may be abandoned at any call, and AWS may fail at any change.      *)
(***************************************************************************)
EXTENDS LaunchTasks, StackTasks, OutputTasks

TaskStep == LaunchStep \/ StackStep \/ OutputStep

Next ==
    \/ \E want \in LaunchContents : StartProvision(want)
    \/ \E want \in StackContents : StartStack(want)
    \/ StartTerminate \/ StartStackTermination \/ StartOutput \/ TerminateOutput
    \/ TaskStep \/ Abandon \/ AwsNext

Spec == Init /\ [][Next]_vars

\* A task goes on while it can, and AWS ends what it began.
FairSpec ==
    /\ Spec
    /\ WF_vars(TaskStep) /\ WF_vars(BeginTermination) /\ WF_vars(ComputePlan)
    /\ WF_vars(FinishPlan) /\ \A s \in StackNames : WF_vars(Settle(s))

-----------------------------------------------------------------------------
(* Properties. *)

SomeContent == Contents \cup {Nothing}

\* Every variable holds what the tasks and AWS may put there.
TypeOK ==
    /\ product \in [status : ProductStatus, version : Versions \cup {"none"}]
    /\ stack \in [StackNames -> [status : StackStatus, content : SomeContent,
                                 asked : SomeContent]]
    /\ plans \in Nat
    /\ plan \in [status : PlanStatus, content : SomeContent]
    /\ record \in RecordStatus
    /\ parameter \in SomeContent
    /\ task.kind \in {"none", "provision", "terminate", "stack", "unstack", "output"}
    /\ task.want \in SomeContent
    /\ task.switches \subseteq LaunchSwitches \cup StackSwitches \cup OutputSwitches
    /\ {task.waited, task.provisioned, task.inStep} \subseteq BOOLEAN
    /\ task.artifact \in Versions \cup {"none"}
    /\ task.target \in StackNames

Succeeds(kind) == ~AtRest /\ task.kind = kind /\ task'.pc = "succeeded"

\* When a launch that is waited for succeeds, its product was at rest when the task
\* looked at it and no stack task that was stopped is still at its stack, then the
\* product is usable, has the wanted parameters and either the wanted version or a stack
\* with exactly its template: no change that failed, was rolled back or was left half-way
\* by an earlier run is taken for the wanted one. When its termination succeeds the
\* product is gone or being deleted.
SuccessIsDeployed ==
    [][/\ Succeeds("provision") /\ "async" \notin task.switches /\ ~task.waited
          /\ ~StackBusy("launch") =>
             /\ product'.status \in {"AVAILABLE", "TAINTED"}
             /\ stack'["launch"].content.params = task.want.params
             /\ task.want.version \in {product'.version, stack'["launch"].content.version}
       /\ Succeeds("terminate") =>
             product'.status = "ABSENT" \/ record' \in {"CREATED", "IN_PROGRESS"}]_vars

\* When a stack task succeeds the stack it chose is complete, or was rolled back to
\* exactly what is wanted, with the wanted template and parameters.
StackIsDeployed ==
    [][Succeeds("stack") => /\ stack'[task.target].status \in Happy
                            /\ stack'[task.target].content = task.want]_vars

\* A launch never asks anything of a product that is still under change, although
\* earlier runs may have left it so: the wait before is long enough. Nor does it ask for a
\* second plan: runs that are stopped or fail leave one behind, and the next one deletes it.
CallsFindItAtRest ==
    /\ task.pc \in {"terminating", "comparing", "checking", "updating", "unplanning",
                    "planning", "computing", "executing"} => ~Busy
    /\ plans <= 1

\* Resources are deleted only when a termination was asked for, when the product is
\* in ERROR, or when the stack is in ROLLBACK_COMPLETE and the switch is on.
OnlyUnusableIsDeleted ==
    [][\A s \in StackNames :
          stack[s].status # "DELETE_IN_PROGRESS" /\ stack'[s].status = "DELETE_IN_PROGRESS" =>
             \/ task.kind \in {"terminate", "unstack"}
             \/ task.kind = "provision" /\ s = "launch" /\ product.status = "ERROR"
             \/ stack[s].status = "ROLLBACK_COMPLETE" /\ "delete" \in task.switches]_vars

\* An output task that succeeds leaves a parameter with the output of the stack as it
\* is now, if the parameter was in step with the stack, or not there, when the task
\* that provisions the stack looked at it: whatever a run changes reaches the parameter.
OutputFollows ==
    [][Succeeds("output") =>
          /\ parameter' # Nothing
          /\ task.inStep => parameter' = stack'[Source].content]_vars

\* "Parameter not updated - stack/launch did not change": when an output task succeeds
\* the parameter has the output of the stack.
OutputIsCurrent ==
    [][Succeeds("output") => parameter' = stack'[Source].content]_vars

\* "Found previous good provision": a launch that is left as it is has the wanted
\* version, or at least its template.
GoodProvisionIsGood ==
    [][Succeeds("provision") /\ task.pc = "comparing" =>
          task.want.version \in {product.version, stack["launch"].content.version}]_vars

\* A task that began ends, whatever AWS answers. Only the clean-up of a product in
\* ERROR may wait for ever, as its loop does not read what it waits for.
TasksEnd == ~AtRest ~> (AtRest \/ task.pc = "cleaning")
=============================================================================
