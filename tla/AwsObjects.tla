------------------------------ MODULE AwsObjects ------------------------------
(***************************************************************************)
(* What the tasks of one launch, and of a stack that names it, find in AWS *)
(* and change there: the provisioned product, its plans, the record of its *)
(* termination, two CloudFormation stacks, "launch" (the stack of the      *)
(* product) and "own" (the stack with the name of the item), and the SSM   *)
(* parameter with an output.  AWS answers a call at once and works on it   *)
(* afterwards.  A worker runs one task at a time; it may be stopped and go *)
(* on with another task, and AWS goes on with what was asked of it.        *)
(***************************************************************************)
EXTENDS Naturals

CONSTANTS
    Versions,   \* of the product, each with a template of its own
    Params,     \* the values of the parameters of a launch or stack
    LaunchContents, \* what manifests ask of the launch
    StackContents,  \* what manifests ask of the stack
    OutputOf    \* the item of the manifest that has an output: "launch" or "stack"

ASSUME OutputAssumption == OutputOf \in {"launch", "stack"}

\* The tasks of that item: the one that provisions it, and the one that terminates it.
Producer == IF OutputOf = "launch" THEN "provision" ELSE "stack"
Terminator == IF OutputOf = "launch" THEN "terminate" ELSE "unstack"

Contents == [version : Versions, params : Params]
Nothing == [version |-> "none", params |-> "none"]

ASSUME ContentsAssumption == LaunchContents \cup StackContents \subseteq Contents

StackNames == {"launch", "own"}

\* COMPLETE stands for CREATE_COMPLETE and UPDATE_COMPLETE, and FAILED for every status
\* that the code calls unhappy.
InProgress == {"CREATE_IN_PROGRESS", "UPDATE_IN_PROGRESS", "DELETE_IN_PROGRESS"}
Happy == {"COMPLETE", "UPDATE_ROLLBACK_COMPLETE"}
StackStatus == InProgress \cup Happy \cup {"NoStack", "ROLLBACK_COMPLETE", "FAILED"}

ProductStatus == {"ABSENT", "UNDER_CHANGE", "AVAILABLE", "TAINTED", "ERROR"}
RecordStatus == {"none", "CREATED", "IN_PROGRESS", "SUCCEEDED", "FAILED"}
PlanStatus == {"none", "CREATE_IN_PROGRESS", "CREATE_SUCCESS", "CREATE_FAILED",
               "NO_UPDATES", "EXECUTE_IN_PROGRESS", "EXECUTE_SUCCESS", "EXECUTE_FAILED"}

VARIABLES
    product,    \* its status, and the version it was last brought to
    stack,      \* of each stack: its status, its content, and the one asked for
    plans,      \* how many plans the product has
    plan,       \* the one that the task created: its status and what it is to do
    record,     \* the status of the termination that was asked for
    parameter,  \* the value of the SSM parameter: the content of a stack, or Nothing
    task        \* the task that the worker runs

awsVars == <<product, stack, plans, plan, record, parameter>>
vars == <<product, stack, plans, plan, record, parameter, task>>

Busy == product.status = "UNDER_CHANGE"
Absent == product.status = "ABSENT"
StackBusy(s) == stack[s].status \in InProgress

\* What AWS tells of a stack: while it changes, the old content or the new one.
Seen(s) == {stack[s].content} \cup IF StackBusy(s) THEN {stack[s].asked} ELSE {}

-----------------------------------------------------------------------------
(* What a call leaves behind. *)

Absence == [status |-> "NoStack", content |-> Nothing, asked |-> Nothing]

Asked(s, status, content) == [stack EXCEPT ![s].status = status, ![s].asked = content]

\* The product and its stack are to become `content`. A new product has the version
\* that was asked for from the start, another one gets it with its stack.
ChangeProduct(status, content) ==
    /\ product' = [status  |-> "UNDER_CHANGE",
                   version |-> IF Absent THEN content.version ELSE product.version]
    /\ stack' = Asked("launch", status, content)

\* terminate_provisioned_product, with the status of the record it answers.
TerminateProduct(answer) ==
    /\ record' = answer
    /\ CASE answer = "SUCCEEDED" ->
              /\ product' = [status |-> "ABSENT", version |-> "none"]
              /\ stack' = [stack EXCEPT !["launch"] = Absence]
         [] answer = "FAILED" ->
              /\ product' = [product EXCEPT !.status = "ERROR"]
              /\ UNCHANGED stack
         [] OTHER -> ChangeProduct("DELETE_IN_PROGRESS", Nothing)

-----------------------------------------------------------------------------
(* AWS goes on with its work. *)

\* The status of a product once its stack settled.
ProductAfter(status) ==
    CASE status = "COMPLETE" -> {"AVAILABLE"}
      [] status = "NoStack"  -> {"ABSENT"}
      [] status = "UPDATE_ROLLBACK_COMPLETE" -> {"TAINTED"}
      [] status = "ROLLBACK_COMPLETE" -> {"ERROR"}
      [] OTHER -> {"TAINTED", "ERROR"}

Ends(status) ==
    CASE status = "CREATE_IN_PROGRESS" -> {"COMPLETE", "ROLLBACK_COMPLETE"}
      [] status = "UPDATE_IN_PROGRESS" -> {"COMPLETE", "UPDATE_ROLLBACK_COMPLETE", "FAILED"}
      [] OTHER -> {"NoStack", "FAILED"}

\* A stack settles, and with it the product if it was the product that changed.
Settle(s) ==
    /\ StackBusy(s)
    /\ ~(s = "launch" /\ Busy /\ record = "CREATED")
    /\ \E status \in Ends(stack[s].status) :
        /\ stack' = [stack EXCEPT ![s] =
                        [status  |-> status,
                         content |-> IF status \in {"COMPLETE", "NoStack"} THEN @.asked
                                     ELSE IF @.content = Nothing THEN @.asked ELSE @.content,
                         asked   |-> Nothing]]
        /\ IF s = "launch" /\ Busy
           THEN /\ \E after \in ProductAfter(status) :
                      product' = [status |-> after,
                                  version |-> IF status \in {"COMPLETE", "NoStack"}
                                              THEN stack[s].asked.version ELSE product.version]
                /\ record' = IF record # "IN_PROGRESS" THEN record
                             ELSE IF status = "NoStack" THEN "SUCCEEDED"
                             ELSE "FAILED"
           ELSE UNCHANGED <<product, record>>
    /\ UNCHANGED <<plans, plan, parameter, task>>

\* The record of a termination leaves CREATED when the work on it begins.
BeginTermination ==
    /\ record = "CREATED"
    /\ record' = "IN_PROGRESS"
    /\ UNCHANGED <<product, stack, plans, plan, parameter, task>>

\* A plan is computed. There is nothing to do when the stack is already as asked.
ComputePlan ==
    /\ plan.status = "CREATE_IN_PROGRESS"
    /\ \E status \in IF stack["launch"].content = plan.content
                     THEN {"NO_UPDATES"} ELSE {"CREATE_SUCCESS", "CREATE_FAILED"} :
          plan' = [plan EXCEPT !.status = status]
    /\ UNCHANGED <<product, stack, plans, record, parameter, task>>

\* A plan is executed, before or after the product is done.
FinishPlan ==
    /\ plan.status = "EXECUTE_IN_PROGRESS"
    /\ \E status \in {"EXECUTE_SUCCESS", "EXECUTE_FAILED"} :
          plan' = [plan EXCEPT !.status = status]
    /\ UNCHANGED <<product, stack, plans, record, parameter, task>>

AwsNext == BeginTermination \/ ComputePlan \/ FinishPlan \/ \E s \in StackNames : Settle(s)

-----------------------------------------------------------------------------
(* The worker. *)

NoTask(pc) == [kind |-> "none", want |-> Nothing, switches |-> {}, pc |-> pc,
               artifact |-> "none", waited |-> FALSE, target |-> "own",
               provisioned |-> FALSE, inStep |-> FALSE]
NoPlan == [status |-> "none", content |-> Nothing]

AtRest == task.pc \in {"succeeded", "failed"}

\* The task goes on at `pc`, and its output will say whether it was to change the
\* stack. Only that stays of it when it ends well and has an SSM output.
Continue(pc, provisioned) ==
    task' = CASE pc = "failed" -> NoTask(pc)
              [] pc = "succeeded" ->
                     IF task.kind \notin {Producer, Terminator} THEN NoTask(pc)
                     ELSE [NoTask(pc) EXCEPT !.kind = task.kind, !.provisioned = provisioned,
                                             !.inStep = task.inStep]
              [] OTHER -> [task EXCEPT !.pc = pc, !.provisioned = provisioned]

Goto(pc) == Continue(pc, task.provisioned)

\* The parameter is what an output task would write, or there is none.
InStep(source) ==
    /\ task.kind = Producer
    /\ ~StackBusy(source)
    /\ parameter \in {Nothing, stack[source].content}

\* The worker takes up a task: what it is to do, with which switches on, and where it
\* begins. Nobody looks at a plan or a finished termination of an earlier task again.
Start(kind, want, switches, first) ==
    /\ AtRest
    /\ task' = [NoTask(first) EXCEPT !.kind = kind, !.want = want, !.switches = switches]
    /\ plan' = NoPlan
    /\ record' = IF record \in {"SUCCEEDED", "FAILED"} THEN "none" ELSE record
    /\ UNCHANGED <<product, stack, plans, parameter>>

\* Any call of a task may raise, and the build may be stopped: no step follows.
Abandon ==
    /\ ~AtRest
    /\ Goto("failed")
    /\ UNCHANGED awsVars

Init ==
    /\ product = [status |-> "ABSENT", version |-> "none"]
    /\ stack = [s \in StackNames |-> Absence]
    /\ plans = 0
    /\ plan = NoPlan
    /\ record = "none"
    /\ parameter = Nothing
    /\ task = NoTask("failed")
=============================================================================
