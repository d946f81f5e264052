----------------------------- MODULE LaunchTasks -----------------------------
(***************************************************************************)
(* The tasks of a launch: ProvisionProductTask, with and without product   *)
(* plans, and DoTerminateProductTask.  There is a step per call to AWS     *)
(* whose answer the task acts on; a loop that polls is a step that waits.  *)
(***************************************************************************)
EXTENDS AwsObjects

\* should_use_product_plans, and the execution mode async of a launch.
LaunchSwitches == {"plans", "async"}

\* The end of clean_up_existing_provisioned_product: only an ERROR is acted on.
AfterCleanUp(status) == IF status = "ERROR" THEN "terminating" ELSE "comparing"

-----------------------------------------------------------------------------
(* ProvisionProductTask.run *)

StartProvision(want) ==
    \E switches \in SUBSET LaunchSwitches : Start("provision", want, switches, "looking")

\* check_was_previously_provisioned, and the version read with it. What AWS tells
\* of the version while the product changes is either the old or the new one.
LookForProduct ==
    /\ task.pc = "looking"
    /\ \/ /\ Absent
          /\ task' = [task EXCEPT !.pc = "creating", !.provisioned = TRUE,
                                  !.inStep = InStep("launch")]
       \/ /\ Busy
          /\ \E artifact \in {product.version, stack["launch"].asked.version} :
                task' = [task EXCEPT !.pc = "waiting", !.waited = TRUE,
                                     !.artifact = artifact]
       \/ /\ ~Absent /\ ~Busy
          /\ task' = [task EXCEPT !.pc = AfterCleanUp(product.status),
                                  !.artifact = product.version,
                                  !.inStep = InStep("launch")]
    /\ UNCHANGED awsVars

\* Mutant: the status is read again once, not until the change is over.
LookTwice ==
    /\ task.pc = "waiting"
    /\ Goto(IF Absent THEN "failed" ELSE AfterCleanUp(product.status))
    /\ UNCHANGED awsVars

\* The product is done with what it was doing. If it is gone the call raises.
WaitForProduct ==
    /\ task.pc = "waiting"
    /\ ~Busy
    /\ Goto(IF Absent THEN "failed" ELSE AfterCleanUp(product.status))
    /\ UNCHANGED awsVars

\* A product in ERROR is terminated. The loop that follows never looks at the record
\* again: what it was answered first decides, and from "cleaning" there is no way on.
CleanUpProduct ==
    /\ task.pc = "terminating"
    /\ \E answer \in RecordStatus \ {"none"} :
        /\ TerminateProduct(answer)
        /\ Goto(CASE answer = "IN_PROGRESS" -> "cleaning"
                  [] answer = "SUCCEEDED" -> "comparing"
                  [] OTHER -> "failed")
    /\ UNCHANGED <<plans, plan, parameter>>

\* Is the product what is wanted? Both calls raise without a product or a stack.
\* Mutant: a product of the right version is taken as it is.
CompareVersionOnly ==
    /\ task.pc = "comparing"
    /\ IF task.artifact = task.want.version THEN Goto("succeeded")
       ELSE Continue("checking", TRUE)
    /\ UNCHANGED awsVars

CompareProduct ==
    /\ task.pc = "comparing"
    /\ \E content \in Seen("launch") :
          IF task.artifact # task.want.version THEN Continue("checking", TRUE)
          ELSE IF Absent \/ stack["launch"].status = "NoStack" THEN Goto("failed")
          ELSE IF content.params = task.want.params THEN Goto("succeeded")
          ELSE Continue("checking", TRUE)
    /\ UNCHANGED awsVars

\* Can its stack be updated?
CheckStack ==
    /\ task.pc = "checking"
    /\ Goto(IF Absent \/ stack["launch"].status \notin Happy THEN "failed"
            ELSE IF "plans" \in task.switches THEN "unplanning"
            ELSE "updating")
    /\ UNCHANGED awsVars

\* provision_product and update_provisioned_product, up to their wait.
CallProduct(pc, status) ==
    /\ task.pc = pc
    /\ ChangeProduct(status, task.want)
    /\ Goto(IF "async" \in task.switches THEN "succeeded" ELSE "watching")
    /\ UNCHANGED <<plans, plan, record, parameter>>

CreateProduct == Absent /\ CallProduct("creating", "CREATE_IN_PROGRESS")
UpdateProduct == ~Absent /\ ~Busy /\ CallProduct("updating", "UPDATE_IN_PROGRESS")

\* provision_product_with_plan: the plans that earlier runs left go first.
DeletePlans ==
    /\ task.pc = "unplanning"
    /\ plans' = 0
    /\ plan' = NoPlan
    /\ Goto("planning")
    /\ UNCHANGED <<product, stack, record, parameter>>

CreatePlan ==
    /\ task.pc = "planning"
    /\ plans' = plans + 1
    /\ plan' = [status |-> "CREATE_IN_PROGRESS", content |-> task.want]
    /\ Goto("computing")
    /\ UNCHANGED <<product, stack, record, parameter>>

\* A plan with nothing to do counts as a success, and stays.
\* Mutant: only a plan that can be executed ends the wait.
AwaitSuccess ==
    /\ task.pc = "computing"
    /\ plan.status = "CREATE_SUCCESS"
    /\ Goto("executing")
    /\ UNCHANGED awsVars

AwaitPlan ==
    /\ task.pc = "computing"
    /\ plan.status # "CREATE_IN_PROGRESS"
    /\ Goto(CASE plan.status = "CREATE_SUCCESS" -> "executing"
              [] plan.status = "NO_UPDATES" -> "succeeded"
              [] OTHER -> "failed")
    /\ UNCHANGED awsVars

ExecutePlan ==
    /\ task.pc = "executing"
    /\ ~Busy
    /\ plan' = [plan EXCEPT !.status = "EXECUTE_IN_PROGRESS"]
    /\ ChangeProduct("UPDATE_IN_PROGRESS", plan.content)
    /\ Goto("awaiting")
    /\ UNCHANGED <<plans, record, parameter>>

AwaitExecution ==
    /\ task.pc = "awaiting"
    /\ plan.status # "EXECUTE_IN_PROGRESS"
    /\ Goto(IF plan.status = "EXECUTE_SUCCESS" THEN "watching" ELSE "failed")
    /\ UNCHANGED awsVars

\* The wait for the product, and the end of its plan unless it is in ERROR.
WatchProduct ==
    /\ task.pc = "watching"
    /\ ~Busy
    /\ Goto(IF product.status = "AVAILABLE" THEN "succeeded" ELSE "failed")
    /\ IF plan # NoPlan /\ product.status \in {"AVAILABLE", "TAINTED"}
       THEN plans' = plans - 1 /\ plan' = NoPlan
       ELSE UNCHANGED <<plans, plan>>
    /\ UNCHANGED <<product, stack, record, parameter>>

-----------------------------------------------------------------------------
(* DoTerminateProductTask.run *)

StartTerminate == Start("terminate", Nothing, {}, "finding")

FindProduct ==
    /\ task.pc = "finding"
    /\ Goto(IF Absent THEN "succeeded" ELSE "dismissing")
    /\ UNCHANGED awsVars

\* AWS refuses to terminate a product that changes, or went in the meantime.
DismissProduct ==
    /\ task.pc = "dismissing"
    /\ IF Busy \/ Absent
       THEN Goto("failed") /\ UNCHANGED <<product, stack, record>>
       ELSE /\ \E answer \in RecordStatus \ {"none"} : TerminateProduct(answer)
            /\ Goto("dismissed")
    /\ UNCHANGED <<plans, plan, parameter>>

\* A record that was created, and not begun, ends the wait too.
AwaitTermination ==
    /\ task.pc = "dismissed"
    /\ record # "IN_PROGRESS"
    /\ Goto(IF record \in {"CREATED", "SUCCEEDED"} THEN "succeeded" ELSE "failed")
    /\ UNCHANGED awsVars

LaunchStep ==
    \/ LookForProduct \/ WaitForProduct \/ CleanUpProduct \/ CompareProduct \/ CheckStack
    \/ CreateProduct \/ UpdateProduct
    \/ DeletePlans \/ CreatePlan \/ AwaitPlan \/ ExecutePlan \/ AwaitExecution
    \/ WatchProduct
    \/ FindProduct \/ DismissProduct \/ AwaitTermination
=============================================================================
