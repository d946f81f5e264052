------------------------------ MODULE StackTasks ------------------------------
(***************************************************************************)
(* The tasks of a stack that names a launch: ProvisionStackTask and        *)
(* TerminateStackTask.  They work on the stack of the product if there is  *)
(* a product when they begin, and on a stack of their own otherwise.       *)
(***************************************************************************)
EXTENDS AwsObjects

\* should_delete_rollback_complete_stacks, and the execution mode hub of a stack.
StackSwitches == {"delete", "hub"}

Target == stack[task.target]

\* Mutant: a launch that is not there yields no name.
TargetUndefined == IF Absent THEN "" ELSE "launch"

\* stack_name_to_use, looked up by the first call and cached.
TargetFound == IF Absent THEN "own" ELSE "launch"

-----------------------------------------------------------------------------
(* ProvisionStackTask.run *)

StartStack(want) ==
    \E switches \in SUBSET {"delete"} : Start("stack", want, switches, "resolving")

ResolveStack(from, to) ==
    /\ task.pc = from
    /\ task' = [task EXCEPT !.target = TargetFound, !.pc = to]
    /\ UNCHANGED awsVars

\* Mutant: a stack in ROLLBACK_COMPLETE is always deleted.
AfterEnsureEager(status) ==
    CASE status = "NoStack" /\ task.target = "own" -> "applying"
      [] status = "ROLLBACK_COMPLETE" -> "deleting"
      [] status \in Happy -> "reading"
      [] OTHER -> "failed"

\* ensure_stack_is_in_complete_status, and the first decision of run. The message
\* for a missing stack is compared with the name of the item.
AfterEnsure(status) ==
    CASE status = "NoStack" /\ task.target = "own" -> "applying"
      [] status = "ROLLBACK_COMPLETE" /\ "delete" \in task.switches -> "deleting"
      [] status \in Happy -> "reading"
      [] OTHER -> "failed"

EnsureStack ==
    /\ task.pc = "ensuring"
    /\ ~StackBusy(task.target)
    /\ LET next == AfterEnsure(Target.status) IN
       IF next = "failed" THEN Goto(next)
       ELSE task' = [task EXCEPT !.pc = next, !.inStep = InStep(task.target)]
    /\ UNCHANGED awsVars

\* ensure_deleted: ask for it, and wait.
DeleteStack ==
    /\ task.pc = "deleting"
    /\ stack' = Asked(task.target, "DELETE_IN_PROGRESS", Nothing)
    /\ Goto("erasing")
    /\ UNCHANGED <<product, plans, plan, record, parameter>>

\* After a deletion there is nothing that could be the same.
AwaitDeletion ==
    /\ task.pc = "erasing"
    /\ ~StackBusy(task.target)
    /\ Goto(IF Target.status # "NoStack" THEN "failed"
            ELSE IF task.kind = "stack" THEN "applying"
            ELSE "succeeded")
    /\ UNCHANGED awsVars

\* Mutant: the templates are not compared.
CompareParameters ==
    /\ task.pc = "reading"
    /\ Goto(IF Target.content.params = task.want.params THEN "succeeded" ELSE "applying")
    /\ UNCHANGED awsVars

\* A stack that was rolled back is updated in any case.
CompareStack ==
    /\ task.pc = "reading"
    /\ Goto(IF Target.status = "COMPLETE" /\ Target.content = task.want
            THEN "succeeded" ELSE "applying")
    /\ UNCHANGED awsVars

\* create_or_update; an update without a change is a success.
ApplyStack ==
    /\ task.pc = "applying"
    /\ IF Target.status # "NoStack" /\ Target.content = task.want
       THEN Continue("succeeded", TRUE) /\ UNCHANGED stack
       ELSE /\ stack' = Asked(task.target, IF Target.status = "NoStack"
                                           THEN "CREATE_IN_PROGRESS"
                                           ELSE "UPDATE_IN_PROGRESS", task.want)
            /\ Continue("applied", TRUE)
    /\ UNCHANGED <<product, plans, plan, record, parameter>>

AwaitStack ==
    /\ task.pc = "applied"
    /\ ~StackBusy(task.target)
    /\ Goto(IF Target.status = "COMPLETE" THEN "succeeded" ELSE "failed")
    /\ UNCHANGED awsVars

-----------------------------------------------------------------------------
(* TerminateStackTask.run *)

StartStackTermination ==
    \E switches \in SUBSET {"hub"} : Start("unstack", Nothing, switches, "dropping")

\* terminate_ssm_outputs, in the hub only.
DropOutputs ==
    /\ task.pc = "dropping"
    /\ parameter' = IF "hub" \in task.switches /\ OutputOf = "stack" THEN Nothing ELSE parameter
    /\ Goto("dropped")
    /\ UNCHANGED <<product, stack, plans, plan, record>>

\* A stack that is not there is a success; one that changes cannot be deleted.
DropStack ==
    /\ task.pc = "found"
    /\ Goto(CASE Target.status = "NoStack" -> "succeeded"
              [] StackBusy(task.target) -> "failed"
              [] OTHER -> "deleting")
    /\ UNCHANGED awsVars

StackStep ==
    \/ ResolveStack("resolving", "ensuring") \/ DropOutputs \/ ResolveStack("dropped", "found")
    \/ EnsureStack \/ DeleteStack \/ AwaitDeletion \/ CompareStack \/ ApplyStack \/ AwaitStack
    \/ DropStack
=============================================================================
