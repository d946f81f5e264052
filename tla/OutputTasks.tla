----------------------------- MODULE OutputTasks -----------------------------
(***************************************************************************)
(* The tasks of the SSM output of a launch or stack, which depend on the   *)
(* task that provisions or terminates it: SSMOutputsTasks and              *)
(* TerminateSSMOutputsTasks.                                               *)
(***************************************************************************)
EXTENDS AwsObjects

\* force_operation
OutputSwitches == {"force"}

\* find_launch_output and find_stack_output: the stack whose output is written. It
\* is looked up anew, not taken from the task that provisioned it.
Source == IF OutputOf = "launch" \/ ~Absent THEN "launch" ELSE "own"

HasOutput(s) == stack[s].content # Nothing /\ stack[s].status # "ROLLBACK_COMPLETE"

\* The engine runs the output task once the task it depends on succeeded.
StartOutput ==
    /\ task.pc = "succeeded" /\ task.kind = Producer
    /\ \E switches \in SUBSET OutputSwitches :
          task' = [task EXCEPT !.pc = "comparing output", !.kind = "output",
                               !.switches = switches]
    /\ UNCHANGED awsVars

\* Mutant: only the flag counts, not whether there is a parameter.
NeedsOutputIgnoringAbsence == task.provisioned \/ "force" \in task.switches

\* A parameter is written if the stack was changed, or by force, or if there is none.
NeedsOutput == task.provisioned \/ "force" \in task.switches \/ parameter = Nothing

CompareOutput ==
    /\ task.pc = "comparing output"
    /\ Goto(IF NeedsOutput THEN "writing output" ELSE "succeeded")
    /\ UNCHANGED awsVars

\* Without an output the task raises.
WriteOutput ==
    /\ task.pc = "writing output"
    /\ IF HasOutput(Source)
       THEN parameter' = stack[Source].content /\ Goto("succeeded")
       ELSE Goto("failed") /\ UNCHANGED parameter
    /\ UNCHANGED <<product, stack, plans, plan, record>>

\* The parameter of a terminated item goes too.
TerminateOutput ==
    /\ task.pc = "succeeded" /\ task.kind = Terminator
    /\ parameter' = Nothing
    /\ task' = NoTask("succeeded")
    /\ UNCHANGED <<product, stack, plans, plan, record>>

OutputStep == CompareOutput \/ WriteOutput
=============================================================================
