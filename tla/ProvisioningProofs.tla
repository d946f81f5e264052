-------------------------- MODULE ProvisioningProofs --------------------------
(***************************************************************************)
(* Proofs about Provisioning: what a task may ask of AWS and what its      *)
(* success says, for any versions, parameters and contents, run after run, *)
(* and wherever earlier tasks were stopped.                                *)
(***************************************************************************)
EXTENDS Provisioning, TLAPS

LaunchPcs == {"looking", "waiting", "terminating", "cleaning", "comparing", "checking", "creating",
              "updating", "unplanning", "planning", "computing", "executing", "awaiting",
              "watching"}
TerminatePcs == {"finding", "dismissing", "dismissed"}
StackPcs == {"resolving", "ensuring", "reading", "applying", "applied"}
DeletePcs == {"deleting", "erasing"}
UnstackPcs == {"dropping", "dropped", "found"}
OutputPcs == {"comparing output", "writing output"}
EndPcs == {"succeeded", "failed"}
Pcs == LaunchPcs \cup TerminatePcs \cup StackPcs \cup DeletePcs \cup UnstackPcs \cup OutputPcs
           \cup EndPcs

\* The places between the look at a stack that can be updated and the call that does it.
ReadyPcs == {"updating", "unplanning", "planning", "computing", "executing"}

Switches == LaunchSwitches \cup StackSwitches \cup OutputSwitches

TaskType == [kind : {"none", "provision", "terminate", "stack", "unstack", "output"},
             want : SomeContent, switches : SUBSET Switches, pc : Pcs,
             artifact : Versions \cup {"none"}, waited : BOOLEAN, target : StackNames,
             provisioned : BOOLEAN, inStep : BOOLEAN]

TypeInv ==
    /\ product \in [status : ProductStatus, version : Versions \cup {"none"}]
    /\ stack \in [StackNames -> [status : StackStatus, content : SomeContent,
                                 asked : SomeContent]]
    /\ plans \in Nat
    /\ plan \in [status : PlanStatus, content : SomeContent]
    /\ record \in RecordStatus
    /\ parameter \in SomeContent
    /\ task \in TaskType

\* Every place belongs to a task of its kind.
KindInv ==
    /\ task.pc \in LaunchPcs => task.kind = "provision"
    /\ task.pc \in TerminatePcs => task.kind = "terminate"
    /\ task.pc \in StackPcs => task.kind = "stack"
    /\ task.pc \in DeletePcs => task.kind \in {"stack", "unstack"}
    /\ task.pc \in UnstackPcs => task.kind = "unstack"
    /\ task.pc \in OutputPcs => task.kind = "output"

\* A product under change has a stack under change, and a launch that goes on from its look at the
\* product found it at rest and acts on what it found.
RestInv ==
    /\ Busy => StackBusy("launch")
    /\ task.pc = "waiting" => task.waited
    /\ task.pc = "terminating" => product.status = "ERROR"
    /\ task.pc \in {"comparing", "checking"} => product.status \in {"ABSENT", "AVAILABLE", "TAINTED"}
    /\ task.pc = "comparing" /\ ~Absent /\ ~task.waited => task.artifact = product.version
    /\ task.pc \in ReadyPcs => /\ product.status \in {"AVAILABLE", "TAINTED"}
                               /\ stack["launch"].status \in Happy

\* The task's own plan is the only one, and it is for what the task wants.
PlanInv ==
    /\ plans <= 1
    /\ plan # NoPlan => plans = 1
    /\ task.pc = "planning" => plans = 0
    /\ task.pc \in {"computing", "executing"} => plans = 1 /\ plan.content = task.want
    /\ task.pc = "computing" /\ plan.status = "NO_UPDATES" =>
           stack["launch"].content = plan.content

\* What was asked of the product is under way, or the product is usable only as asked.
ChangeInv ==
    /\ task.pc \in {"awaiting", "watching"} =>
          \/ /\ Busy
             /\ stack["launch"].status \in {"CREATE_IN_PROGRESS", "UPDATE_IN_PROGRESS"}
             /\ stack["launch"].asked = task.want
          \/ /\ ~Busy /\ ~StackBusy("launch")
             /\ product.status = "AVAILABLE" => stack["launch"].content = task.want
    /\ task.pc = "dismissed" /\ record = "SUCCEEDED" => Absent

\* A stack task deletes only what it may, and what it asked of its stack is under way, or
\* the stack is complete only as asked.
StackInv ==
    /\ task.pc = "reading" => Target.status \in Happy
    /\ task.pc = "applying" => Target.status \in Happy \cup {"NoStack"}
    /\ task.pc = "applied" =>
          \/ /\ Target.status \in {"CREATE_IN_PROGRESS", "UPDATE_IN_PROGRESS"}
             /\ Target.asked = task.want
          \/ ~StackBusy(task.target) /\ (Target.status = "COMPLETE" => Target.content = task.want)
    /\ task.pc = "deleting" /\ task.kind = "stack" =>
          Target.status = "ROLLBACK_COMPLETE" /\ "delete" \in task.switches
    /\ task.pc \in {"ensuring", "reading"} =>
          /\ task.target = "own" => Absent
          /\ task.target = "launch" => ~Absent \/ stack["launch"].status = "NoStack"

\* As long as the task has changed nothing the parameter is in step with the stack s.
StillInStep(s) ==
    task.inStep /\ ~task.provisioned =>
        ~StackBusy(s) /\ parameter \in {Nothing, stack[s].content}

\* A task that changes its stack says so, and one that does not leaves the parameter in step.
OutputInv ==
    /\ task.pc \in {"looking", "waiting"} => ~task.inStep
    /\ task.pc = "comparing" /\ ~Absent => StillInStep("launch")
    /\ task.pc \in ReadyPcs \cup {"checking", "creating", "awaiting", "watching", "applied"} =>
           task.provisioned
    /\ task.pc = "reading" => StillInStep(task.target)
    /\ task.pc = "succeeded" /\ task.kind = Producer => StillInStep(Source)
    /\ task.pc \in OutputPcs => StillInStep(Source)

IInv == TypeInv /\ KindInv /\ RestInv /\ PlanInv /\ ChangeInv /\ StackInv /\ OutputInv

-----------------------------------------------------------------------------
(* What a step of a task leaves of the task. *)

Same ==
    /\ task'.kind = task.kind /\ task'.want = task.want /\ task'.switches = task.switches
    /\ task'.artifact = task.artifact /\ task'.waited = task.waited
    /\ task'.target = task.target /\ task'.inStep = task.inStep

\* The task is at `pc`; one that ended with success and has an output kept its claim.
Moves(pc, provisioned) ==
    /\ task' \in TaskType
    /\ task'.pc = pc
    /\ pc \notin EndPcs => Same /\ task'.provisioned = provisioned
    /\ pc = "succeeded" /\ task'.kind = Producer =>
           task.kind = Producer /\ task'.inStep = task.inStep /\ task'.provisioned = provisioned

LEMMA NoTaskType == ASSUME NEW pc \in Pcs PROVE NoTask(pc) \in TaskType
  BY DEF NoTask, TaskType, SomeContent, StackNames

LEMMA ContinueMoves ==
  ASSUME TypeInv, NEW pc \in Pcs, NEW provisioned \in BOOLEAN, Continue(pc, provisioned)
  PROVE  Moves(pc, provisioned)
  <1>1. task \in TaskType
    BY DEF TypeInv
  <1>2. CASE pc = "failed" \/ (pc = "succeeded" /\ task.kind \notin {Producer, Terminator})
    <2>1. task' = NoTask(pc)
      BY <1>2 DEF Continue
    <2> QED
      BY <1>2, <2>1, NoTaskType, OutputAssumption DEF Moves, NoTask, EndPcs, Producer
  <1>3. CASE pc = "succeeded" /\ task.kind \in {Producer, Terminator}
    <2>1. task' = [NoTask(pc) EXCEPT !.kind = task.kind, !.provisioned = provisioned,
                                     !.inStep = task.inStep]
      BY <1>3 DEF Continue
    <2> QED
      BY <1>1, <1>3, <2>1, NoTaskType DEF Moves, NoTask, EndPcs, TaskType
  <1>4. CASE pc \notin EndPcs
    <2>1. task' = [task EXCEPT !.pc = pc, !.provisioned = provisioned]
      BY <1>4 DEF Continue, EndPcs
    <2> QED
      BY <1>1, <1>4, <2>1 DEF Moves, Same, EndPcs, TaskType
  <1> QED
    BY <1>2, <1>3, <1>4 DEF EndPcs

LEMMA GotoMoves ==
  ASSUME TypeInv, NEW pc \in Pcs, Goto(pc)
  PROVE  Moves(pc, task.provisioned)
  BY ContinueMoves DEF Goto, TypeInv, TaskType

-----------------------------------------------------------------------------
LEMMA InvInit == Init => IInv
  <1> SUFFICES ASSUME Init PROVE IInv
    OBVIOUS
  <1>1. TypeInv
    BY NoTaskType DEF Init, TypeInv, Absence, NoPlan, SomeContent, ProductStatus, StackStatus,
                      PlanStatus, RecordStatus, Pcs, EndPcs
  <1>2. task.pc = "failed" /\ product.status = "ABSENT"
    BY DEF Init, NoTask
  <1>3. KindInv /\ RestInv /\ ChangeInv /\ StackInv /\ OutputInv
    BY <1>2 DEF KindInv, RestInv, ChangeInv, StackInv, OutputInv, Busy, LaunchPcs, TerminatePcs,
                StackPcs, DeletePcs, UnstackPcs, OutputPcs, ReadyPcs
  <1>4. PlanInv
    BY <1>2 DEF PlanInv, Init
  <1> QED
    BY <1>1, <1>3, <1>4 DEF IInv

-----------------------------------------------------------------------------
(* AWS goes on. *)

\* A plan or a record goes on: neither is looked at where something is said about it, but for a
\* plan that has nothing to do.
LEMMA PlanStep == IInv /\ (BeginTermination \/ ComputePlan \/ FinishPlan) => IInv'
  <1> SUFFICES ASSUME IInv, BeginTermination \/ ComputePlan \/ FinishPlan PROVE IInv'
    OBVIOUS
  <1>1. /\ UNCHANGED <<product, stack, plans, parameter, task>>
        /\ record' \in RecordStatus /\ (record' = "SUCCEEDED" => record = "SUCCEEDED")
        /\ plan' \in [status : PlanStatus, content : SomeContent]
        /\ plan'.content = plan.content /\ (plan' # NoPlan => plan # NoPlan)
        /\ plan'.status = "NO_UPDATES" =>
               plan.status = "NO_UPDATES" \/ stack["launch"].content = plan.content
    BY DEF BeginTermination, ComputePlan, FinishPlan, IInv, TypeInv, RecordStatus, PlanStatus, NoPlan
  <1>2. TypeInv' /\ KindInv' /\ RestInv'
    BY <1>1 DEF IInv, TypeInv, KindInv, RestInv, Busy, Absent, StackBusy
  <1>3. PlanInv'
    BY <1>1 DEF IInv, PlanInv
  <1>4. ChangeInv' /\ StackInv'
    BY <1>1 DEF IInv, ChangeInv, StackInv, Busy, Absent, StackBusy, Target
  <1>5. OutputInv'
    BY <1>1 DEF IInv, OutputInv, StillInStep, StackBusy, Absent, Source
  <1> QED
    BY <1>2, <1>3, <1>4, <1>5 DEF IInv

\* A stack settles. Nothing is said of a stack under change but what it is to become.
LEMMA SettleStep == ASSUME IInv, NEW s \in StackNames, Settle(s) PROVE IInv'
  <1>0. /\ UNCHANGED <<plans, plan, parameter, task>>
        /\ StackBusy(s)
    BY DEF Settle
  <1>1. PICK status \in Ends(stack[s].status) :
            /\ stack' = [stack EXCEPT ![s] =
                            [status  |-> status,
                             content |-> IF status \in {"COMPLETE", "NoStack"} THEN @.asked
                                         ELSE IF @.content = Nothing THEN @.asked ELSE @.content,
                             asked   |-> Nothing]]
            /\ IF s = "launch" /\ Busy
               THEN /\ \E after \in ProductAfter(status) :
                          product' = [status |-> after,
                                      version |-> IF status \in {"COMPLETE", "NoStack"}
                                                  THEN stack[s].asked.version ELSE product.version]
                    /\ record' = IF record # "IN_PROGRESS" THEN record
                                 ELSE IF status = "NoStack" THEN "SUCCEEDED"
                                 ELSE "FAILED"
               ELSE UNCHANGED <<product, record>>
    BY DEF Settle
  <1>2. /\ status \in StackStatus \ InProgress
        /\ stack[s].status = "DELETE_IN_PROGRESS" => status # "COMPLETE"
        /\ status = "NoStack" => stack[s].status = "DELETE_IN_PROGRESS"
    BY <1>0 DEF Ends, StackBusy, InProgress, StackStatus, Happy
  <1>3. /\ stack' \in [StackNames -> [status : StackStatus, content : SomeContent,
                                      asked : SomeContent]]
        /\ stack'[s].status = status
        /\ status = "COMPLETE" => stack'[s].content = stack[s].asked
        /\ \A r \in StackNames : r # s => stack'[r] = stack[r]
    BY <1>1, <1>2 DEF IInv, TypeInv, SomeContent
  <1>4. /\ product' \in [status : ProductStatus, version : Versions \cup {"none"}]
        /\ record' \in RecordStatus
        /\ ~(s = "launch" /\ Busy) => UNCHANGED <<product, record>>
        /\ s = "launch" /\ Busy => /\ product'.status \in ProductAfter(status)
                                   /\ product'.status # "UNDER_CHANGE"
                                   /\ record' = "SUCCEEDED" /\ record # "SUCCEEDED" =>
                                          product'.status = "ABSENT"
    <2>1. CASE ~(s = "launch" /\ Busy)
      BY <1>1, <2>1 DEF IInv, TypeInv
    <2>2. CASE s = "launch" /\ Busy
      <3>1. stack[s].asked.version \in Versions \cup {"none"}
        BY DEF IInv, TypeInv, SomeContent, Contents, Nothing
      <3>2. ProductAfter(status) \subseteq ProductStatus \ {"UNDER_CHANGE"}
        BY DEF ProductAfter, ProductStatus
      <3>3. status = "NoStack" => ProductAfter(status) = {"ABSENT"}
        BY DEF ProductAfter
      <3> QED
        BY <1>1, <2>2, <3>1, <3>2, <3>3 DEF IInv, TypeInv, RecordStatus
    <2> QED
      BY <2>1, <2>2
  <1>5. TypeInv' /\ KindInv' /\ PlanInv'
    <2>1. TypeInv' /\ KindInv'
      BY <1>0, <1>3, <1>4 DEF IInv, TypeInv, KindInv
    <2>2. task.pc = "computing" => stack'["launch"] = stack["launch"]
      BY <1>0, <1>3 DEF IInv, RestInv, ReadyPcs, Happy, InProgress, StackBusy, StackNames
    <2> QED
      BY <1>0, <2>1, <2>2 DEF IInv, PlanInv
  <1>6. RestInv'
    <2>1. ~Busy => product' = product
      BY <1>4
    <2>2. task.pc \in ReadyPcs => stack'["launch"] = stack["launch"]
      BY <1>0, <1>3 DEF IInv, RestInv, Happy, InProgress, StackBusy, StackNames
    <2>3. task.pc \in {"terminating", "comparing", "checking"} \cup ReadyPcs => ~Busy
      BY DEF IInv, RestInv, Busy
    <2>4. Busy' => StackBusy("launch")'
      BY <1>0, <1>3, <1>4 DEF IInv, RestInv, Busy, StackBusy, StackNames
    <2> QED
      BY <1>0, <2>1, <2>2, <2>3, <2>4 DEF IInv, RestInv, Absent
  <1>7. ChangeInv'
    <2>1. CASE s = "launch" /\ Busy
      <3>1. product'.status = "AVAILABLE" => status = "COMPLETE"
        BY <1>4, <2>1 DEF ProductAfter
      <3>2. ~Busy' /\ ~StackBusy("launch")'
        BY <1>2, <1>3, <1>4, <2>1 DEF Busy, StackBusy
      <3>3. record' = "SUCCEEDED" /\ task.pc = "dismissed" => product'.status = "ABSENT"
        BY <1>4, <2>1 DEF IInv, ChangeInv, Absent, Busy
      <3>4. task.pc \in {"awaiting", "watching"} => stack["launch"].asked = task.want
        BY <2>1 DEF IInv, ChangeInv
      <3> QED
        BY <1>0, <1>3, <2>1, <3>1, <3>2, <3>3, <3>4 DEF ChangeInv, Absent
    <2>2. CASE ~(s = "launch" /\ Busy)
      <3>1. task.pc \in {"awaiting", "watching"} => stack'["launch"] = stack["launch"]
        BY <1>0, <1>3, <2>2 DEF IInv, ChangeInv, StackBusy, StackNames
      <3> QED
        BY <1>0, <1>4, <2>2, <3>1 DEF IInv, ChangeInv, Busy, Absent, StackBusy
    <2> QED
      BY <2>1, <2>2
  <1>8. StackInv'
    <2>1. Target' = stack'[task.target] /\ task.target \in StackNames
      BY <1>0 DEF Target, IInv, TypeInv, TaskType
    <2>2. task.pc \in {"reading", "applying", "deleting"} /\ (task.pc = "deleting" => task.kind = "stack")
              => Target' = Target
      BY <1>0, <1>3, <2>1 DEF IInv, StackInv, Target, StackBusy, InProgress, Happy
    <2>3. task.pc = "applied" =>
             \/ /\ Target'.status \in {"CREATE_IN_PROGRESS", "UPDATE_IN_PROGRESS"}
                /\ Target'.asked = task.want
             \/ /\ Target'.status \notin InProgress
                /\ Target'.status = "COMPLETE" => Target'.content = task.want
      <3>1. CASE task.target = s
        BY <1>0, <1>2, <1>3, <2>1, <3>1 DEF IInv, StackInv, Target, StackBusy
      <3>2. CASE task.target # s
        BY <1>0, <1>3, <2>1, <3>2 DEF IInv, StackInv, Target, StackBusy
      <3> QED
        BY <3>1, <3>2
    <2>4. Absent => Absent'
      BY <1>4 DEF Absent, Busy
    <2>5. ~Absent /\ Absent' => stack'["launch"].status = "NoStack"
      <3>1. ~Absent /\ Absent' => s = "launch" /\ Busy /\ "ABSENT" \in ProductAfter(status)
        BY <1>4 DEF Absent
      <3>2. "ABSENT" \in ProductAfter(status) => status = "NoStack"
        BY DEF ProductAfter
      <3> QED
        BY <1>3, <3>1, <3>2
    <2>6. stack["launch"].status = "NoStack" => stack'["launch"] = stack["launch"]
      BY <1>0, <1>3 DEF StackBusy, InProgress, StackNames
    <2>7. StackBusy(task.target)' <=> Target'.status \in InProgress
      BY <1>0, <2>1 DEF StackBusy
    <2> QED
      BY <1>0, <2>2, <2>3, <2>4, <2>5, <2>6, <2>7 DEF IInv, StackInv
  <1>9. OutputInv'
    <2>1. ASSUME NEW r \in StackNames, StillInStep(r)
          PROVE  StillInStep(r)'
      BY <1>0, <1>3, <2>1 DEF StillInStep, StackBusy
    <2>2. Absent => Absent'
      BY <1>4 DEF Absent, Busy
    <2>3. ~Absent' => ~Absent
      BY <2>2
    <2>4. task.target \in StackNames /\ Source \in StackNames
      BY DEF IInv, TypeInv, TaskType, Source, StackNames
    <2>5. StillInStep(Source) => StillInStep(Source)'
      <3>1. CASE Source' = Source
        BY <2>1, <2>4, <3>1 DEF StillInStep, StackBusy
      <3>2. CASE Source' # Source
        <4>1. Source = "launch" /\ Busy
          BY <1>4, <3>2 DEF Source, Absent, Busy
        <4>2. StackBusy("launch")
          BY <4>1 DEF IInv, RestInv
        <4>3. StillInStep(Source) => ~(task.inStep /\ ~task.provisioned)
          BY <4>1, <4>2 DEF StillInStep
        <4> QED
          BY <1>0, <4>3 DEF StillInStep
      <3> QED
        BY <3>1, <3>2
    <2> QED
      BY <1>0, <2>1, <2>3, <2>4, <2>5 DEF IInv, OutputInv, StackNames
  <1> QED
    BY <1>5, <1>6, <1>7, <1>8, <1>9 DEF IInv

-----------------------------------------------------------------------------
(* Tasks begin and end. *)

Firsts == {<<"provision", "looking">>, <<"terminate", "finding">>, <<"stack", "resolving">>,
           <<"unstack", "dropping">>}

\* Nothing is said of a task that begins.
LEMMA StartStep ==
  ASSUME IInv, NEW kind, NEW first, NEW want \in SomeContent, NEW switches \in SUBSET Switches,
         <<kind, first>> \in Firsts, Start(kind, want, switches, first)
  PROVE  IInv'
  <1>1. /\ task' = [NoTask(first) EXCEPT !.kind = kind, !.want = want, !.switches = switches]
        /\ plan' = NoPlan /\ record' \in {record, "none"}
        /\ UNCHANGED <<product, stack, plans, parameter>>
    BY DEF Start
  <1>2. first \in Pcs /\ kind \in {"provision", "terminate", "stack", "unstack"}
    BY DEF Firsts, Pcs, LaunchPcs, TerminatePcs, StackPcs, UnstackPcs
  <1>3. task' \in TaskType /\ task'.pc = first /\ task'.kind = kind /\ ~task'.inStep
    BY <1>1, <1>2, NoTaskType DEF TaskType, NoTask
  <1>4. TypeInv'
    BY <1>1, <1>3 DEF IInv, TypeInv, NoPlan, PlanStatus, RecordStatus, SomeContent
  <1>5. KindInv'
    BY <1>3 DEF KindInv, Firsts, LaunchPcs, TerminatePcs, StackPcs, DeletePcs, UnstackPcs, OutputPcs
  <1>6. RestInv' /\ PlanInv'
    BY <1>1, <1>3 DEF IInv, RestInv, PlanInv, Firsts, ReadyPcs, Busy, Absent, StackBusy
  <1>7. ChangeInv' /\ StackInv' /\ OutputInv'
    BY <1>3 DEF ChangeInv, StackInv, OutputInv, Firsts, ReadyPcs, OutputPcs
  <1> QED
    BY <1>4, <1>5, <1>6, <1>7 DEF IInv

\* Nothing is said of a task that is over, but what an output task may go on from.
LEMMA EndStep ==
  ASSUME TypeInv', (Busy => StackBusy("launch"))', (plans <= 1)', (plan # NoPlan => plans = 1)',
         task'.pc \in EndPcs,
         task'.kind = Producer /\ task'.pc = "succeeded" => StillInStep(Source)'
  PROVE  IInv'
  <1>1. KindInv' /\ RestInv' /\ PlanInv'
    BY DEF KindInv, RestInv, PlanInv, EndPcs, ReadyPcs, LaunchPcs, TerminatePcs, StackPcs, DeletePcs,
           UnstackPcs, OutputPcs
  <1>2. ChangeInv' /\ StackInv' /\ OutputInv'
    BY DEF ChangeInv, StackInv, OutputInv, EndPcs, ReadyPcs, OutputPcs
  <1> QED
    BY <1>1, <1>2 DEF IInv

\* A task ends and leaves AWS as it is. Its claim has to hold only if it succeeded.
LEMMA EndAtRestStep ==
  ASSUME IInv, NEW pc \in EndPcs, NEW provisioned \in BOOLEAN, Continue(pc, provisioned),
         UNCHANGED awsVars,
         pc = "succeeded" /\ task.kind = Producer /\ task.inStep /\ ~provisioned =>
             ~StackBusy(Source) /\ parameter \in {Nothing, stack[Source].content}
  PROVE  IInv'
  <1> USE DEF awsVars
  <1>1. Moves(pc, provisioned)
    BY ContinueMoves DEF IInv, Pcs
  <1>2. TypeInv' /\ task'.pc = pc
    BY <1>1 DEF Moves, IInv, TypeInv
  <1>3. (Busy => StackBusy("launch"))' /\ (plans <= 1)' /\ (plan # NoPlan => plans = 1)'
    BY DEF IInv, RestInv, PlanInv, Busy, StackBusy
  <1>4. task'.kind = Producer /\ task'.pc = "succeeded" => StillInStep(Source)'
    BY <1>1 DEF Moves, StillInStep, StackBusy, Source, Absent
  <1> QED
    BY <1>2, <1>3, <1>4, EndStep

\* A task gives up, and AWS stays as it is.
LEMMA FailStep == ASSUME IInv, Goto("failed"), UNCHANGED awsVars PROVE IInv'
  <1>1. Continue("failed", task.provisioned) /\ task.provisioned \in BOOLEAN
    BY DEF Goto, IInv, TypeInv, TaskType
  <1> QED
    BY <1>1, EndAtRestStep DEF EndPcs

LEMMA StartOutputStep == IInv /\ (StartOutput \/ TerminateOutput) => IInv'
  <1>1. ASSUME IInv, StartOutput PROVE IInv'
    <2>1. PICK switches \in SUBSET OutputSwitches :
              task' = [task EXCEPT !.pc = "comparing output", !.kind = "output",
                                   !.switches = switches]
      BY <1>1 DEF StartOutput
    <2>2. /\ UNCHANGED <<product, stack, plans, plan, record, parameter>>
          /\ task.pc = "succeeded" /\ task.kind = Producer
      BY <1>1 DEF StartOutput, awsVars
    <2>3. /\ task' \in TaskType /\ task'.pc = "comparing output" /\ task'.kind = "output"
          /\ task'.inStep = task.inStep /\ task'.provisioned = task.provisioned
      BY <1>1, <2>1 DEF IInv, TypeInv, TaskType, Switches, Pcs, OutputPcs
    <2>4. TypeInv' /\ KindInv'
      BY <1>1, <2>2, <2>3 DEF IInv, TypeInv, KindInv, LaunchPcs, TerminatePcs, StackPcs, DeletePcs,
                  UnstackPcs, OutputPcs
    <2>5. RestInv' /\ PlanInv'
      BY <1>1, <2>2, <2>3 DEF IInv, RestInv, PlanInv, ReadyPcs, Busy, StackBusy
    <2>6. ChangeInv' /\ StackInv'
      BY <2>3 DEF ChangeInv, StackInv
    <2>7. OutputInv'
      BY <1>1, <2>2, <2>3 DEF IInv, OutputInv, ReadyPcs, OutputPcs, StillInStep, Source, StackBusy,
                              Absent
    <2> QED
      BY <2>4, <2>5, <2>6, <2>7 DEF IInv
  <1>2. ASSUME IInv, TerminateOutput PROVE IInv'
    <2>1. /\ task' = NoTask("succeeded") /\ parameter' = Nothing
          /\ UNCHANGED <<product, stack, plans, plan, record>>
      BY <1>2 DEF TerminateOutput
    <2>2. task' \in TaskType /\ task'.pc = "succeeded" /\ task'.kind = "none"
      BY <2>1, NoTaskType DEF Pcs, EndPcs, NoTask
    <2>3. TypeInv' /\ KindInv'
      BY <1>2, <2>1, <2>2 DEF IInv, TypeInv, KindInv, LaunchPcs, TerminatePcs, StackPcs, DeletePcs,
                  UnstackPcs, OutputPcs, SomeContent
    <2>4. RestInv' /\ PlanInv'
      BY <1>2, <2>1, <2>2 DEF IInv, RestInv, PlanInv, ReadyPcs, Busy, StackBusy
    <2>5. ChangeInv' /\ StackInv' /\ OutputInv'
      BY <2>2 DEF ChangeInv, StackInv, OutputInv, ReadyPcs, OutputPcs, Producer
    <2> QED
      BY <2>3, <2>4, <2>5 DEF IInv
  <1> QED
    BY <1>1, <1>2

-----------------------------------------------------------------------------
(* The steps of a launch. *)

\* The task is somewhere else and AWS is as it was: what has to hold there is given.
LEMMA LaunchMoveStep ==
  ASSUME IInv, NEW pc \in LaunchPcs, task' \in TaskType, task'.pc = pc, task'.kind = "provision",
         UNCHANGED awsVars,
         pc \notin {"looking"},
         pc = "waiting" => task'.waited /\ ~task'.inStep,
         pc = "terminating" => product.status = "ERROR",
         pc \in {"comparing", "checking"} => product.status \in {"ABSENT", "AVAILABLE", "TAINTED"},
         pc = "comparing" /\ ~Absent =>
             /\ task'.waited \/ task'.artifact = product.version
             /\ StillInStep("launch")',
         pc \in ReadyPcs => /\ product.status \in {"AVAILABLE", "TAINTED"}
                            /\ stack["launch"].status \in Happy
                            /\ pc \notin {"planning", "computing"}
                            /\ pc = "executing" => plans = 1 /\ plan.content = task'.want,
         pc \notin {"awaiting"},
         pc = "watching" => task.pc = "awaiting" /\ task'.want = task.want,
         pc \in ReadyPcs \cup {"checking", "creating", "watching"} => task'.provisioned
  PROVE  IInv'
  <1> USE DEF awsVars
  <1>1. TypeInv' /\ KindInv'
    BY DEF IInv, TypeInv, KindInv, LaunchPcs, TerminatePcs, StackPcs, DeletePcs, UnstackPcs, OutputPcs
  <1>2. RestInv'
    BY DEF IInv, RestInv, ReadyPcs, Busy, StackBusy, Absent
  <1>3. PlanInv'
    BY DEF IInv, PlanInv, ReadyPcs
  <1>4. ChangeInv' /\ StackInv'
    BY DEF IInv, ChangeInv, StackInv, LaunchPcs, Busy, StackBusy, Absent
  <1>5. OutputInv'
    BY DEF OutputInv, LaunchPcs, ReadyPcs, OutputPcs, StillInStep, Absent, StackBusy
  <1> QED
    BY <1>1, <1>2, <1>3, <1>4, <1>5 DEF IInv

\* Where Continue leads, when it does not end the task.
LEMMA ContinueLaunchStep ==
  ASSUME IInv, NEW pc \in LaunchPcs, NEW provisioned \in BOOLEAN, Continue(pc, provisioned),
         task.kind = "provision"
  PROVE  /\ task' \in TaskType /\ task'.pc = pc /\ task'.kind = "provision"
         /\ Same /\ task'.provisioned = provisioned
  <1>1. pc \in Pcs /\ pc \notin EndPcs
    BY DEF Pcs, LaunchPcs, EndPcs
  <1> QED
    BY <1>1, ContinueMoves DEF IInv, Moves, Same

LEMMA LookStep == IInv /\ LookForProduct => IInv'
  <1> SUFFICES ASSUME IInv, LookForProduct PROVE IInv'
    OBVIOUS
  <1>0. task.kind = "provision" /\ task \in TaskType /\ UNCHANGED awsVars
    BY DEF LookForProduct, IInv, KindInv, LaunchPcs, TypeInv
  <1>1. CASE task' = [task EXCEPT !.pc = "creating", !.provisioned = TRUE,
                                  !.inStep = InStep("launch")]
    <2>1. task' \in TaskType /\ task'.pc = "creating" /\ task'.kind = "provision" /\ task'.provisioned
      BY <1>0, <1>1 DEF TaskType, Pcs, LaunchPcs, InStep
    <2> QED
      BY <1>0, <2>1, LaunchMoveStep DEF LaunchPcs, ReadyPcs
  <1>2. CASE \E artifact \in {product.version, stack["launch"].asked.version} :
                task' = [task EXCEPT !.pc = "waiting", !.waited = TRUE, !.artifact = artifact]
    <2>1. PICK artifact \in {product.version, stack["launch"].asked.version} :
                task' = [task EXCEPT !.pc = "waiting", !.waited = TRUE, !.artifact = artifact]
      BY <1>2
    <2>2. artifact \in Versions \cup {"none"}
      BY <2>1 DEF IInv, TypeInv, SomeContent, Contents, Nothing, StackNames
    <2>3. task' \in TaskType /\ task'.pc = "waiting" /\ task'.kind = "provision" /\ task'.waited
          /\ ~task'.inStep
      BY <1>0, <2>1, <2>2 DEF TaskType, Pcs, LaunchPcs, IInv, OutputInv, LookForProduct
    <2> QED
      BY <1>0, <2>3, LaunchMoveStep DEF LaunchPcs, ReadyPcs
  <1>3. CASE /\ ~Absent /\ ~Busy
             /\ task' = [task EXCEPT !.pc = AfterCleanUp(product.status),
                                     !.artifact = product.version,
                                     !.inStep = InStep("launch")]
    <2> DEFINE pc == AfterCleanUp(product.status)
    <2>1. /\ pc \in {"terminating", "comparing"}
          /\ pc = "terminating" => product.status = "ERROR"
          /\ pc = "comparing" => product.status \in {"AVAILABLE", "TAINTED"}
      BY <1>3 DEF AfterCleanUp, IInv, TypeInv, ProductStatus, Absent, Busy
    <2>2. task' \in TaskType /\ task'.pc = pc /\ task'.kind = "provision"
          /\ task'.artifact = product.version /\ task'.inStep = InStep("launch")
      <3>1. product.version \in Versions \cup {"none"} /\ InStep("launch") \in BOOLEAN
        BY DEF IInv, TypeInv, InStep
      <3>2. pc \in Pcs /\ task' = [task EXCEPT !.pc = pc, !.artifact = product.version,
                                                  !.inStep = InStep("launch")]
        BY <1>3, <2>1 DEF Pcs, LaunchPcs
      <3> HIDE DEF pc
      <3> QED
        BY <1>0, <3>1, <3>2 DEF TaskType
    <2>3. StillInStep("launch")'
      BY <1>0, <2>2 DEF StillInStep, InStep, awsVars, StackBusy
    <2> QED
      BY <1>0, <2>1, <2>2, <2>3, LaunchMoveStep DEF LaunchPcs, ReadyPcs
  <1> QED
    BY <1>1, <1>2, <1>3 DEF LookForProduct

LEMMA WaitStep == IInv /\ WaitForProduct => IInv'
  <1> SUFFICES ASSUME IInv, WaitForProduct PROVE IInv'
    OBVIOUS
  <1>0. task.kind = "provision" /\ task.pc = "waiting" /\ task.waited /\ UNCHANGED awsVars
    BY DEF WaitForProduct, IInv, KindInv, RestInv, LaunchPcs
  <1>1. CASE Absent
    BY <1>0, <1>1, FailStep DEF WaitForProduct
  <1>2. CASE ~Absent
    <2> DEFINE pc == AfterCleanUp(product.status)
    <2>1. /\ pc \in {"terminating", "comparing"} /\ Goto(pc)
          /\ pc = "terminating" => product.status = "ERROR"
          /\ pc = "comparing" => product.status \in {"AVAILABLE", "TAINTED"}
      BY <1>2 DEF WaitForProduct, AfterCleanUp, IInv, TypeInv, ProductStatus, Absent, Busy
    <2>2. /\ task' \in TaskType /\ task'.pc = pc /\ task'.kind = "provision"
          /\ Same /\ task'.provisioned = task.provisioned
      BY <1>0, <2>1, ContinueLaunchStep DEF Goto, LaunchPcs, IInv, TypeInv, TaskType
    <2>3. StillInStep("launch")'
      BY <1>0, <2>2 DEF StillInStep, Same, IInv, OutputInv
    <2> QED
      BY <1>0, <2>1, <2>2, <2>3, LaunchMoveStep DEF LaunchPcs, ReadyPcs, Same
  <1> QED
    BY <1>1, <1>2

\* What is asked of the product, and the answer to its termination.
LEMMA ChangeProductType ==
  ASSUME IInv, NEW status \in InProgress, NEW content \in SomeContent, ChangeProduct(status, content)
  PROVE  /\ product' \in [status : ProductStatus, version : Versions \cup {"none"}]
         /\ stack' \in [StackNames -> [status : StackStatus, content : SomeContent,
                                       asked : SomeContent]]
         /\ Busy' /\ stack'["launch"].status = status /\ stack'["launch"].asked = content
         /\ stack'["own"] = stack["own"]
  <1>1. content.version \in Versions \cup {"none"}
    BY DEF SomeContent, Contents, Nothing
  <1>2. product' \in [status : ProductStatus, version : Versions \cup {"none"}] /\ Busy'
    BY <1>1 DEF ChangeProduct, IInv, TypeInv, ProductStatus, Busy
  <1>3. stack' = [stack EXCEPT !["launch"].status = status, !["launch"].asked = content]
    BY DEF ChangeProduct, Asked
  <1> QED
    BY <1>2, <1>3 DEF IInv, TypeInv, StackNames, StackStatus

LEMMA TerminateProductType ==
  ASSUME IInv, ~Busy, NEW answer \in RecordStatus \ {"none"}, TerminateProduct(answer)
  PROVE  /\ product' \in [status : ProductStatus, version : Versions \cup {"none"}]
         /\ stack' \in [StackNames -> [status : StackStatus, content : SomeContent,
                                       asked : SomeContent]]
         /\ record' = answer
         /\ (Busy => StackBusy("launch"))'
         /\ answer = "SUCCEEDED" => Absent'
         /\ stack'["own"] = stack["own"]
         /\ stack'["launch"].status = "DELETE_IN_PROGRESS" =>
                stack["launch"].status = "DELETE_IN_PROGRESS" \/ answer \in {"CREATED", "IN_PROGRESS"}
  <1>1. CASE answer = "SUCCEEDED"
    BY <1>1 DEF TerminateProduct, IInv, TypeInv, ProductStatus, StackNames, StackStatus, Absence,
                SomeContent, Busy, Absent, StackBusy
  <1>2. CASE answer = "FAILED"
    BY <1>2 DEF TerminateProduct, IInv, TypeInv, ProductStatus, Busy, StackBusy
  <1>3. CASE answer \notin {"SUCCEEDED", "FAILED"}
    <2>1. ChangeProduct("DELETE_IN_PROGRESS", Nothing) /\ record' = answer
      BY <1>3 DEF TerminateProduct
    <2>2. "DELETE_IN_PROGRESS" \in InProgress /\ Nothing \in SomeContent
      BY DEF InProgress, SomeContent
    <2> QED
      BY <1>3, <2>1, <2>2, ChangeProductType DEF StackBusy, InProgress, RecordStatus
  <1> QED
    BY <1>1, <1>2, <1>3

LEMMA CleanUpStep == IInv /\ CleanUpProduct => IInv'
  <1> SUFFICES ASSUME IInv, CleanUpProduct PROVE IInv'
    OBVIOUS
  <1>1. PICK answer \in RecordStatus \ {"none"} :
            /\ TerminateProduct(answer)
            /\ Goto(CASE answer = "IN_PROGRESS" -> "cleaning"
                      [] answer = "SUCCEEDED" -> "comparing"
                      [] OTHER -> "failed")
    BY DEF CleanUpProduct
  <1>2. /\ task.pc = "terminating" /\ task.kind = "provision" /\ product.status = "ERROR"
        /\ UNCHANGED <<plans, plan, parameter>>
    BY DEF CleanUpProduct, IInv, KindInv, RestInv, LaunchPcs
  <1>3. ~Busy
    BY <1>2 DEF Busy
  <1>4. /\ product' \in [status : ProductStatus, version : Versions \cup {"none"}]
        /\ stack' \in [StackNames -> [status : StackStatus, content : SomeContent,
                                      asked : SomeContent]]
        /\ record' \in RecordStatus
        /\ (Busy => StackBusy("launch"))'
        /\ answer = "SUCCEEDED" => Absent'
    BY <1>1, <1>3, TerminateProductType
  <1>5. (plans <= 1)' /\ (plan # NoPlan => plans = 1)'
    BY <1>2 DEF IInv, PlanInv
  <1>6. CASE answer \notin {"IN_PROGRESS", "SUCCEEDED"}
    <2>1. Goto("failed")
      BY <1>1, <1>6
    <2>2. Moves("failed", task.provisioned)
      BY <2>1, GotoMoves DEF IInv, Pcs, EndPcs
    <2>3. TypeInv' /\ task'.pc = "failed"
      BY <1>2, <1>4, <2>2 DEF Moves, IInv, TypeInv
    <2> QED
      BY <1>4, <1>5, <2>3, EndStep DEF EndPcs
  <1>7. CASE answer \in {"IN_PROGRESS", "SUCCEEDED"}
    <2> DEFINE pc == IF answer = "IN_PROGRESS" THEN "cleaning" ELSE "comparing"
    <2>1. Goto(pc) /\ pc \in LaunchPcs
      BY <1>1, <1>7 DEF LaunchPcs
    <2>2. task' \in TaskType /\ task'.pc = pc /\ task'.kind = "provision"
      BY <1>2, <2>1, ContinueLaunchStep DEF Goto, IInv, TypeInv, TaskType
    <2>3. TypeInv' /\ KindInv'
      BY <1>2, <1>4, <2>2 DEF IInv, TypeInv, KindInv, TerminatePcs, StackPcs, DeletePcs, UnstackPcs,
                              OutputPcs
    <2>4. RestInv' /\ PlanInv'
      BY <1>4, <1>5, <1>7, <2>2 DEF RestInv, PlanInv, ReadyPcs, Absent
    <2>5. ChangeInv' /\ StackInv'
      BY <2>2 DEF ChangeInv, StackInv
    <2>6. OutputInv'
      BY <1>4, <1>7, <2>2 DEF OutputInv, ReadyPcs, OutputPcs
    <2> QED
      BY <2>3, <2>4, <2>5, <2>6 DEF IInv
  <1> QED
    BY <1>6, <1>7

\* An end of the comparison with success is where the launch is as it was and the parameter too.
LEMMA CompareStep == IInv /\ (CompareProduct \/ CheckStack) => IInv'
  <1>1. ASSUME IInv, CompareProduct PROVE IInv'
    <2>0. /\ task.pc = "comparing" /\ task.kind = "provision" /\ UNCHANGED awsVars
          /\ product.status \in {"ABSENT", "AVAILABLE", "TAINTED"}
      BY <1>1 DEF CompareProduct, IInv, KindInv, RestInv, LaunchPcs
    <2>1. CASE Goto("failed")
      BY <1>1, <2>0, <2>1, FailStep
    <2>2. CASE ~Absent /\ Goto("succeeded")
      <3>1. Continue("succeeded", task.provisioned) /\ task.provisioned \in BOOLEAN
        BY <1>1, <2>2 DEF Goto, IInv, TypeInv, TaskType
      <3>2. StillInStep("launch")
        BY <1>1, <2>0, <2>2 DEF IInv, OutputInv
      <3>3. Source = "launch"
        BY <2>2 DEF Source
      <3> QED
        BY <1>1, <2>0, <3>1, <3>2, <3>3, EndAtRestStep DEF EndPcs, StillInStep
    <2>3. CASE Continue("checking", TRUE)
      <3>1. "checking" \in LaunchPcs /\ "checking" \notin ReadyPcs
        BY DEF LaunchPcs, ReadyPcs
      <3>2. task' \in TaskType /\ task'.pc = "checking" /\ task'.kind = "provision" /\ task'.provisioned
        BY <1>1, <2>0, <2>3, <3>1, ContinueLaunchStep
      <3> QED
        BY <1>1, <2>0, <3>1, <3>2, LaunchMoveStep
    <2> QED
      BY <1>1, <2>1, <2>2, <2>3 DEF CompareProduct
  <1>2. ASSUME IInv, CheckStack PROVE IInv'
    <2>0. /\ task.pc = "checking" /\ task.kind = "provision" /\ task.provisioned /\ UNCHANGED awsVars
          /\ product.status \in {"ABSENT", "AVAILABLE", "TAINTED"}
      BY <1>2 DEF CheckStack, IInv, KindInv, RestInv, OutputInv, LaunchPcs
    <2>1. CASE Goto("failed")
      BY <1>2, <2>0, <2>1, FailStep
    <2>2. ASSUME NEW pc \in {"unplanning", "updating"}, Goto(pc), ~Absent,
                 stack["launch"].status \in Happy
          PROVE  IInv'
      <3>1. pc \in LaunchPcs
        BY DEF LaunchPcs
      <3>2. task' \in TaskType /\ task'.pc = pc /\ task'.kind = "provision" /\ task'.provisioned
        BY <1>2, <2>0, <2>2, <3>1, ContinueLaunchStep DEF Goto, IInv, TypeInv, TaskType
      <3> QED
        BY <1>2, <2>0, <2>2, <3>1, <3>2, LaunchMoveStep DEF Absent
    <2>3. \/ Goto("failed")
          \/ \E pc \in {"unplanning", "updating"} : Goto(pc) /\ ~Absent /\ stack["launch"].status \in Happy
      BY <1>2 DEF CheckStack
    <2> QED
      BY <2>1, <2>2, <2>3
  <1> QED
    BY <1>1, <1>2

\* What was asked of the product is under way when the task waits for it, or goes on without.
LEMMA CallStep ==
  ASSUME IInv, NEW pc \in {"watching", "awaiting", "succeeded"}, NEW status \in {"CREATE_IN_PROGRESS", "UPDATE_IN_PROGRESS"},
         task.kind = "provision", task.provisioned, ChangeProduct(status, task.want), Goto(pc),
         UNCHANGED <<plans, record, parameter>>,
         plan' \in [status : PlanStatus, content : SomeContent], (plan # NoPlan => plans = 1)'
  PROVE  IInv'
  <1>0. status \in InProgress /\ task.want \in SomeContent /\ task.provisioned \in BOOLEAN
    BY DEF InProgress, IInv, TypeInv, TaskType
  <1>1. /\ product' \in [status : ProductStatus, version : Versions \cup {"none"}]
        /\ stack' \in [StackNames -> [status : StackStatus, content : SomeContent,
                                      asked : SomeContent]]
        /\ Busy' /\ stack'["launch"].status = status /\ stack'["launch"].asked = task.want
    BY <1>0, ChangeProductType
  <1>2. Moves(pc, TRUE)
    BY <1>0, GotoMoves DEF IInv, Pcs, LaunchPcs, EndPcs
  <1>3. TypeInv' /\ task'.pc = pc
    BY <1>1, <1>2 DEF Moves, IInv, TypeInv
  <1>4. (Busy => StackBusy("launch"))' /\ (plans <= 1)' /\ (plan # NoPlan => plans = 1)'
    BY <1>0, <1>1 DEF IInv, PlanInv, StackBusy
  <1>5. CASE pc = "succeeded"
    <2>1. task'.kind = Producer => StillInStep(Source)'
      BY <1>2, <1>5 DEF Moves, StillInStep
    <2> QED
      BY <1>3, <1>4, <1>5, <2>1, EndStep DEF EndPcs
  <1>6. CASE pc \in {"watching", "awaiting"}
    <2>1. /\ task'.kind = "provision" /\ task'.want = task.want /\ task'.provisioned
      BY <1>2, <1>6 DEF Moves, Same, EndPcs
    <2>2. KindInv' /\ RestInv' /\ PlanInv'
      BY <1>3, <1>4, <1>6, <2>1 DEF KindInv, RestInv, PlanInv, ReadyPcs, LaunchPcs, TerminatePcs, StackPcs,
                  DeletePcs, UnstackPcs, OutputPcs
    <2>3. ChangeInv' /\ StackInv'
      BY <1>1, <1>3, <1>6, <2>1 DEF ChangeInv, StackInv
    <2>4. OutputInv'
      BY <1>3, <1>6, <2>1 DEF OutputInv, ReadyPcs, OutputPcs
    <2> QED
      BY <1>3, <2>2, <2>3, <2>4 DEF IInv
  <1> QED
    BY <1>5, <1>6

LEMMA CallProductStep == IInv /\ (CreateProduct \/ UpdateProduct \/ ExecutePlan) => IInv'
  <1>1. ASSUME IInv, CreateProduct \/ UpdateProduct PROVE IInv'
    <2>1. PICK pc \in {"creating", "updating"}, status \in {"CREATE_IN_PROGRESS", "UPDATE_IN_PROGRESS"} :
              CallProduct(pc, status)
      BY <1>1 DEF CreateProduct, UpdateProduct
    <2>2. /\ task.pc = pc /\ ChangeProduct(status, task.want)
          /\ \E next \in {"succeeded", "watching"} : Goto(next)
          /\ UNCHANGED <<plans, plan, record, parameter>>
      BY <2>1 DEF CallProduct
    <2>3. task.kind = "provision" /\ task.provisioned
      BY <1>1, <2>2 DEF IInv, KindInv, OutputInv, LaunchPcs, ReadyPcs
    <2> QED
      BY <1>1, <2>2, <2>3, CallStep DEF IInv, TypeInv, PlanInv
  <1>2. ASSUME IInv, ExecutePlan PROVE IInv'
    <2>1. /\ task.pc = "executing" /\ plan' = [plan EXCEPT !.status = "EXECUTE_IN_PROGRESS"]
          /\ ChangeProduct("UPDATE_IN_PROGRESS", plan.content) /\ Goto("awaiting")
          /\ UNCHANGED <<plans, record, parameter>>
      BY <1>2 DEF ExecutePlan
    <2>2. plans = 1 /\ plan.content = task.want /\ task.kind = "provision" /\ task.provisioned
      BY <1>2, <2>1 DEF IInv, KindInv, PlanInv, OutputInv, LaunchPcs, ReadyPcs
    <2>3. plan' \in [status : PlanStatus, content : SomeContent]
      BY <1>2, <2>1 DEF IInv, TypeInv, PlanStatus
    <2> QED
      BY <1>2, <2>1, <2>2, <2>3, CallStep
  <1> QED
    BY <1>1, <1>2

LEMMA PlansStep == IInv /\ (DeletePlans \/ CreatePlan) => IInv'
  <1> SUFFICES ASSUME IInv, DeletePlans \/ CreatePlan PROVE IInv'
    OBVIOUS
  <1>1. PICK pc \in {"planning", "computing"} :
            /\ Goto(pc)
            /\ pc = "planning" => plans' = 0 /\ plan' = NoPlan /\ task.pc = "unplanning"
            /\ pc = "computing" => /\ plans' = plans + 1 /\ task.pc = "planning"
                                   /\ plan' = [status |-> "CREATE_IN_PROGRESS",
                                               content |-> task.want]
    BY DEF DeletePlans, CreatePlan
  <1>2. UNCHANGED <<product, stack, record, parameter>>
    BY DEF DeletePlans, CreatePlan
  <1>3. task.kind = "provision" /\ task.provisioned /\ pc \in LaunchPcs
    BY <1>1 DEF IInv, KindInv, OutputInv, LaunchPcs, ReadyPcs
  <1>4. /\ task' \in TaskType /\ task'.pc = pc /\ task'.kind = "provision"
        /\ task'.want = task.want /\ task'.provisioned
    <2>1. Continue(pc, task.provisioned) /\ task.provisioned \in BOOLEAN
      BY <1>1 DEF Goto, IInv, TypeInv, TaskType
    <2> QED
      BY <1>3, <2>1, ContinueLaunchStep DEF Same
  <1>5. TypeInv' /\ KindInv'
    <2>1. task.want \in SomeContent /\ Nothing \in SomeContent
      BY DEF IInv, TypeInv, TaskType, SomeContent
    <2>2. plan' \in [status : PlanStatus, content : SomeContent] /\ plans' \in Nat
      BY <1>1, <2>1 DEF IInv, TypeInv, NoPlan, PlanStatus
    <2> QED
      BY <1>2, <1>3, <1>4, <2>2 DEF IInv, TypeInv, KindInv, LaunchPcs, TerminatePcs, StackPcs, DeletePcs,
                  UnstackPcs, OutputPcs
  <1>6. RestInv'
    BY <1>1, <1>2, <1>4 DEF IInv, RestInv, ReadyPcs, Busy, StackBusy, Absent
  <1>7. PlanInv'
    BY <1>1, <1>4 DEF IInv, PlanInv
  <1>8. ChangeInv' /\ StackInv' /\ OutputInv'
    BY <1>1, <1>4 DEF ChangeInv, StackInv, OutputInv, OutputPcs
  <1> QED
    BY <1>5, <1>6, <1>7, <1>8 DEF IInv

LEMMA AwaitStep == IInv /\ (AwaitPlan \/ AwaitExecution) => IInv'
  <1> SUFFICES ASSUME IInv, AwaitPlan \/ AwaitExecution PROVE IInv'
    OBVIOUS
  <1>1. /\ UNCHANGED awsVars
        /\ task.kind = "provision" /\ task.provisioned /\ task.provisioned \in BOOLEAN
    BY DEF AwaitPlan, AwaitExecution, IInv, KindInv, OutputInv, LaunchPcs, ReadyPcs, TypeInv, TaskType
  <1>2. \/ Goto("failed") \/ Goto("succeeded")
        \/ task.pc = "computing" /\ Goto("executing")
        \/ task.pc = "awaiting" /\ Goto("watching")
    BY DEF AwaitPlan, AwaitExecution
  <1>3. CASE Goto("failed")
    BY <1>1, <1>3, FailStep
  <1>4. CASE Goto("succeeded")
    BY <1>1, <1>4, EndAtRestStep DEF Goto, EndPcs
  <1>5. ASSUME NEW pc \in {"executing", "watching"}, Goto(pc),
               pc = "executing" => task.pc = "computing", pc = "watching" => task.pc = "awaiting"
        PROVE  IInv'
    <2>1. pc \in LaunchPcs
      BY DEF LaunchPcs
    <2>2. /\ task' \in TaskType /\ task'.pc = pc /\ task'.kind = "provision"
          /\ task'.want = task.want /\ task'.provisioned
      BY <1>1, <1>5, <2>1, ContinueLaunchStep DEF Goto, Same
    <2>3. pc \in ReadyPcs => /\ product.status \in {"AVAILABLE", "TAINTED"}
                             /\ stack["launch"].status \in Happy
                             /\ plans = 1 /\ plan.content = task.want
      BY <1>5 DEF IInv, RestInv, PlanInv, ReadyPcs
    <2> QED
      BY <1>1, <1>5, <2>1, <2>2, <2>3, LaunchMoveStep
  <1> QED
    BY <1>2, <1>3, <1>4, <1>5

LEMMA WatchStep == IInv /\ WatchProduct => IInv'
  <1> SUFFICES ASSUME IInv, WatchProduct PROVE IInv'
    OBVIOUS
  <1>1. /\ \E pc \in EndPcs : Goto(pc)
        /\ task.pc = "watching" /\ task.provisioned
        /\ UNCHANGED <<product, stack, record, parameter>>
    BY DEF WatchProduct, EndPcs, IInv, OutputInv
  <1>2. PICK pc \in EndPcs : Goto(pc)
    BY <1>1
  <1>3. Moves(pc, TRUE)
    BY <1>1, <1>2, GotoMoves DEF IInv, Pcs, TypeInv, TaskType
  <1>4. /\ plans' \in Nat /\ plans' <= 1 /\ (plan' # NoPlan => plans' = 1)
        /\ plan' \in [status : PlanStatus, content : SomeContent]
    BY DEF WatchProduct, IInv, TypeInv, PlanInv, NoPlan, PlanStatus, SomeContent
  <1>5. TypeInv' /\ task'.pc = pc
    BY <1>1, <1>3, <1>4 DEF Moves, IInv, TypeInv
  <1>6. task'.kind = Producer /\ task'.pc = "succeeded" => StillInStep(Source)'
    BY <1>3 DEF Moves, StillInStep
  <1>7. (Busy => StackBusy("launch"))'
    BY <1>1 DEF IInv, RestInv, Busy, StackBusy
  <1> QED
    BY <1>4, <1>5, <1>6, <1>7, EndStep

LEMMA TerminateStep == IInv /\ (FindProduct \/ DismissProduct \/ AwaitTermination) => IInv'
  <1> SUFFICES ASSUME IInv, FindProduct \/ DismissProduct \/ AwaitTermination PROVE IInv'
    OBVIOUS
  <1>1. task.kind = "terminate" /\ task.provisioned \in BOOLEAN
    BY DEF FindProduct, DismissProduct, AwaitTermination, IInv, KindInv, TerminatePcs, TypeInv, TaskType
  <1>2. CASE Goto("failed") /\ UNCHANGED awsVars
    BY <1>2, FailStep
  <1>3. CASE Goto("succeeded") /\ UNCHANGED awsVars
    BY <1>1, <1>3, EndAtRestStep DEF Goto, EndPcs, Producer
  <1>4. ASSUME NEW pc \in {"dismissing", "dismissed"}, Goto(pc),
               UNCHANGED <<plans, plan, parameter>>,
               product' \in [status : ProductStatus, version : Versions \cup {"none"}],
               stack' \in [StackNames -> [status : StackStatus, content : SomeContent,
                                          asked : SomeContent]],
               record' \in RecordStatus, (Busy => StackBusy("launch"))',
               pc = "dismissed" /\ record' = "SUCCEEDED" => Absent'
        PROVE  IInv'
    <2>1. Moves(pc, task.provisioned)
      BY <1>4, GotoMoves DEF IInv, Pcs, TerminatePcs
    <2>2. task' \in TaskType /\ task'.pc = pc /\ task'.kind = "terminate"
      BY <1>1, <1>4, <2>1 DEF Moves, Same, EndPcs
    <2>3. TypeInv' /\ KindInv'
      BY <1>4, <2>2 DEF IInv, TypeInv, KindInv, LaunchPcs, TerminatePcs, StackPcs, DeletePcs, UnstackPcs,
                  OutputPcs
    <2>4. RestInv' /\ PlanInv'
      BY <1>4, <2>2 DEF IInv, RestInv, PlanInv, ReadyPcs
    <2>5. ChangeInv' /\ StackInv' /\ OutputInv'
      BY <1>4, <2>2 DEF ChangeInv, StackInv, OutputInv, ReadyPcs, OutputPcs
    <2> QED
      BY <2>3, <2>4, <2>5 DEF IInv
  <1>5. CASE Goto("dismissing") /\ UNCHANGED awsVars
    BY <1>4, <1>5 DEF awsVars, IInv, TypeInv, RestInv, Busy, StackBusy
  <1>6. CASE DismissProduct /\ ~Busy /\ ~Absent
    <2>1. PICK answer \in RecordStatus \ {"none"} : TerminateProduct(answer)
      BY <1>6 DEF DismissProduct
    <2>2. Goto("dismissed") /\ UNCHANGED <<plans, plan, parameter>>
      BY <1>6 DEF DismissProduct
    <2> QED
      BY <1>4, <1>6, <2>1, <2>2, TerminateProductType
  <1> QED
    BY <1>2, <1>3, <1>5, <1>6 DEF FindProduct, DismissProduct, AwaitTermination, awsVars

-----------------------------------------------------------------------------
(* The steps of a stack task. *)

\* What has to hold where a stack task goes on is about its stack and its parameter.
LEMMA StackMoveStep ==
  ASSUME TypeInv', (Busy => StackBusy("launch"))', (plans <= 1)', (plan # NoPlan => plans = 1)',
         task'.pc \in StackPcs \cup DeletePcs \cup UnstackPcs,
         task'.pc \in StackPcs => task'.kind = "stack",
         task'.pc \in DeletePcs => task'.kind \in {"stack", "unstack"},
         task'.pc \in UnstackPcs => task'.kind = "unstack",
         StackInv',
         task'.pc = "reading" => StillInStep(task.target)',
         task'.pc = "applied" => task'.provisioned
  PROVE  IInv'
  <1>1. KindInv' /\ RestInv' /\ PlanInv'
    BY DEF KindInv, RestInv, PlanInv, ReadyPcs, LaunchPcs, TerminatePcs, StackPcs, DeletePcs, UnstackPcs,
           OutputPcs
  <1>2. ChangeInv' /\ OutputInv'
    BY DEF ChangeInv, OutputInv, ReadyPcs, StackPcs, DeletePcs, UnstackPcs, OutputPcs
  <1> QED
    BY <1>1, <1>2 DEF IInv

\* Where Continue leads, when it does not end the task.
LEMMA ContinueStackStep ==
  ASSUME IInv, NEW pc \in StackPcs \cup DeletePcs \cup UnstackPcs, NEW provisioned \in BOOLEAN,
         Continue(pc, provisioned)
  PROVE  task' \in TaskType /\ task'.pc = pc /\ Same /\ task'.provisioned = provisioned
  <1>1. pc \in Pcs /\ pc \notin EndPcs
    BY DEF Pcs, StackPcs, DeletePcs, UnstackPcs, EndPcs
  <1> QED
    BY <1>1, ContinueMoves DEF IInv, Moves

\* The facts about AWS that a step keeps that leaves AWS as it is.
LEMMA AwsAtRest ==
  ASSUME IInv, UNCHANGED awsVars, task' \in TaskType
  PROVE  TypeInv' /\ (Busy => StackBusy("launch"))' /\ (plans <= 1)' /\ (plan # NoPlan => plans = 1)'
  BY DEF IInv, TypeInv, RestInv, PlanInv, Busy, StackBusy, awsVars

LEMMA ResolveStep ==
  IInv /\ (ResolveStack("resolving", "ensuring") \/ ResolveStack("dropped", "found")) => IInv'
  <1> SUFFICES ASSUME IInv, NEW from, NEW to,
                      <<from, to>> \in {<<"resolving", "ensuring">>, <<"dropped", "found">>},
                      ResolveStack(from, to)
               PROVE  IInv'
    OBVIOUS
  <1>1. /\ task.pc = from /\ UNCHANGED awsVars
        /\ task' = [task EXCEPT !.target = TargetFound, !.pc = to]
    BY DEF ResolveStack
  <1>2. /\ task' \in TaskType /\ task'.pc = to /\ task'.target = TargetFound
        /\ task'.kind = task.kind
    BY <1>1 DEF IInv, TypeInv, TaskType, TargetFound, StackNames, Pcs, StackPcs, UnstackPcs
  <1>3. StackInv'
    BY <1>1, <1>2 DEF StackInv, TargetFound, Absent, awsVars
  <1> QED
    BY <1>1, <1>2, <1>3, StackMoveStep, AwsAtRest DEF IInv, KindInv, StackPcs, DeletePcs, UnstackPcs

LEMMA EnsureStep == IInv /\ EnsureStack => IInv'
  <1> SUFFICES ASSUME IInv, EnsureStack PROVE IInv'
    OBVIOUS
  <1> DEFINE next == AfterEnsure(Target.status)
  <1>1. /\ task.pc = "ensuring" /\ task.kind = "stack" /\ UNCHANGED awsVars
        /\ ~StackBusy(task.target) /\ task \in TaskType
    BY DEF EnsureStack, IInv, TypeInv, KindInv, StackPcs
  <1>2. CASE next = "failed"
    BY <1>1, <1>2, FailStep DEF EnsureStack
  <1>3. CASE next # "failed"
    <2>1. task' = [task EXCEPT !.pc = next, !.inStep = InStep(task.target)]
      BY <1>3 DEF EnsureStack
    <2>2. /\ next \in {"applying", "deleting", "reading"}
          /\ next = "applying" => Target.status = "NoStack"
          /\ next = "deleting" => Target.status = "ROLLBACK_COMPLETE" /\ "delete" \in task.switches
          /\ next = "reading" => Target.status \in Happy
      BY <1>3 DEF AfterEnsure
    <2>3. /\ task' \in TaskType /\ task'.pc = next /\ task'.kind = "stack"
          /\ task'.target = task.target /\ task'.switches = task.switches
          /\ task'.inStep = InStep(task.target)
      BY <1>1, <2>1, <2>2 DEF TaskType, Pcs, StackPcs, DeletePcs, InStep
    <2>4. Target' = Target /\ StillInStep(task.target)'
      BY <1>1, <2>3 DEF Target, awsVars, StillInStep, InStep, StackBusy
    <2>5. StackInv'
      BY <1>1, <2>2, <2>3, <2>4 DEF StackInv, IInv, awsVars, Absent
    <2> QED
      BY <1>1, <2>2, <2>3, <2>4, <2>5, StackMoveStep, AwsAtRest DEF StackPcs, DeletePcs, UnstackPcs
  <1> QED
    BY <1>2, <1>3

\* A deletion or an update is asked for.
LEMMA AskStep ==
  ASSUME IInv, NEW status \in InProgress, NEW content \in SomeContent,
         stack' = Asked(task.target, status, content), UNCHANGED <<product, plans, plan, record, parameter>>,
         NEW pc \in {"erasing", "applied"}, NEW provisioned \in BOOLEAN, Continue(pc, provisioned),
         pc = "erasing" => task.kind \in {"stack", "unstack"},
         pc = "applied" => /\ task.kind = "stack" /\ content = task.want /\ provisioned
                           /\ status # "DELETE_IN_PROGRESS"
  PROVE  IInv'
  <1>1. /\ task' \in TaskType /\ task'.pc = pc /\ Same /\ task'.provisioned = provisioned
    BY ContinueStackStep DEF StackPcs, DeletePcs
  <1>2. task.target \in StackNames
    BY DEF IInv, TypeInv, TaskType
  <1>3. /\ stack' \in [StackNames -> [status : StackStatus, content : SomeContent,
                                      asked : SomeContent]]
        /\ stack'[task.target].status = status /\ stack'[task.target].asked = content
        /\ \A s \in StackNames : StackBusy(s) => StackBusy(s)'
    BY <1>2 DEF Asked, IInv, TypeInv, StackStatus, StackBusy
  <1>4. TypeInv'
    BY <1>1, <1>3 DEF IInv, TypeInv
  <1>5. (Busy => StackBusy("launch"))' /\ (plans <= 1)' /\ (plan # NoPlan => plans = 1)'
    BY <1>3 DEF IInv, RestInv, PlanInv, Busy, StackNames
  <1>6. StackInv'
    BY <1>1, <1>3 DEF StackInv, Target, Same, InProgress
  <1> QED
    BY <1>1, <1>4, <1>5, <1>6, StackMoveStep DEF Same, StackPcs, DeletePcs, UnstackPcs

LEMMA DeleteStep == IInv /\ DeleteStack => IInv'
  <1>1. ASSUME IInv, DeleteStack
        PROVE  /\ stack' = Asked(task.target, "DELETE_IN_PROGRESS", Nothing)
               /\ Continue("erasing", task.provisioned) /\ task.provisioned \in BOOLEAN
               /\ task.kind \in {"stack", "unstack"}
               /\ UNCHANGED <<product, plans, plan, record, parameter>>
    BY <1>1 DEF DeleteStack, Goto, IInv, TypeInv, TaskType, KindInv, DeletePcs
  <1>2. "DELETE_IN_PROGRESS" \in InProgress /\ Nothing \in SomeContent
    BY DEF InProgress, SomeContent
  <1> QED
    BY <1>1, <1>2, AskStep

LEMMA ApplyStep == IInv /\ ApplyStack => IInv'
  <1> SUFFICES ASSUME IInv, ApplyStack PROVE IInv'
    OBVIOUS
  <1>1. task.pc = "applying" /\ task.kind = "stack" /\ task.want \in SomeContent
    BY DEF ApplyStack, IInv, KindInv, StackPcs, TypeInv, TaskType
  <1>2. CASE Continue("succeeded", TRUE) /\ UNCHANGED awsVars
    BY <1>2, EndAtRestStep DEF EndPcs
  <1>3. ASSUME NEW status \in {"CREATE_IN_PROGRESS", "UPDATE_IN_PROGRESS"},
               stack' = Asked(task.target, status, task.want), Continue("applied", TRUE),
               UNCHANGED <<product, plans, plan, record, parameter>>
        PROVE  IInv'
    BY <1>1, <1>3, AskStep DEF InProgress
  <1> QED
    BY <1>2, <1>3 DEF ApplyStack, awsVars

LEMMA StackWaitStep == IInv /\ (AwaitDeletion \/ CompareStack \/ AwaitStack \/ DropStack) => IInv'
  <1> SUFFICES ASSUME IInv, AwaitDeletion \/ CompareStack \/ AwaitStack \/ DropStack PROVE IInv'
    OBVIOUS
  <1>1. UNCHANGED awsVars /\ task.provisioned \in BOOLEAN
    BY DEF AwaitDeletion, CompareStack, AwaitStack, DropStack, IInv, TypeInv, TaskType
  <1>2. CASE Goto("failed")
    BY <1>1, <1>2, FailStep
  <1>3. CASE Goto("succeeded") /\ task.kind = "unstack"
    BY <1>1, <1>3, EndAtRestStep DEF Goto, EndPcs, Producer
  <1>4. CASE Goto("succeeded") /\ task.pc = "applied"
    <2>1. task.provisioned
      BY <1>4 DEF IInv, OutputInv
    <2> QED
      BY <1>1, <1>4, <2>1, EndAtRestStep DEF Goto, EndPcs
  <1>5. CASE Goto("succeeded") /\ task.pc = "reading"
    <2>1. StillInStep(task.target) /\ task.target \in StackNames
      BY <1>5 DEF IInv, OutputInv, TypeInv, TaskType
    <2>2. task.kind = Producer => OutputOf = "stack"
      BY <1>5, OutputAssumption DEF IInv, KindInv, StackPcs, Producer
    <2>3. OutputOf = "stack" => Source = task.target
      BY <1>5, <2>1 DEF IInv, StackInv, Source, Target, StackNames, Happy
    <2> QED
      BY <1>1, <1>5, <2>1, <2>2, <2>3, EndAtRestStep DEF Goto, EndPcs, StillInStep
  <1>6. ASSUME NEW pc \in {"applying", "deleting"}, Goto(pc),
               pc = "applying" => task.kind = "stack" /\ Target.status \in Happy \cup {"NoStack"},
               pc = "deleting" => task.kind = "unstack"
        PROVE  IInv'
    <2>1. task' \in TaskType /\ task'.pc = pc /\ Same
      BY <1>1, <1>6, ContinueStackStep DEF Goto, StackPcs, DeletePcs
    <2>2. Target' = Target
      BY <1>1, <2>1 DEF Target, Same, awsVars
    <2>3. StackInv'
      BY <1>6, <2>1, <2>2 DEF StackInv, Same
    <2> QED
      BY <1>1, <1>6, <2>1, <2>3, StackMoveStep, AwsAtRest DEF Same, StackPcs, DeletePcs, UnstackPcs
  <1>7. \/ Goto("failed")
        \/ Goto("succeeded") /\ (task.kind = "unstack" \/ task.pc \in {"applied", "reading"})
        \/ Goto("applying") /\ task.kind = "stack" /\ Target.status \in Happy \cup {"NoStack"}
        \/ Goto("deleting") /\ task.kind = "unstack"
    <2>1. CASE AwaitDeletion
      <3>1. task.kind \in {"stack", "unstack"}
        BY <2>1 DEF AwaitDeletion, IInv, KindInv, DeletePcs
      <3> QED
        BY <2>1, <3>1 DEF AwaitDeletion
    <2>2. CASE CompareStack
      BY <2>2 DEF CompareStack, IInv, KindInv, StackInv, StackPcs
    <2>3. CASE AwaitStack
      BY <2>3 DEF AwaitStack
    <2>4. CASE DropStack
      BY <2>4 DEF DropStack, IInv, KindInv, UnstackPcs
    <2> QED
      BY <2>1, <2>2, <2>3, <2>4
  <1> QED
    BY <1>2, <1>3, <1>4, <1>5, <1>6, <1>7

LEMMA DropOutputsStep == IInv /\ DropOutputs => IInv'
  <1> SUFFICES ASSUME IInv, DropOutputs PROVE IInv'
    OBVIOUS
  <1>1. /\ Continue("dropped", task.provisioned) /\ task.provisioned \in BOOLEAN
        /\ task.kind = "unstack" /\ parameter' \in SomeContent
        /\ UNCHANGED <<product, stack, plans, plan, record>>
    BY DEF DropOutputs, Goto, IInv, TypeInv, TaskType, KindInv, UnstackPcs, SomeContent
  <1>2. task' \in TaskType /\ task'.pc = "dropped" /\ task'.kind = "unstack"
    BY <1>1, ContinueStackStep DEF Same, UnstackPcs
  <1>3. TypeInv' /\ (Busy => StackBusy("launch"))' /\ (plans <= 1)' /\ (plan # NoPlan => plans = 1)'
    BY <1>1, <1>2 DEF IInv, TypeInv, RestInv, PlanInv, Busy, StackBusy
  <1>4. StackInv'
    BY <1>2 DEF StackInv
  <1> QED
    BY <1>2, <1>3, <1>4, StackMoveStep DEF StackPcs, DeletePcs, UnstackPcs

-----------------------------------------------------------------------------
(* The steps of an output task, and all of them. *)

LEMMA OutputTaskStep == IInv /\ OutputStep => IInv'
  <1> SUFFICES ASSUME IInv, OutputStep PROVE IInv'
    OBVIOUS
  <1>1. task.kind = "output" /\ task.provisioned \in BOOLEAN
    BY DEF OutputStep, CompareOutput, WriteOutput, IInv, KindInv, OutputPcs, TypeInv, TaskType
  <1>2. CASE UNCHANGED awsVars /\ (Goto("failed") \/ Goto("succeeded"))
    BY <1>1, <1>2, EndAtRestStep DEF Goto, EndPcs, Producer
  <1>3. CASE CompareOutput /\ Goto("writing output")
    <2>1. Moves("writing output", task.provisioned) /\ UNCHANGED awsVars /\ task.pc = "comparing output"
      BY <1>3, GotoMoves DEF CompareOutput, IInv, Pcs, OutputPcs
    <2>2. /\ task' \in TaskType /\ task'.pc = "writing output" /\ task'.kind = "output"
          /\ task'.inStep = task.inStep /\ task'.provisioned = task.provisioned
      BY <1>1, <2>1 DEF Moves, Same, EndPcs
    <2>3. KindInv' /\ RestInv' /\ PlanInv'
      BY <2>2, <2>1, AwsAtRest DEF KindInv, RestInv, PlanInv, ReadyPcs, LaunchPcs, TerminatePcs, StackPcs,
                  DeletePcs, UnstackPcs, OutputPcs
    <2>4. ChangeInv' /\ StackInv'
      BY <2>2 DEF ChangeInv, StackInv
    <2>5. OutputInv'
      BY <2>1, <2>2 DEF IInv, OutputInv, ReadyPcs, OutputPcs, StillInStep, Source, Absent, StackBusy, awsVars
    <2> QED
      BY <2>1, <2>2, <2>3, <2>4, <2>5, AwsAtRest DEF IInv
  <1>4. CASE WriteOutput /\ HasOutput(Source)
    <2>1. /\ parameter' = stack[Source].content /\ Goto("succeeded")
          /\ UNCHANGED <<product, stack, plans, plan, record>>
      BY <1>4 DEF WriteOutput
    <2>2. Moves("succeeded", task.provisioned)
      BY <2>1, GotoMoves DEF IInv, Pcs, EndPcs
    <2>3. Source \in StackNames
      BY DEF Source, StackNames
    <2>4. TypeInv' /\ task'.pc = "succeeded"
      BY <2>1, <2>2, <2>3 DEF Moves, IInv, TypeInv
    <2>5. task'.kind # Producer
      BY <1>1, <2>2 DEF Moves, Producer
    <2> QED
      BY <2>1, <2>4, <2>5, EndStep DEF IInv, RestInv, PlanInv, Busy, StackBusy, EndPcs
  <1> QED
    BY <1>2, <1>3, <1>4 DEF OutputStep, CompareOutput, WriteOutput, awsVars

LEMMA LaunchInvStep == IInv /\ LaunchStep => IInv'
  BY LookStep, WaitStep, CleanUpStep, CompareStep, CallProductStep, PlansStep, AwaitStep, WatchStep,
     TerminateStep DEF LaunchStep

LEMMA StackInvStep == IInv /\ StackStep => IInv'
  BY ResolveStep, EnsureStep, DeleteStep, ApplyStep, StackWaitStep, DropOutputsStep DEF StackStep

\* A task begins with what a manifest asks for, or with nothing to ask for.
LEMMA StartsStep ==
  IInv /\ (\/ \E want \in LaunchContents : StartProvision(want)
           \/ \E want \in StackContents : StartStack(want)
           \/ StartTerminate \/ StartStackTermination) => IInv'
  <1>1. LaunchContents \cup StackContents \subseteq SomeContent /\ Nothing \in SomeContent
    BY ContentsAssumption DEF SomeContent
  <1>2. LaunchSwitches \cup {"delete", "hub"} \subseteq Switches
    BY DEF Switches, StackSwitches
  <1>3. ASSUME IInv, NEW want \in LaunchContents, NEW switches \in SUBSET LaunchSwitches,
               Start("provision", want, switches, "looking")
        PROVE  IInv'
    BY <1>1, <1>2, <1>3, StartStep DEF Firsts
  <1>4. ASSUME IInv, NEW want \in StackContents, NEW switches \in SUBSET {"delete"},
               Start("stack", want, switches, "resolving")
        PROVE  IInv'
    BY <1>1, <1>2, <1>4, StartStep DEF Firsts
  <1>5. ASSUME IInv, Start("terminate", Nothing, {}, "finding") PROVE IInv'
    BY <1>1, <1>2, <1>5, StartStep DEF Firsts
  <1>6. ASSUME IInv, NEW switches \in SUBSET {"hub"}, Start("unstack", Nothing, switches, "dropping")
        PROVE  IInv'
    BY <1>1, <1>2, <1>6, StartStep DEF Firsts
  <1> QED
    BY <1>3, <1>4, <1>5, <1>6 DEF StartProvision, StartStack, StartTerminate, StartStackTermination

LEMMA InvStep == IInv /\ [Next]_vars => IInv'
  <1> SUFFICES ASSUME IInv, [Next]_vars PROVE IInv'
    OBVIOUS
  <1>1. CASE UNCHANGED vars
    BY <1>1 DEF vars, IInv, TypeInv, KindInv, RestInv, PlanInv, ChangeInv, StackInv, OutputInv,
                StillInStep, Target, Source, Busy, Absent, StackBusy
  <1>2. CASE AwsNext
    BY <1>2, PlanStep, SettleStep DEF AwsNext
  <1>3. CASE Abandon
    BY <1>3, FailStep DEF Abandon
  <1>4. CASE TaskStep
    BY <1>4, LaunchInvStep, StackInvStep, OutputTaskStep DEF TaskStep
  <1> QED
    BY <1>1, <1>2, <1>3, <1>4, StartsStep, StartOutputStep DEF Next

-----------------------------------------------------------------------------
\* The tasks and AWS keep the invariant the proofs are about.
THEOREM Inductive == Spec => []IInv
  BY InvInit, InvStep, PTL DEF Spec

\* Every variable holds what the tasks and AWS may put there.
THEOREM TypeCorrect == Spec => []TypeOK
  <1>1. IInv => TypeOK
    BY DEF IInv, TypeInv, TaskType, TypeOK, Switches
  <1> QED
    BY Inductive, <1>1, PTL

\* A launch asks nothing of a product under change (ProvisionProductTask.run), and there is never a
\* second plan, wherever earlier tasks were stopped.
THEOREM CallsFindItAtRestAlways == Spec => []CallsFindItAtRest
  <1>1. IInv => CallsFindItAtRest
    BY DEF IInv, RestInv, PlanInv, CallsFindItAtRest, ReadyPcs, Busy
  <1> QED
    BY Inductive, <1>1, PTL

-----------------------------------------------------------------------------
(* What the success of a task says. *)

LEMMA PcAfter ==
  ASSUME IInv, NEW pc \in Pcs, Goto(pc) \/ Continue(pc, TRUE)
  PROVE  task'.pc = pc
  BY GotoMoves, ContinueMoves DEF Moves, IInv

\* The place of a task that is not over tells its kind, and back.
LEMMA PlaceOfKind ==
  ASSUME IInv, ~AtRest
  PROVE  /\ task.pc \in Pcs \ EndPcs
         /\ task.kind = "provision" => task.pc \in LaunchPcs
         /\ task.kind = "terminate" => task.pc \in TerminatePcs
         /\ task.kind = "stack" => task.pc \in StackPcs \cup DeletePcs
         /\ task.kind = "output" => task.pc \in OutputPcs
  BY DEF AtRest, IInv, TypeInv, TaskType, KindInv, Pcs, EndPcs

\* Only a step of the task itself is the end of it, and Abandon ends it with a failure.
LEMMA SuccessIsTaskStep ==
  ASSUME IInv, Next, ~AtRest, task'.pc = "succeeded"
  PROVE  TaskStep
  <1>1. CASE AwsNext
    BY <1>1 DEF AwsNext, BeginTermination, ComputePlan, FinishPlan, Settle, AtRest
  <1>2. CASE Abandon
    BY <1>2, PcAfter DEF Abandon, Pcs, EndPcs
  <1> QED
    BY <1>1, <1>2 DEF Next, StartProvision, StartStack, StartTerminate, StartStackTermination, Start,
                      StartOutput, TerminateOutput, AtRest

\* The ways in which a launch succeeds.
LEMMA LaunchSuccess ==
  ASSUME IInv, LaunchStep, task.kind = "provision", task'.pc = "succeeded", ~AtRest
  PROVE  \/ CompareProduct /\ task.artifact = task.want.version /\ ~Absent
            /\ \E content \in Seen("launch") : content.params = task.want.params
         \/ AwaitPlan /\ plan.status = "NO_UPDATES"
         \/ WatchProduct /\ product.status = "AVAILABLE"
         \/ "async" \in task.switches
  <1>0. task.pc \in LaunchPcs /\ task \in TaskType
    BY PlaceOfKind DEF IInv, TypeInv
  <1>1. \A pc \in Pcs : Goto(pc) \/ Continue(pc, TRUE) => pc = "succeeded"
    BY PcAfter
  <1>2. {"terminating", "comparing", "failed", "cleaning", "checking", "updating", "unplanning",
         "planning", "computing", "executing", "watching", "awaiting"} \subseteq Pcs
    BY DEF Pcs, LaunchPcs, EndPcs
  <1>3. ~LookForProduct
    BY <1>0 DEF LookForProduct, TaskType, AfterCleanUp
  <1>4. ~WaitForProduct /\ ~CleanUpProduct /\ ~CheckStack /\ ~DeletePlans /\ ~CreatePlan /\ ~ExecutePlan
        /\ ~AwaitExecution
    <2>1. ~WaitForProduct
      BY <1>1, <1>2 DEF WaitForProduct, AfterCleanUp
    <2>2. ~CleanUpProduct
      BY <1>1, <1>2 DEF CleanUpProduct
    <2>3. ~CheckStack
      BY <1>1, <1>2 DEF CheckStack
    <2>4. ~DeletePlans /\ ~CreatePlan /\ ~ExecutePlan
      BY <1>1, <1>2 DEF DeletePlans, CreatePlan, ExecutePlan
    <2>5. ~AwaitExecution
      BY <1>1, <1>2 DEF AwaitExecution
    <2> QED
      BY <2>1, <2>2, <2>3, <2>4, <2>5
  <1>5. ~FindProduct /\ ~DismissProduct /\ ~AwaitTermination
    BY <1>0 DEF FindProduct, DismissProduct, AwaitTermination, LaunchPcs
  <1>6. CompareProduct => /\ task.artifact = task.want.version /\ ~Absent
                          /\ \E content \in Seen("launch") : content.params = task.want.params
    BY <1>1, <1>2 DEF CompareProduct
  <1>7. AwaitPlan => plan.status = "NO_UPDATES"
    BY <1>1, <1>2 DEF AwaitPlan
  <1>8. WatchProduct => product.status = "AVAILABLE"
    BY <1>1, <1>2 DEF WatchProduct
  <1>9. CreateProduct \/ UpdateProduct => "async" \in task.switches
    BY <1>1, <1>2 DEF CreateProduct, UpdateProduct, CallProduct
  <1> QED
    BY <1>3, <1>4, <1>5, <1>6, <1>7, <1>8, <1>9 DEF LaunchStep

\* A launch that was waited for has what is wanted when it succeeds, and a terminated one is gone or
\* going (ProvisionProductTask.run and DoTerminateProductTask.run).
THEOREM SuccessIsAlwaysDeployed == Spec => SuccessIsDeployed
  <1>1. ASSUME IInv, Next, Succeeds("provision"), "async" \notin task.switches, ~task.waited,
               ~StackBusy("launch")
        PROVE  /\ product'.status \in {"AVAILABLE", "TAINTED"}
               /\ stack'["launch"].content.params = task.want.params
               /\ task.want.version \in {product'.version, stack'["launch"].content.version}
    <2>0. task.pc \in LaunchPcs
      BY <1>1, PlaceOfKind DEF Succeeds
    <2>1. LaunchStep
      BY <1>1, <2>0, SuccessIsTaskStep DEF Succeeds, TaskStep, StackStep, OutputStep, LaunchPcs,
            ResolveStack, DropOutputs, EnsureStack, DeleteStack, AwaitDeletion, CompareStack, ApplyStack,
            AwaitStack, DropStack, CompareOutput, WriteOutput
    <2>2. CASE /\ CompareProduct /\ task.artifact = task.want.version /\ ~Absent
               /\ \E content \in Seen("launch") : content.params = task.want.params
      <3>1. product' = product /\ stack' = stack /\ task.pc = "comparing"
        BY <2>2 DEF CompareProduct, awsVars
      <3>2. stack["launch"].content.params = task.want.params
        BY <1>1, <2>2 DEF Seen
      <3>3. product.status \in {"AVAILABLE", "TAINTED"} /\ task.artifact = product.version
        BY <1>1, <2>2, <3>1 DEF IInv, RestInv, Absent
      <3> QED
        BY <2>2, <3>1, <3>2, <3>3
    <2>3. CASE AwaitPlan /\ plan.status = "NO_UPDATES"
      <3>1. product' = product /\ stack' = stack /\ task.pc = "computing"
        BY <2>3 DEF AwaitPlan, awsVars
      <3>2. stack["launch"].content = task.want /\ product.status \in {"AVAILABLE", "TAINTED"}
        BY <1>1, <2>3, <3>1 DEF IInv, PlanInv, RestInv, ReadyPcs
      <3> QED
        BY <3>1, <3>2
    <2>4. CASE WatchProduct /\ product.status = "AVAILABLE"
      <3>1. product' = product /\ stack' = stack /\ task.pc = "watching"
        BY <2>4 DEF WatchProduct
      <3>2. stack["launch"].content = task.want
        BY <1>1, <2>4, <3>1 DEF IInv, ChangeInv, Busy
      <3> QED
        BY <2>4, <3>1, <3>2
    <2> QED
      BY <1>1, <2>1, <2>2, <2>3, <2>4, LaunchSuccess DEF Succeeds
  <1>2. ASSUME IInv, Next, Succeeds("terminate")
        PROVE  product'.status = "ABSENT" \/ record' \in {"CREATED", "IN_PROGRESS"}
    <2>0. task.pc \in TerminatePcs
      BY <1>2, PlaceOfKind DEF Succeeds
    <2>1. FindProduct \/ DismissProduct \/ AwaitTermination
      BY <1>2, <2>0, SuccessIsTaskStep DEF Succeeds, TaskStep, LaunchStep, StackStep, OutputStep,
            TerminatePcs, LookForProduct, WaitForProduct, CleanUpProduct, CompareProduct, CheckStack,
            CreateProduct, UpdateProduct, CallProduct, DeletePlans, CreatePlan, AwaitPlan, ExecutePlan,
            AwaitExecution, WatchProduct, ResolveStack, DropOutputs, EnsureStack, DeleteStack,
            AwaitDeletion, CompareStack, ApplyStack, AwaitStack, DropStack, CompareOutput, WriteOutput
    <2>2. \A pc \in Pcs : Goto(pc) => pc = "succeeded"
      BY <1>2, PcAfter DEF Succeeds
    <2>3. {"failed", "dismissing", "dismissed"} \subseteq Pcs
      BY DEF Pcs, EndPcs, TerminatePcs
    <2>4. CASE FindProduct
      BY <2>2, <2>3, <2>4 DEF FindProduct, awsVars, Absent
    <2>5. CASE DismissProduct
      BY <2>2, <2>3, <2>5 DEF DismissProduct
    <2>6. CASE AwaitTermination
      BY <1>2, <2>2, <2>3, <2>6 DEF AwaitTermination, awsVars, IInv, ChangeInv, Absent
    <2> QED
      BY <2>1, <2>4, <2>5, <2>6
  <1>3. IInv /\ [Next]_vars =>
          [/\ Succeeds("provision") /\ "async" \notin task.switches /\ ~task.waited
                 /\ ~StackBusy("launch") =>
                    /\ product'.status \in {"AVAILABLE", "TAINTED"}
                    /\ stack'["launch"].content.params = task.want.params
                    /\ task.want.version \in {product'.version, stack'["launch"].content.version}
           /\ Succeeds("terminate") =>
                 product'.status = "ABSENT" \/ record' \in {"CREATED", "IN_PROGRESS"}]_vars
    BY <1>1, <1>2
  <1> QED
    BY <1>3, Inductive, PTL DEF Spec, SuccessIsDeployed

\* A stack task succeeds only with the stack it chose complete, or rolled back to exactly what is
\* wanted (ProvisionStackTask.run).
THEOREM StackIsAlwaysDeployed == Spec => StackIsDeployed
  <1>1. ASSUME IInv, Next, Succeeds("stack")
        PROVE  /\ stack'[task.target].status \in Happy
               /\ stack'[task.target].content = task.want
    <2>0. /\ task.pc \in StackPcs \cup DeletePcs /\ task.kind = "stack" /\ task'.pc = "succeeded"
          /\ task \in TaskType
      BY <1>1, PlaceOfKind DEF Succeeds, IInv, TypeInv
    <2>1. StackStep
      BY <1>1, <2>0, SuccessIsTaskStep DEF Succeeds, TaskStep, LaunchStep, OutputStep, StackPcs, DeletePcs,
            LookForProduct, WaitForProduct, CleanUpProduct, CompareProduct, CheckStack, CreateProduct,
            UpdateProduct, CallProduct, DeletePlans, CreatePlan, AwaitPlan, ExecutePlan, AwaitExecution,
            WatchProduct, FindProduct, DismissProduct, AwaitTermination, CompareOutput, WriteOutput
    <2>2. \A pc \in Pcs : Goto(pc) \/ Continue(pc, TRUE) => pc = "succeeded"
      BY <1>1, <2>0, PcAfter
    <2>3. {"failed", "reading", "applying", "applied", "deleting", "erasing"} \subseteq Pcs
      BY DEF Pcs, StackPcs, DeletePcs, EndPcs
    <2>4. CompareStack \/ ApplyStack \/ AwaitStack
      <3>1. ~ResolveStack("resolving", "ensuring") /\ ~ResolveStack("dropped", "found")
        BY <2>0 DEF ResolveStack, TaskType
      <3>2. ~EnsureStack
        BY <2>0, <2>2, <2>3 DEF EnsureStack, AfterEnsure, TaskType
      <3>3. ~DeleteStack /\ ~AwaitDeletion
        BY <2>0, <2>2, <2>3 DEF DeleteStack, AwaitDeletion
      <3>4. ~DropOutputs /\ ~DropStack
        BY <2>0 DEF DropOutputs, DropStack, StackPcs, DeletePcs
      <3> QED
        BY <2>1, <3>1, <3>2, <3>3, <3>4 DEF StackStep
    <2>5. CASE CompareStack
      BY <2>2, <2>3, <2>5 DEF CompareStack, Target, Happy, awsVars
    <2>6. CASE ApplyStack
      <3>1. Target.status # "NoStack" /\ Target.content = task.want /\ stack' = stack
        BY <2>2, <2>3, <2>6 DEF ApplyStack
      <3>2. Target.status \in Happy \cup {"NoStack"}
        BY <1>1, <2>6 DEF ApplyStack, IInv, StackInv
      <3> QED
        BY <3>1, <3>2 DEF Target
    <2>7. CASE AwaitStack
      <3>1. Target.status = "COMPLETE" /\ stack' = stack /\ task.pc = "applied"
        BY <2>2, <2>3, <2>7 DEF AwaitStack, awsVars
      <3> QED
        BY <1>1, <3>1 DEF IInv, StackInv, Target, Happy
    <2> QED
      BY <2>4, <2>5, <2>6, <2>7
  <1>2. IInv /\ [Next]_vars =>
          [Succeeds("stack") => /\ stack'[task.target].status \in Happy
                                /\ stack'[task.target].content = task.want]_vars
    BY <1>1
  <1> QED
    BY <1>2, Inductive, PTL DEF Spec, StackIsDeployed

-----------------------------------------------------------------------------
(* What is deleted. *)

Deletes(s) == stack[s].status # "DELETE_IN_PROGRESS" /\ stack'[s].status = "DELETE_IN_PROGRESS"

LEMMA AwsDeletesNothing == ASSUME IInv, AwsNext, NEW s \in StackNames PROVE ~Deletes(s)
  <1>1. CASE BeginTermination \/ ComputePlan \/ FinishPlan
    BY <1>1 DEF BeginTermination, ComputePlan, FinishPlan, Deletes
  <1>2. ASSUME NEW r \in StackNames, Settle(r) PROVE ~Deletes(s)
    <2>1. PICK status \in Ends(stack[r].status) :
            stack' = [stack EXCEPT ![r] =
                        [status  |-> status,
                         content |-> IF status \in {"COMPLETE", "NoStack"} THEN @.asked
                                     ELSE IF @.content = Nothing THEN @.asked ELSE @.content,
                         asked   |-> Nothing]]
      BY <1>2 DEF Settle
    <2>2. status # "DELETE_IN_PROGRESS"
      BY DEF Ends
    <2>3. stack'[s].status \in {stack[s].status, status}
      BY <2>1 DEF IInv, TypeInv
    <2> QED
      BY <2>2, <2>3 DEF Deletes
  <1> QED
    BY <1>1, <1>2 DEF AwsNext

LEMMA AskedStatus ==
  ASSUME IInv, NEW s \in StackNames, NEW r \in StackNames, NEW status, NEW content,
         stack' = Asked(r, status, content), Deletes(s)
  PROVE  s = r /\ status = "DELETE_IN_PROGRESS"
  BY DEF Asked, Deletes, IInv, TypeInv

LEMMA LaunchDeletes ==
  ASSUME IInv, LaunchStep, NEW s \in StackNames, Deletes(s)
  PROVE  \/ task.kind = "terminate"
         \/ task.kind = "provision" /\ s = "launch" /\ product.status = "ERROR"
  <1>1. CASE UNCHANGED stack
    BY <1>1 DEF Deletes
  <1>2. CASE CreateProduct \/ UpdateProduct \/ ExecutePlan
    <2>1. \/ stack' = Asked("launch", "CREATE_IN_PROGRESS", task.want)
          \/ stack' = Asked("launch", "UPDATE_IN_PROGRESS", task.want)
          \/ stack' = Asked("launch", "UPDATE_IN_PROGRESS", plan.content)
      BY <1>2 DEF CreateProduct, UpdateProduct, CallProduct, ExecutePlan, ChangeProduct
    <2> QED
      BY <2>1, AskedStatus DEF StackNames
  <1>3. CASE DismissProduct
    BY <1>3 DEF DismissProduct, IInv, KindInv, TerminatePcs
  <1>4. CASE CleanUpProduct
    <2>1. task.kind = "provision" /\ product.status = "ERROR"
      BY <1>4 DEF CleanUpProduct, IInv, KindInv, RestInv, LaunchPcs
    <2>2. s = "launch"
      <3>1. PICK answer \in RecordStatus \ {"none"} : TerminateProduct(answer)
        BY <1>4 DEF CleanUpProduct
      <3>2. stack' = [stack EXCEPT !["launch"] = stack'["launch"]]
        BY <3>1 DEF TerminateProduct, ChangeProduct, Asked, IInv, TypeInv, StackNames
      <3> QED
        BY <3>2 DEF Deletes, IInv, TypeInv
    <2> QED
      BY <2>1, <2>2
  <1> QED
    BY <1>1, <1>2, <1>3, <1>4 DEF LaunchStep, LookForProduct, WaitForProduct, CompareProduct, CheckStack,
          DeletePlans, CreatePlan, AwaitPlan, AwaitExecution, WatchProduct, FindProduct, AwaitTermination,
          awsVars

LEMMA StackDeletes ==
  ASSUME IInv, StackStep, NEW s \in StackNames, Deletes(s)
  PROVE  \/ task.kind = "unstack"
         \/ stack[s].status = "ROLLBACK_COMPLETE" /\ "delete" \in task.switches
  <1>0. task.target \in StackNames
    BY DEF IInv, TypeInv, TaskType
  <1>1. CASE UNCHANGED stack
    BY <1>1 DEF Deletes
  <1>2. CASE ApplyStack
    <2>1. PICK status \in {"CREATE_IN_PROGRESS", "UPDATE_IN_PROGRESS"} :
             stack' = stack \/ stack' = Asked(task.target, status, task.want)
      BY <1>2 DEF ApplyStack
    <2> QED
      BY <1>0, <1>1, <2>1, AskedStatus
  <1>3. CASE DeleteStack
    <2>1. task.pc = "deleting" /\ stack' = Asked(task.target, "DELETE_IN_PROGRESS", Nothing)
      BY <1>3 DEF DeleteStack
    <2>2. s = task.target
      BY <1>0, <2>1, AskedStatus
    <2> QED
      BY <2>1, <2>2 DEF IInv, KindInv, StackInv, DeletePcs, Target
  <1> QED
    BY <1>1, <1>2, <1>3 DEF StackStep, ResolveStack, DropOutputs, EnsureStack, AwaitDeletion,
          CompareStack, AwaitStack, DropStack, awsVars

\* Nothing usable is deleted unless its termination was asked for
\* (clean_up_existing_provisioned_product, ensure_stack_is_in_complete_status).
THEOREM OnlyUnusableIsEverDeleted == Spec => OnlyUnusableIsDeleted
  <1>1. ASSUME IInv, Next, NEW s \in StackNames, Deletes(s)
        PROVE  \/ task.kind \in {"terminate", "unstack"}
               \/ task.kind = "provision" /\ s = "launch" /\ product.status = "ERROR"
               \/ stack[s].status = "ROLLBACK_COMPLETE" /\ "delete" \in task.switches
    <2>1. CASE UNCHANGED stack
      BY <1>1, <2>1 DEF Deletes
    <2>2. CASE OutputStep
      BY <2>1, <2>2 DEF OutputStep, CompareOutput, WriteOutput, awsVars
    <2> QED
      BY <1>1, <2>1, <2>2, AwsDeletesNothing, LaunchDeletes, StackDeletes
         DEF Next, TaskStep, StartProvision, StartStack, StartTerminate, StartStackTermination, Start,
             StartOutput, TerminateOutput, Abandon, awsVars
  <1>2. IInv /\ [Next]_vars =>
          [\A s \in StackNames :
             stack[s].status # "DELETE_IN_PROGRESS" /\ stack'[s].status = "DELETE_IN_PROGRESS" =>
                \/ task.kind \in {"terminate", "unstack"}
                \/ task.kind = "provision" /\ s = "launch" /\ product.status = "ERROR"
                \/ stack[s].status = "ROLLBACK_COMPLETE" /\ "delete" \in task.switches]_vars
    BY <1>1 DEF Deletes
  <1> QED
    BY <1>2, Inductive, PTL DEF Spec, OnlyUnusableIsDeleted

-----------------------------------------------------------------------------
\* A parameter in step with its stack stays so over every run that ends well (SSMOutputsTasks.run).
THEOREM OutputAlwaysFollows == Spec => OutputFollows
  <1>1. ASSUME IInv, Next, Succeeds("output")
        PROVE  /\ parameter' # Nothing
               /\ task.inStep => parameter' = stack'[Source].content
    <2>0. task.pc \in OutputPcs /\ task'.pc = "succeeded"
      BY <1>1, PlaceOfKind DEF Succeeds
    <2>1. OutputStep
      BY <1>1, <2>0, SuccessIsTaskStep DEF Succeeds, TaskStep, LaunchStep, StackStep, OutputPcs,
            LookForProduct, WaitForProduct, CleanUpProduct, CompareProduct, CheckStack, CreateProduct,
            UpdateProduct, CallProduct, DeletePlans, CreatePlan, AwaitPlan, ExecutePlan, AwaitExecution,
            WatchProduct, FindProduct, DismissProduct, AwaitTermination, ResolveStack, DropOutputs,
            EnsureStack, DeleteStack, AwaitDeletion, CompareStack, ApplyStack, AwaitStack, DropStack
    <2>2. \A pc \in Pcs : Goto(pc) => pc = "succeeded"
      BY <1>1, <2>0, PcAfter
    <2>3. {"failed", "writing output"} \subseteq Pcs
      BY DEF Pcs, OutputPcs, EndPcs
    <2>4. CASE CompareOutput
      <3>1. ~NeedsOutput /\ parameter' = parameter /\ stack' = stack
        BY <2>2, <2>3, <2>4 DEF CompareOutput, awsVars
      <3>2. StillInStep(Source)
        BY <1>1, <2>0 DEF IInv, OutputInv
      <3> QED
        BY <3>1, <3>2 DEF NeedsOutput, StillInStep
    <2>5. CASE WriteOutput
      BY <2>2, <2>3, <2>5 DEF WriteOutput, HasOutput
    <2> QED
      BY <2>1, <2>4, <2>5 DEF OutputStep
  <1>2. IInv /\ [Next]_vars =>
          [Succeeds("output") =>
             /\ parameter' # Nothing
             /\ task.inStep => parameter' = stack'[Source].content]_vars
    BY <1>1
  <1> QED
    BY <1>2, Inductive, PTL DEF Spec, OutputFollows
=============================================================================
