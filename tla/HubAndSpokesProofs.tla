------------------------- MODULE HubAndSpokesProofs -------------------------
(***************************************************************************)
(* Proofs about HubAndSpokes, for any reference over any tasks and         *)
(* accounts.  A task is run in one place only because a build starts from  *)
(* a zip that has the output of everything the hub runs, and it starts     *)
(* only when all of that has completed.                                    *)
(***************************************************************************)
EXTENDS HubAndSpokes, TLAPS

USE AccountsAssumption, ReferencesAssumption

-----------------------------------------------------------------------------
(* Types. *)

LEMMA TypeInit == Init => TypeOK
  <1> SUFFICES ASSUME Init PROVE TypeOK
    OBVIOUS
  <1>1. ref \in Reference
    BY DEF Init
  <1> QED
    BY <1>1 DEF Init, TypeOK, Outcomes

\* What a task that is finished in a process changes.
LEMMA FinishTypes ==
  ASSUME TypeOK, NEW p \in Processes, NEW t \in Tasks, Skip(p, t) \/ Run(p, t)
  PROVE  /\ \E end \in {"completed", "failed"} : outcome' = [outcome EXCEPT ![p][t] = end]
         /\ outcome' \in [Processes -> [Tasks -> Outcomes]]
         /\ UNCHANGED <<ref, process, manifest, zip, deploy>>
  <1>1. /\ \E end \in {"completed", "failed"} : outcome' = [outcome EXCEPT ![p][t] = end]
        /\ UNCHANGED <<ref, process, manifest, zip, deploy>>
    BY DEF Skip, Run
  <1>2. outcome' \in [Processes -> [Tasks -> Outcomes]]
    BY <1>1 DEF TypeOK, Outcomes
  <1> QED
    BY <1>1, <1>2

LEMMA TypeStep == TypeOK /\ [Next]_vars => TypeOK'
  <1> SUFFICES ASSUME TypeOK, [Next]_vars PROVE TypeOK'
    OBVIOUS
  <1>1. ASSUME NEW p \in Processes, NEW t \in Tasks, Skip(p, t) PROVE TypeOK'
    <2>1. UNCHANGED <<ran, output>>
      BY <1>1 DEF Skip
    <2> QED
      BY <1>1, <2>1, FinishTypes DEF TypeOK
  <1>2. ASSUME NEW p \in Processes, NEW t \in Tasks, Run(p, t) PROVE TypeOK'
    <2>1. ran' \in [Processes -> SUBSET Tasks] /\ output' \in [Processes -> SUBSET Tasks]
      BY <1>2 DEF Run, TypeOK
    <2> QED
      BY <1>2, <2>1, FinishTypes DEF TypeOK
  <1>3. CASE GenerateReference
    BY <1>3 DEF GenerateReference, TypeOK
  <1>4. CASE GenerateManifest
    BY <1>4 DEF GenerateManifest, TypeOK, Outcomes, Processes
  <1>5. ASSUME NEW a \in Accounts, RunDeployInSpoke(a) PROVE TypeOK'
    BY <1>5 DEF RunDeployInSpoke, StartBuild, TypeOK, Outcomes, Processes
  <1>6. ASSUME NEW p \in Processes, End(p) \/ Stop(p) PROVE TypeOK'
    BY <1>6 DEF End, Stop, TypeOK
  <1>7. CASE UNCHANGED vars
    BY <1>7 DEF vars, TypeOK
  <1> QED
    BY <1>1, <1>2, <1>3, <1>4, <1>5, <1>6, <1>7 DEF Next, Step, Ended

\* Every variable keeps its type, whatever the reference and however the builds interleave.
THEOREM TypeCorrect == Spec => []TypeOK
  BY TypeInit, TypeStep, PTL DEF Spec

-----------------------------------------------------------------------------
(* The inductive invariant. *)

RefInv == ref \in References

\* The hub runs nothing before its reference was generated, and then its part is closed.
HubInv ==
    /\ process["hub"] \in {"none", "refused"} => \A t \in Tasks : outcome["hub"][t] = "pending"
    /\ process["hub"] \notin {"none", "refused"} => HubIsClosed

\* What has completed in the hub has left its output ...
OutputInv == Completed("hub") \subseteq output["hub"]

\* ... and all of it is in the zip.
ZipInv == manifest = "completed" => Included \subseteq Completed("hub") /\ Included \subseteq zip

\* A build starts from the zip.
BuildInv ==
    \A a \in Accounts : process[a] # "none" =>
        a \in DeployedAccounts /\ manifest = "completed" /\ Included \subseteq output[a]

\* A task was run by its process, after its dependencies there.
RanInv ==
    \A p \in Processes : \A t \in ran[p] :
        /\ process[p] \notin {"none", "refused"}
        /\ t \in TasksOf(p)
        /\ outcome[p][t] # "pending"
        /\ p \in Accounts => t \notin Included
        /\ \A d \in ref.deps[t] \cap TasksOf(p) : outcome[p][d] = "completed"

IInv == TypeOK /\ RefInv /\ HubInv /\ OutputInv /\ ZipInv /\ BuildInv /\ RanInv

LEMMA InvInit == Init => IInv
  <1> SUFFICES ASSUME Init PROVE IInv
    OBVIOUS
  <1>1. RefInv /\ HubInv /\ OutputInv /\ ZipInv
    BY DEF Init, RefInv, HubInv, OutputInv, ZipInv, Completed, Processes
  <1>2. BuildInv /\ RanInv
    BY DEF Init, BuildInv, RanInv, Processes
  <1> QED
    BY <1>1, <1>2, TypeInit DEF IInv

-----------------------------------------------------------------------------
(* Its parts. *)

\* The split does not change, what is completed stays so, and so does what was run.
LEMMA Monotone ==
  ASSUME IInv, [Next]_vars
  PROVE  /\ ref' = ref /\ Included' = Included /\ DeployedAccounts' = DeployedAccounts
         /\ HubIsClosed' = HubIsClosed
         /\ \A p \in Processes : TasksOf(p)' = TasksOf(p)
         /\ \A p \in Processes : \A t \in Tasks :
               outcome[p][t] # "pending" => outcome'[p][t] = outcome[p][t]
  <1>1. ref' = ref
    BY DEF Next, Step, Skip, Run, GenerateReference, GenerateManifest, RunDeployInSpoke, End,
           Stop, Ended, vars
  <1>2. /\ Included' = Included /\ DeployedAccounts' = DeployedAccounts
        /\ HubIsClosed' = HubIsClosed
    BY <1>1 DEF Included, BeforeSpokes, SplitToHub, DeployedAccounts, HubIsClosed
  <1>3. \A p \in Processes : TasksOf(p)' = TasksOf(p)
    BY <1>1, <1>2 DEF TasksOf, KeptInHubAccount
  <1>4. \A p \in Processes : \A t \in Tasks :
            outcome[p][t] # "pending" => outcome'[p][t] = outcome[p][t]
    <2>1. ASSUME NEW p \in Processes, NEW t \in Tasks, Skip(p, t) \/ Run(p, t),
                 NEW q \in Processes, NEW u \in Tasks, outcome[q][u] # "pending"
          PROVE  outcome'[q][u] = outcome[q][u]
      <3>1. PICK end \in {"completed", "failed"} : outcome' = [outcome EXCEPT ![p][t] = end]
        BY <2>1, FinishTypes DEF IInv
      <3>2. outcome[p][t] = "pending"
        BY <2>1 DEF Skip, Run, Ready
      <3> QED
        BY <2>1, <3>1, <3>2 DEF IInv, TypeOK
    <2>2. ASSUME \A p \in Processes, t \in Tasks : ~Skip(p, t) /\ ~Run(p, t)
          PROVE  outcome' = outcome
      BY <2>2 DEF Next, Step, GenerateReference, GenerateManifest, RunDeployInSpoke, End, Stop,
                  Ended, vars
    <2> QED
      BY <2>1, <2>2
  <1> QED
    BY <1>1, <1>2, <1>3, <1>4

\* What the steps that finish no task leave as it is.
LEMMA OtherSteps ==
  ASSUME TypeOK, [Next]_vars, \A p \in Processes, t \in Tasks : ~Skip(p, t) /\ ~Run(p, t)
  PROVE  /\ UNCHANGED <<outcome, ran>>
         /\ \A p \in Processes : process[p] \notin {"none", "refused"} =>
               process'[p] \notin {"none", "refused"}
  <1> USE DEF TypeOK, Processes
  <1>1. CASE GenerateReference
    BY <1>1 DEF GenerateReference
  <1>2. CASE GenerateManifest
    BY <1>2 DEF GenerateManifest
  <1>3. ASSUME NEW a \in Accounts, RunDeployInSpoke(a)
        PROVE  /\ UNCHANGED <<outcome, ran>>
               /\ \A p \in Processes : process[p] \notin {"none", "refused"} =>
                     process'[p] \notin {"none", "refused"}
    BY <1>3 DEF RunDeployInSpoke, StartBuild
  <1>4. ASSUME NEW q \in Processes, End(q) \/ Stop(q)
        PROVE  /\ UNCHANGED <<outcome, ran>>
               /\ \A p \in Processes : process[p] \notin {"none", "refused"} =>
                     process'[p] \notin {"none", "refused"}
    BY <1>4 DEF End, Stop
  <1>5. CASE UNCHANGED vars
    BY <1>5 DEF vars
  <1> QED
    BY <1>1, <1>2, <1>3, <1>4, <1>5 DEF Next, Step, Ended

LEMMA HubStep == IInv /\ [Next]_vars => HubInv'
  <1> SUFFICES ASSUME IInv, [Next]_vars PROVE HubInv'
    OBVIOUS
  <1>0. HubIsClosed' = HubIsClosed /\ "hub" \in Processes
    BY Monotone DEF Processes
  <1> USE DEF IInv, HubInv, TypeOK
  <1>1. ASSUME NEW p \in Processes, NEW t \in Tasks, Skip(p, t) \/ Run(p, t) PROVE HubInv'
    <2>1. process' = process /\ process[p] = "running"
      BY <1>1 DEF Skip, Run, Ready
    <2>2. p # "hub" => \A u \in Tasks : outcome'["hub"][u] = outcome["hub"][u]
      BY <1>0, <1>1, FinishTypes
    <2> QED
      BY <1>0, <2>1, <2>2
  <1>2. CASE GenerateReference
    BY <1>0, <1>2 DEF GenerateReference
  <1>3. CASE GenerateManifest
    BY <1>0, <1>3 DEF GenerateManifest
  <1>4. ASSUME NEW a \in Accounts, RunDeployInSpoke(a) PROVE HubInv'
    BY <1>0, <1>4 DEF RunDeployInSpoke, StartBuild
  <1>5. ASSUME NEW p \in Processes, End(p) \/ Stop(p) PROVE HubInv'
    BY <1>0, <1>5 DEF End, Stop
  <1>6. CASE UNCHANGED vars
    BY <1>0, <1>6 DEF vars
  <1> QED
    BY <1>1, <1>2, <1>3, <1>4, <1>5, <1>6 DEF Next, Step, Ended

LEMMA OutputStep == IInv /\ [Next]_vars => OutputInv'
  <1> SUFFICES ASSUME IInv, [Next]_vars PROVE OutputInv'
    OBVIOUS
  <1>0. "hub" \in Processes /\ \A a \in Accounts : a \in Processes /\ a # "hub"
    BY DEF Processes
  <1> USE DEF IInv, OutputInv, Completed, TypeOK
  <1>1. ASSUME NEW p \in Processes, NEW t \in Tasks, Skip(p, t) PROVE OutputInv'
    <2>1. outcome' = [outcome EXCEPT ![p][t] = "completed"] /\ output' = output /\ t \in output[p]
      BY <1>1 DEF Skip
    <2> QED
      BY <1>0, <2>1
  <1>2. ASSUME NEW p \in Processes, NEW t \in Tasks, Run(p, t) PROVE OutputInv'
    <2>1. CASE /\ outcome' = [outcome EXCEPT ![p][t] = "completed"]
               /\ output' = [output EXCEPT ![p] = @ \cup {t}]
      BY <1>0, <2>1
    <2>2. CASE outcome' = [outcome EXCEPT ![p][t] = "failed"] /\ output' = output
      BY <1>0, <2>2
    <2> QED
      BY <1>2, <2>1, <2>2 DEF Run
  <1>3. ASSUME NEW a \in Accounts, RunDeployInSpoke(a) PROVE OutputInv'
    <2>1. outcome' = outcome /\ output'["hub"] = output["hub"]
      BY <1>0, <1>3 DEF RunDeployInSpoke, StartBuild
    <2> QED
      BY <2>1
  <1>4. ASSUME NEW p \in Processes, GenerateReference \/ GenerateManifest \/ End(p) \/ Stop(p)
        PROVE  OutputInv'
    BY <1>4 DEF GenerateReference, GenerateManifest, End, Stop
  <1>5. CASE UNCHANGED vars
    BY <1>5 DEF vars
  <1> QED
    BY <1>0, <1>1, <1>2, <1>3, <1>4, <1>5 DEF Next, Step, Ended

LEMMA ZipStep == IInv /\ [Next]_vars => ZipInv'
  <1> SUFFICES ASSUME IInv, [Next]_vars PROVE ZipInv'
    OBVIOUS
  <1>0. /\ "hub" \in Processes /\ Included' = Included /\ Included \subseteq Tasks
        /\ Completed("hub") \subseteq Completed("hub")'
    <2>1. "hub" \in Processes /\ Included' = Included /\ Included \subseteq Tasks
      BY Monotone DEF Processes, Included
    <2>2. \A t \in Tasks : outcome["hub"][t] = "completed" => outcome'["hub"][t] = "completed"
      BY <2>1, Monotone
    <2> QED
      BY <2>1, <2>2 DEF Completed
  <1>1. CASE GenerateManifest
    <2>1. ManifestDeps \subseteq Completed("hub") /\ outcome' = outcome
      BY <1>1 DEF GenerateManifest, ManifestReady
    <2>2. manifest' = "completed" => zip' = output["hub"]
      BY <1>1 DEF GenerateManifest
    <2> QED
      BY <1>0, <2>1, <2>2 DEF IInv, ZipInv, OutputInv, ManifestDeps
  <1>2. CASE UNCHANGED <<manifest, zip>>
    BY <1>0, <1>2 DEF IInv, ZipInv
  <1> QED
    BY <1>1, <1>2 DEF Next, Step, Skip, Run, GenerateReference, RunDeployInSpoke, End, Stop,
                      Ended, vars

LEMMA BuildStep == IInv /\ [Next]_vars => BuildInv'
  <1> SUFFICES ASSUME IInv, [Next]_vars, NEW a \in Accounts, process'[a] # "none"
               PROVE  a \in DeployedAccounts' /\ manifest' = "completed" /\ Included' \subseteq output'[a]
    BY DEF BuildInv
  <1>0. /\ a \in Processes /\ a # "hub"
        /\ Included' = Included /\ DeployedAccounts' = DeployedAccounts
    BY Monotone DEF Processes
  <1> USE DEF IInv, BuildInv, TypeOK
  <1>1. ASSUME NEW b \in Accounts, RunDeployInSpoke(b)
        PROVE  a \in DeployedAccounts /\ manifest' = "completed" /\ Included \subseteq output'[a]
    <2>1. b \in DeployedAccounts /\ manifest = "completed" /\ manifest' = manifest /\ Included \subseteq zip
      BY <1>1 DEF RunDeployInSpoke, DeployReady, ZipInv
    <2>2. CASE process'[a] = process[a] /\ output'[a] = output[a]
      BY <2>1, <2>2
    <2>3. CASE a = b /\ output'[a] = zip
      BY <2>1, <2>3
    <2> QED
      BY <1>0, <1>1, <2>2, <2>3 DEF RunDeployInSpoke, StartBuild
  <1>2. ASSUME NEW p \in Processes, NEW t \in Tasks, Skip(p, t) \/ Run(p, t)
        PROVE  a \in DeployedAccounts /\ manifest' = "completed" /\ Included \subseteq output'[a]
    BY <1>0, <1>2 DEF Skip, Run
  <1>3. CASE GenerateManifest
    BY <1>0, <1>3 DEF GenerateManifest, ManifestReady
  <1>4. ASSUME NEW p \in Processes, GenerateReference \/ End(p) \/ Stop(p)
        PROVE  a \in DeployedAccounts /\ manifest' = "completed" /\ Included \subseteq output'[a]
    <2>1. /\ process'[a] = process[a] \/ process[a] = "running"
          /\ manifest' = manifest /\ output' = output
      <3>1. CASE GenerateReference
        BY <1>0, <3>1 DEF GenerateReference
      <3>2. CASE End(p)
        BY <1>0, <3>2 DEF End
      <3>3. CASE Stop(p)
        BY <1>0, <3>3 DEF Stop
      <3> QED
        BY <1>4, <3>1, <3>2, <3>3
    <2>2. process[a] # "none"
      BY <2>1
    <2> QED
      BY <2>1, <2>2
  <1>5. CASE UNCHANGED vars
    BY <1>0, <1>5 DEF vars
  <1> QED
    BY <1>0, <1>1, <1>2, <1>3, <1>4, <1>5 DEF Next, Step, Ended

LEMMA RanStep == IInv /\ [Next]_vars => RanInv'
  <1> SUFFICES ASSUME IInv, [Next]_vars, NEW p \in Processes, NEW t \in ran'[p]
               PROVE  /\ process'[p] \notin {"none", "refused"}
                      /\ t \in TasksOf(p)
                      /\ outcome'[p][t] # "pending"
                      /\ p \in Accounts => t \notin Included
                      /\ \A d \in ref.deps[t] \cap TasksOf(p) : outcome'[p][d] = "completed"
    BY Monotone DEF RanInv
  <1>0. /\ t \in Tasks
        /\ \A d \in Tasks : outcome[p][d] # "pending" => outcome'[p][d] = outcome[p][d]
        /\ TasksOf(p) \subseteq Tasks
    BY TypeStep, Monotone DEF IInv, TypeOK, TasksOf, Included
  <1>1. CASE t \in ran[p] /\ process'[p] \notin {"none", "refused"}
    BY <1>0, <1>1 DEF IInv, RanInv
  <1>2. ASSUME NEW q \in Processes, NEW u \in Tasks, Skip(q, u) \/ Run(q, u), t \in ran[p]
        PROVE  process'[p] \notin {"none", "refused"}
    BY <1>2 DEF Skip, Run, IInv, RanInv
  <1>3. ASSUME NEW q \in Processes, NEW u \in Tasks, Skip(q, u) \/ Run(q, u), t \notin ran[p]
        PROVE  /\ process'[p] \notin {"none", "refused"}
               /\ t \in TasksOf(p)
               /\ outcome'[p][t] # "pending"
               /\ p \in Accounts => t \notin Included
               /\ \A d \in ref.deps[t] \cap TasksOf(p) : outcome'[p][d] = "completed"
    <2>1. p = q /\ t = u /\ Run(p, t)
      BY <1>3 DEF Skip, Run, IInv, TypeOK
    <2>2. /\ process' = process /\ process[p] = "running" /\ t \in TasksOf(p)
          /\ \A d \in ref.deps[t] \cap TasksOf(p) : outcome[p][d] = "completed"
      BY <2>1 DEF Run, Ready
    <2>3. outcome'[p][t] # "pending"
      BY <2>1, FinishTypes DEF IInv, TypeOK
    <2>4. p \in Accounts => t \notin Included
      BY <2>1, <2>2 DEF Run, IInv, BuildInv
    <2> QED
      BY <1>0, <2>2, <2>3, <2>4
  <1>4. CASE \A q \in Processes, u \in Tasks : ~Skip(q, u) /\ ~Run(q, u)
    BY <1>1, <1>4, OtherSteps DEF IInv, RanInv
  <1> QED
    BY <1>1, <1>2, <1>3, <1>4

-----------------------------------------------------------------------------
(* The theorems. *)

LEMMA InvStep == IInv /\ [Next]_vars => IInv'
  <1>1. IInv /\ [Next]_vars => RefInv'
    BY Monotone DEF RefInv, IInv
  <1> QED
    BY <1>1, TypeStep, HubStep, OutputStep, ZipStep, BuildStep, RanStep DEF IInv

\* The hub and the builds keep the invariant the proofs are about.
THEOREM Inductive == Spec => []IInv
  BY InvInit, InvStep, PTL DEF Spec

\* No task is run by two processes, whatever the execution modes and the sections of the
\* tasks (hub_generator.py and the zip of GenerateManifestWithIdsTask).
THEOREM RunsOnceAlways == Spec => []RunsOnce
  <1>1. IInv => RunsOnce
    <2> SUFFICES ASSUME IInv, NEW t \in Tasks, NEW p \in Processes, NEW q \in Processes,
                        t \in ran[p] \cap ran[q], p # q
                 PROVE  FALSE
      BY DEF RunsOnce
    <2>1. t \in TasksOf(p) /\ t \in TasksOf(q)
      BY DEF IInv, RanInv
    <2>2. CASE p = "hub" \/ q = "hub"
      BY <2>1, <2>2 DEF IInv, RanInv, TasksOf, Processes
    <2>3. CASE p # "hub" /\ q # "hub"
      BY <2>1, <2>3 DEF TasksOf
    <2> QED
      BY <2>2, <2>3
  <1> QED
    BY Inductive, <1>1, PTL

\* depends_on is adhered to within an account and towards the hub, in the build of the account
\* of the hub too, which leaves some of its tasks out (task_reference.py).
THEOREM DependenciesFirstAlways == Spec => []DependenciesFirst
  <1>1. IInv => DependenciesFirst
    <2> SUFFICES ASSUME IInv, NEW p \in Processes, NEW t \in ran[p],
                        NEW d \in ref.deps[t] \ OutputsIntoHub,
                        ref.account[d] = ref.account[t] \/ d \in Included
                 PROVE  d \in Completed(p) \cup Completed("hub")
      BY DEF DependenciesFirst
    <2>1. /\ t \in Tasks /\ d \in Tasks /\ t \in TasksOf(p)
          /\ process[p] \notin {"none", "refused"}
          /\ p \in Accounts => t \notin Included
          /\ d \in TasksOf(p) => d \in Completed(p)
      BY DEF IInv, TypeOK, RanInv, Completed, Reference
    <2>2. CASE p = "hub"
      BY <2>1, <2>2 DEF IInv, HubInv, HubIsClosed, TasksOf
    <2>3. CASE p \in Accounts /\ d \in Included
      BY <2>1, <2>3 DEF IInv, BuildInv, ZipInv
    <2>4. CASE p \in Accounts /\ d \notin Included
      <3>1. ref.account[d] = p
        BY <2>1, <2>4 DEF TasksOf
      <3>2. p = HubAccount => KeptInHubAccount(d)
        <4>1. ref.section[d] # "create-policies"
          BY <2>1, <2>4, PoliciesAssumption DEF Included, IInv, RefInv
        <4> QED
          BY <2>1, <2>4, <3>1, <4>1 DEF KeptInHubAccount, OutputsIntoHub
      <3> QED
        BY <2>1, <2>4, <3>1, <3>2 DEF TasksOf
    <2> QED
      BY <2>2, <2>3, <2>4 DEF Processes
  <1> QED
    BY Inductive, <1>1, PTL

\* A build starts only for work that the hub left, and after all of the hub's
\* (GenerateManifestWithIdsTask waits for every task of the hub).
THEOREM SpokesFollowTheHubAlways == Spec => []SpokesFollowTheHub
  <1>1. IInv => SpokesFollowTheHub
    BY DEF IInv, BuildInv, ZipInv, SpokesFollowTheHub
  <1> QED
    BY Inductive, <1>1, PTL
-----------------------------------------------------------------------------
(* Nothing is forgotten.  A process ends only when nothing can be executed *)
(* in it, and a part of an acyclic reference in which nothing can be       *)
(* executed and nothing has failed is one in which everything completed.   *)

\* In a process that has ended every pending task waits for another of its tasks, and the
\* hub has started every build it was to start.
EndedInv ==
    /\ \A p \in Processes : process[p] = "ended" =>
          \A t \in TasksOf(p) : outcome[p][t] = "pending" =>
              \E d \in ref.deps[t] \cap TasksOf(p) : outcome[p][d] # "completed"
    /\ process["hub"] = "ended" =>
          /\ manifest = "pending" /\ DeployedAccounts # {} => ~ Included \subseteq Completed("hub")
          /\ \A a \in DeployedAccounts : manifest = "completed" => deploy[a] # "pending"

\* An output was left by a run, in the process or, through the zip, in the hub.
OriginInv ==
    /\ output["hub"] \subseteq ran["hub"] /\ zip \subseteq ran["hub"]
    /\ \A p \in Processes : output[p] \cup Completed(p) \subseteq ran[p] \cup ran["hub"]

\* The deployment in a spoke completes only when it has started the build.
StartedInv == \A a \in Accounts : deploy[a] = "completed" => process[a] # "none"

EndInv == EndedInv /\ OriginInv /\ StartedInv

LEMMA EndInvInit == Init => EndInv
  <1> SUFFICES ASSUME Init PROVE EndInv
    OBVIOUS
  <1>1. EndedInv /\ StartedInv
    BY DEF Init, EndedInv, StartedInv, Processes
  <1>2. OriginInv
    BY DEF Init, OriginInv, Completed, Processes
  <1> QED
    BY <1>1, <1>2 DEF EndInv

\* A process that has ended stays as it is: a step of a process needs it to be running, and
\* the manifest and the builds are steps of the hub.
LEMMA EndedIsFinal ==
  ASSUME IInv, [Next]_vars, NEW p \in Processes, process[p] = "ended"
  PROVE  /\ outcome'[p] = outcome[p]
         /\ p = "hub" => UNCHANGED <<manifest, deploy>>
  <1>0. "hub" \in Processes
    BY DEF Processes
  <1> USE DEF IInv, TypeOK
  <1>1. ASSUME NEW q \in Processes, NEW t \in Tasks, Skip(q, t) \/ Run(q, t)
        PROVE  outcome'[p] = outcome[p] /\ UNCHANGED <<manifest, deploy>>
    <2>1. q # p
      BY <1>1 DEF Skip, Run, Ready
    <2> QED
      BY <1>1, <2>1, FinishTypes
  <1>2. CASE GenerateReference
    BY <1>2 DEF GenerateReference
  <1>3. CASE GenerateManifest
    BY <1>0, <1>3 DEF GenerateManifest, ManifestReady
  <1>4. ASSUME NEW a \in Accounts, RunDeployInSpoke(a)
        PROVE  outcome' = outcome /\ p # "hub"
    BY <1>0, <1>4 DEF RunDeployInSpoke, DeployReady
  <1>5. ASSUME NEW q \in Processes, End(q) \/ Stop(q)
        PROVE  UNCHANGED <<outcome, manifest, deploy>>
    BY <1>5 DEF End, Stop
  <1>6. CASE UNCHANGED vars
    BY <1>6 DEF vars
  <1> QED
    BY <1>1, <1>2, <1>3, <1>4, <1>5, <1>6 DEF Next, Step, Ended

\* Only End ends a process.
LEMMA WhatEnds ==
  ASSUME IInv, [Next]_vars, NEW p \in Processes, process'[p] = "ended", process[p] # "ended"
  PROVE  End(p)
  <1>0. "hub" \in Processes /\ \A a \in Accounts : a \in Processes
    BY DEF Processes
  <1> USE DEF IInv, TypeOK
  <1>1. ASSUME NEW q \in Processes, NEW t \in Tasks, Skip(q, t) \/ Run(q, t) PROVE FALSE
    BY <1>1 DEF Skip, Run
  <1>2. CASE GenerateReference
    BY <1>0, <1>2 DEF GenerateReference
  <1>3. CASE GenerateManifest
    BY <1>3 DEF GenerateManifest
  <1>4. ASSUME NEW a \in Accounts, RunDeployInSpoke(a) PROVE FALSE
    BY <1>0, <1>4 DEF RunDeployInSpoke, StartBuild
  <1>5. ASSUME NEW q \in Processes, End(q) PROVE End(p)
    BY <1>5 DEF End
  <1>6. ASSUME NEW q \in Processes, Stop(q) PROVE FALSE
    BY <1>6 DEF Stop
  <1>7. CASE UNCHANGED vars
    BY <1>7 DEF vars
  <1> QED
    BY <1>1, <1>2, <1>3, <1>4, <1>5, <1>6, <1>7 DEF Next, Step, Ended

LEMMA EndedStep == IInv /\ EndInv /\ [Next]_vars => EndedInv'
  <1> SUFFICES ASSUME IInv, EndInv, [Next]_vars PROVE EndedInv'
    OBVIOUS
  <1>0. /\ ref' = ref /\ Included' = Included /\ DeployedAccounts' = DeployedAccounts
        /\ \A p \in Processes : TasksOf(p)' = TasksOf(p)
        /\ "hub" \in Processes /\ Included \subseteq Tasks /\ DeployedAccounts \subseteq Accounts
    BY Monotone DEF Processes, Included, DeployedAccounts, IInv, TypeOK, Reference
  <1>1. ASSUME NEW p \in Processes, process'[p] = "ended", process[p] = "ended"
        PROVE  /\ \A t \in TasksOf(p) : outcome'[p][t] = "pending" =>
                     \E d \in ref.deps[t] \cap TasksOf(p) : outcome'[p][d] # "completed"
               /\ p = "hub" =>
                     /\ manifest' = "pending" /\ DeployedAccounts # {}
                            => ~ Included \subseteq Completed("hub")'
                     /\ \A a \in DeployedAccounts : manifest' = "completed" => deploy'[a] # "pending"
    <2>1. outcome'[p] = outcome[p] /\ (p = "hub" => UNCHANGED <<manifest, deploy>>)
      BY <1>1, EndedIsFinal
    <2>2. p = "hub" => Completed("hub")' = Completed("hub")
      BY <2>1 DEF Completed
    <2>3. \A t \in TasksOf(p) : outcome'[p][t] = "pending" =>
              \E d \in ref.deps[t] \cap TasksOf(p) : outcome'[p][d] # "completed"
      BY <1>1, <2>1 DEF EndInv, EndedInv
    <2> QED
      BY <1>1, <2>1, <2>2, <2>3 DEF EndInv, EndedInv
  <1>2. ASSUME NEW p \in Processes, process'[p] = "ended", process[p] # "ended"
        PROVE  /\ \A t \in TasksOf(p) : outcome'[p][t] = "pending" =>
                     \E d \in ref.deps[t] \cap TasksOf(p) : outcome'[p][d] # "completed"
               /\ p = "hub" =>
                     /\ manifest' = "pending" /\ DeployedAccounts # {}
                            => ~ Included \subseteq Completed("hub")'
                     /\ \A a \in DeployedAccounts : manifest' = "completed" => deploy'[a] # "pending"
    <2>1. /\ process[p] = "running" /\ (\A t \in Tasks : ~Ready(p, t))
          /\ p = "hub" => ~ManifestReady /\ \A a \in Accounts : ~DeployReady(a)
          /\ UNCHANGED <<outcome, manifest, deploy>>
      BY <1>2, WhatEnds DEF End
    <2>2. Completed("hub")' = Completed("hub")
      BY <2>1 DEF Completed
    <2>3. TasksOf(p) \subseteq Tasks
      BY DEF TasksOf, Included
    <2>4. ASSUME NEW t \in TasksOf(p), outcome[p][t] = "pending"
          PROVE  \E d \in ref.deps[t] \cap TasksOf(p) : outcome[p][d] # "completed"
      BY <2>1, <2>3, <2>4 DEF Ready
    <2>5. ASSUME p = "hub", manifest = "pending", DeployedAccounts # {},
                 Included \subseteq Completed("hub")
          PROVE  FALSE
      BY <2>1, <2>5 DEF ManifestReady, ManifestDeps
    <2>6. ASSUME p = "hub", NEW a \in DeployedAccounts, manifest = "completed", deploy[a] = "pending"
          PROVE  FALSE
      BY <1>0, <2>1, <2>6 DEF DeployReady
    <2> QED
      BY <2>1, <2>2, <2>4, <2>5, <2>6
  <1>3. ASSUME NEW p \in Processes, process'[p] = "ended"
        PROVE  /\ \A t \in TasksOf(p) : outcome'[p][t] = "pending" =>
                     \E d \in ref.deps[t] \cap TasksOf(p) : outcome'[p][d] # "completed"
               /\ p = "hub" =>
                     /\ manifest' = "pending" /\ DeployedAccounts # {}
                            => ~ Included \subseteq Completed("hub")'
                     /\ \A a \in DeployedAccounts : manifest' = "completed" => deploy'[a] # "pending"
    BY <1>1, <1>2, <1>3
  <1>4. ASSUME NEW p \in Processes, process'[p] = "ended",
               NEW t \in TasksOf(p)', outcome'[p][t] = "pending"
        PROVE  \E d \in ref'.deps[t] \cap TasksOf(p)' : outcome'[p][d] # "completed"
    BY <1>0, <1>3, <1>4
  <1>5. process'["hub"] = "ended" =>
            /\ manifest' = "pending" /\ DeployedAccounts' # {}
                   => ~ Included' \subseteq Completed("hub")'
            /\ \A a \in DeployedAccounts' : manifest' = "completed" => deploy'[a] # "pending"
    BY <1>0, <1>3
  <1> QED
    BY <1>4, <1>5 DEF EndedInv

LEMMA OriginStep == IInv /\ EndInv /\ [Next]_vars => OriginInv'
  <1> SUFFICES ASSUME IInv, EndInv, [Next]_vars PROVE OriginInv'
    OBVIOUS
  <1>0. "hub" \in Processes /\ \A a \in Accounts : a \in Processes /\ a # "hub"
    BY DEF Processes
  <1>1. OriginInv /\ TypeOK
    BY DEF EndInv, IInv
  <1>2. ASSUME NEW p \in Processes, NEW t \in Tasks, Skip(p, t) PROVE OriginInv'
    <2>1. /\ UNCHANGED <<ran, output, zip>> /\ t \in output[p]
          /\ outcome' = [outcome EXCEPT ![p][t] = "completed"]
      BY <1>2 DEF Skip
    <2>2. \A q \in Processes : Completed(q)' \subseteq Completed(q) \cup output[q]
      BY <1>1, <2>1 DEF Completed, TypeOK
    <2> QED
      BY <1>1, <2>1, <2>2 DEF OriginInv
  <1>3. ASSUME NEW p \in Processes, NEW t \in Tasks, Run(p, t) PROVE OriginInv'
    <2>1. ran' = [ran EXCEPT ![p] = @ \cup {t}] /\ zip' = zip
      BY <1>3 DEF Run
    <2>2. \A q \in Processes : /\ ran[q] \subseteq ran'[q]
                               /\ q = p => ran'[q] = ran[q] \cup {t}
      BY <1>1, <2>1 DEF TypeOK
    <2>3. \A q \in Processes :
              output'[q] \subseteq output[q] \cup (IF q = p THEN {t} ELSE {})
      BY <1>1, <1>3 DEF Run, TypeOK
    <2>4. \A q \in Processes :
              Completed(q)' \subseteq Completed(q) \cup (IF q = p THEN {t} ELSE {})
      BY <1>1, <1>3 DEF Run, TypeOK, Completed
    <2>5. output'["hub"] \subseteq ran'["hub"] /\ zip' \subseteq ran'["hub"]
      BY <1>0, <1>1, <2>1, <2>2, <2>3 DEF OriginInv
    <2>6. \A q \in Processes : output'[q] \cup Completed(q)' \subseteq ran'[q] \cup ran'["hub"]
      BY <1>0, <1>1, <2>2, <2>3, <2>4 DEF OriginInv
    <2> QED
      BY <2>5, <2>6 DEF OriginInv
  <1>4. CASE GenerateReference \/ \E p \in Processes : End(p) \/ Stop(p)
    BY <1>1, <1>4 DEF GenerateReference, End, Stop, OriginInv, Completed
  <1>5. CASE GenerateManifest
    BY <1>1, <1>5 DEF GenerateManifest, OriginInv, Completed
  <1>6. ASSUME NEW a \in Accounts, RunDeployInSpoke(a) PROVE OriginInv'
    <2>1. UNCHANGED <<outcome, ran, zip>> /\ output'["hub"] = output["hub"]
      BY <1>0, <1>1, <1>6 DEF RunDeployInSpoke, StartBuild, TypeOK
    <2>2. \A q \in Processes : output'[q] = output[q] \/ output'[q] = zip
      BY <1>0, <1>1, <1>6 DEF RunDeployInSpoke, StartBuild, TypeOK
    <2>3. \A q \in Processes : Completed(q)' = Completed(q)
      BY <2>1 DEF Completed
    <2> QED
      BY <1>1, <2>1, <2>2, <2>3 DEF OriginInv
  <1>7. CASE UNCHANGED vars
    BY <1>1, <1>7 DEF vars, OriginInv, Completed
  <1> QED
    BY <1>2, <1>3, <1>4, <1>5, <1>6, <1>7 DEF Next, Step, Ended

LEMMA StartedStep == IInv /\ EndInv /\ [Next]_vars => StartedInv'
  <1> SUFFICES ASSUME IInv, EndInv, [Next]_vars, NEW a \in Accounts, deploy'[a] = "completed"
               PROVE  process'[a] # "none"
    BY DEF StartedInv
  <1>0. "hub" \in Processes /\ a \in Processes
    BY DEF Processes
  <1>1. TypeOK /\ (deploy[a] = "completed" => process[a] # "none")
    BY DEF EndInv, StartedInv, IInv
  <1>2. ASSUME NEW b \in Accounts, RunDeployInSpoke(b) PROVE process'[a] # "none"
    <2>1. CASE deploy[a] = "completed"
      BY <1>0, <1>1, <1>2, <2>1 DEF RunDeployInSpoke, StartBuild, TypeOK
    <2>2. CASE deploy[a] # "completed"
      BY <1>0, <1>1, <1>2, <2>2 DEF RunDeployInSpoke, StartBuild, TypeOK
    <2> QED
      BY <2>1, <2>2
  <1>3. ASSUME NEW p \in Processes, NEW t \in Tasks, Skip(p, t) \/ Run(p, t)
        PROVE  process'[a] # "none"
    BY <1>1, <1>3 DEF Skip, Run
  <1>4. CASE GenerateReference
    BY <1>0, <1>1, <1>4 DEF GenerateReference, TypeOK
  <1>5. CASE GenerateManifest
    BY <1>1, <1>5 DEF GenerateManifest
  <1>6. ASSUME NEW p \in Processes, End(p) \/ Stop(p) PROVE process'[a] # "none"
    BY <1>0, <1>1, <1>6 DEF End, Stop, TypeOK
  <1>7. CASE UNCHANGED vars
    BY <1>1, <1>7 DEF vars
  <1> QED
    BY <1>2, <1>3, <1>4, <1>5, <1>6, <1>7 DEF Next, Step, Ended

LEMMA EndInvStep == IInv /\ EndInv /\ [Next]_vars => EndInv'
  BY EndedStep, OriginStep, StartedStep DEF EndInv

\* The least pending task of a process that has ended would have nothing to wait for.
LEMMA EndedIsComplete ==
  ASSUME IInv, EndInv, AllWentWell, NEW p \in Processes, process[p] = "ended"
  PROVE  TasksOf(p) \subseteq Completed(p)
  <1> DEFINE C == {t \in TasksOf(p) : outcome[p][t] = "pending"}
  <1>1. TasksOf(p) \subseteq Tasks
    BY DEF TasksOf, Included
  <1>2. \A t \in TasksOf(p) : outcome[p][t] \in {"pending", "completed"}
    BY <1>1 DEF AllWentWell, IInv, TypeOK, Outcomes
  <1>3. ASSUME C # {} PROVE FALSE
    <2>1. ref \in References /\ C \in SUBSET Tasks
      BY <1>1 DEF IInv, RefInv
    <2>2. PICK t \in C : ref.deps[t] \cap C = {}
      BY <1>3, <2>1, AcyclicAssumption
    <2>3. PICK d \in ref.deps[t] \cap TasksOf(p) : outcome[p][d] # "completed"
      BY <2>2 DEF EndInv, EndedInv
    <2>4. d \in C
      BY <1>2, <2>3
    <2> QED
      BY <2>2, <2>3, <2>4
  <1> QED
    BY <1>1, <1>2, <1>3 DEF Completed

\* The hub and the builds keep what the last theorem needs.
THEOREM EndInductive == Spec => [](IInv /\ EndInv)
  BY InvInit, InvStep, EndInvInit, EndInvStep, PTL DEF Spec

\* When nothing failed and nothing was stopped, every task of any acyclic reference was run
\* somewhere: what the hub leaves out has a build that is started, no build leaves out a task of
\* its account, and no process ends with a task that it could still run (hub_generator.py,
\* task_reference.py). The SSM outputs into the account of the hub are the exception.
THEOREM NothingIsForgottenAlways == Spec => []NothingIsForgotten
  <1>1. IInv /\ EndInv => NothingIsForgotten
    <2> SUFFICES ASSUME IInv, EndInv, AllWentWell, NEW t \in Tasks \ OutputsIntoHub
                 PROVE  \E p \in Processes : t \in ran[p]
      BY DEF NothingIsForgotten
    <2>0. "hub" \in Processes /\ \A a \in Accounts : a \in Processes
      BY DEF Processes
    <2>1. process["hub"] = "ended"
      BY <2>0 DEF AllWentWell, Over
    <2>2. Included \subseteq Completed("hub")
      BY <2>0, <2>1, EndedIsComplete DEF TasksOf
    <2>3. ASSUME NEW p \in Processes, t \in Completed(p) PROVE \E q \in Processes : t \in ran[q]
      BY <2>0, <2>3 DEF EndInv, OriginInv
    <2>4. CASE t \in Included
      BY <2>0, <2>2, <2>3, <2>4
    <2>5. CASE t \notin Included
      <3> DEFINE a == ref.account[t]
      <3>1. a \in Accounts /\ a \in DeployedAccounts
        BY <2>5 DEF DeployedAccounts, IInv, TypeOK, Reference
      <3>2. manifest = "completed"
        BY <2>1, <2>2, <3>1 DEF EndInv, EndedInv, AllWentWell, IInv, TypeOK, Outcomes
      <3>3. deploy[a] = "completed"
        BY <2>1, <3>1, <3>2 DEF EndInv, EndedInv, AllWentWell, IInv, TypeOK, Outcomes
      <3>4. process[a] = "ended"
        BY <2>0, <3>1, <3>3 DEF EndInv, StartedInv, AllWentWell
      <3>5. ref.section[t] # "create-policies"
        BY <2>5, PoliciesAssumption DEF Included, IInv, RefInv
      <3>6. a = HubAccount => KeptInHubAccount(t)
        BY <2>5, <3>5 DEF KeptInHubAccount, OutputsIntoHub
      <3>7. t \in TasksOf(a)
        BY <3>1, <3>6 DEF TasksOf
      <3> QED
        BY <2>0, <2>3, <3>1, <3>4, <3>7, EndedIsComplete
    <2> QED
      BY <2>4, <2>5
  <1> QED
    BY EndInductive, <1>1, PTL

=============================================================================
