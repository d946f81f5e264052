---------------------------- MODULE HubAndSpokes ----------------------------
(***************************************************************************)
(* One run of the framework over the hub and its spokes: the task          *)
(* reference of the manifest is split (hub_generator), the hub executes    *)
(* its part, zips what it produced (GenerateManifestWithIdsTask) and       *)
(* starts one build per account that has work left (RunDeployInSpokeTask); *)
(* every build runs the tasks of its account and skips those whose output  *)
(* is in the zip.  Each process runs its tasks as RunContract says; here a *)
(* task is one step.                                                       *)
(***************************************************************************)
EXTENDS Integers, FiniteSets

CONSTANTS
    Tasks,       \* the tasks of the complete reference
    Accounts,    \* the accounts, the hub's own one too
    HubAccount,  \* puppet_account_id
    References   \* the complete references that are considered

Executions == {"hub", "async", "spoke", "hub-and-spoke-split"}

\* The section names that the split and the filter of a build look at.
Sections == {"portfolio-share-and-accept-account", "portfolio-share-and-accept-aws-organizations",
             "portfolio-puppet-role-association",
             "portfolio-get-all-products-and-their-versions",
             "ssm-outputs", "create-policies", "other"}

Reference == [account   : [Tasks -> Accounts],
              execution : [Tasks -> Executions],
              section   : [Tasks -> Sections],
              deps      : [Tasks -> SUBSET Tasks]]

ASSUME AccountsAssumption == IsFiniteSet(Accounts) /\ HubAccount \in Accounts /\ "hub" \notin Accounts
ASSUME TasksAssumption == IsFiniteSet(Tasks)
ASSUME ReferencesAssumption == References \subseteq Reference

\* CREATE_POLICIES is executed from the hub, whatever the mode of the items.
ASSUME PoliciesAssumption ==
    \A r \in References, t \in Tasks :
        r.section[t] = "create-policies" => r.execution[t] = "hub"

\* ensure_no_cyclic_dependencies has accepted the complete reference: no set of tasks in which
\* every one depends on another of them, which in a finite graph is to have no cycle.
ASSUME AcyclicAssumption ==
    \A r \in References : \A C \in SUBSET Tasks :
        C # {} => \E t \in C : r.deps[t] \cap C = {}

\* The deployment in the hub and the build in each account.
Processes == {"hub"} \cup Accounts

VARIABLES
    ref,       \* the complete reference
    process,   \* the state of every process
    outcome,   \* what became of every task in every process
    ran,       \* the tasks whose run() was called in every process
    output,    \* the tasks whose output is in the output directory of every process
    manifest,  \* the outcome of the task GENERATE_MANIFEST
    zip,       \* the outputs in the zip it uploaded
    deploy     \* the outcome of every task RUN_DEPLOY_IN_SPOKE_<account>

vars == <<ref, process, outcome, ran, output, manifest, zip, deploy>>

Outcomes == {"pending", "completed", "failed"}

TypeOK ==
    /\ ref \in Reference
    /\ process \in [Processes -> {"none", "refused", "running", "ended", "stopped"}]
    /\ outcome \in [Processes -> [Tasks -> Outcomes]]
    /\ ran \in [Processes -> SUBSET Tasks]
    /\ output \in [Processes -> SUBSET Tasks]
    /\ manifest \in Outcomes
    /\ zip \subseteq Tasks
    /\ deploy \in [Accounts -> Outcomes]

Init ==
    /\ ref \in References
    /\ process = [p \in Processes |-> "none"]
    /\ outcome = [p \in Processes |-> [t \in Tasks |-> "pending"]]
    /\ ran = [p \in Processes |-> {}]
    /\ output = [p \in Processes |-> {}]
    /\ manifest = "pending"
    /\ zip = {}
    /\ deploy = [a \in Accounts |-> "pending"]

-----------------------------------------------------------------------------
(* The split of the reference. *)

\* task_should_execute_before_spoke_execution.
BeforeSpokes(t) ==
    \/ ref.section[t] = "portfolio-share-and-accept-account"
    \/ /\ ref.section[t] \in {"portfolio-puppet-role-association",
                              "portfolio-get-all-products-and-their-versions"}
       /\ ref.account[t] = HubAccount

\* The account of a task that is split decides, and sharing is done from the hub.
SplitToHub(t) ==
    \/ ref.account[t] = HubAccount
    \/ ref.section[t] \in {"portfolio-share-and-accept-account",
                           "portfolio-share-and-accept-aws-organizations"}

\* tasks_to_include.
Included ==
    {t \in Tasks :
        \/ ref.execution[t] \in {"hub", "async"}
        \/ ref.execution[t] = "spoke" /\ BeforeSpokes(t)
        \/ ref.execution[t] = "hub-and-spoke-split" /\ SplitToHub(t)}

\* Mutant: only the tasks in spoke mode are replaced by a deployment in their spoke.
SpokeModeAccounts ==
    {ref.account[t] : t \in {u \in Tasks \ Included : ref.execution[u] = "spoke"}}

\* The accounts of the tasks left out, each replaced by RUN_DEPLOY_IN_SPOKE_<account>.
DeployedAccounts == {ref.account[t] : t \in Tasks \ Included}

\* Mutant: nobody looks for the dependencies that were left out.
AnyReference == TRUE

\* No task of the hub depends on one that is not listed in the hub's reference.
HubIsClosed == \A t \in Included : ref.deps[t] \subseteq Included

-----------------------------------------------------------------------------
(* The tasks of a process. *)

\* A build in the account of the hub takes the branch of a hub in single account mode:
\* CREATE_POLICIES is left out, and the outputs of the tasks of other accounts are.
KeptInHubAccount(t) ==
    /\ ref.section[t] # "create-policies"
    /\ ref.section[t] = "ssm-outputs" => \A d \in ref.deps[t] : ref.account[d] = HubAccount

\* tasks_to_run_filtered.
TasksOf(p) ==
    IF p = "hub" THEN Included
    ELSE {t \in Tasks : ref.account[t] = p /\ (p = HubAccount => KeptInHubAccount(t))}

\* Dependencies that are not in the reference of the process are not waited for.
Ready(p, t) ==
    /\ process[p] = "running"
    /\ t \in TasksOf(p)
    /\ outcome[p][t] = "pending"
    /\ \A d \in ref.deps[t] \cap TasksOf(p) : outcome[p][d] = "completed"

Completed(p) == {t \in Tasks : outcome[p][t] = "completed"}

\* Mutant: the manifest is generated at once.
ManifestDepsNone == {}

\* The dependencies of GENERATE_MANIFEST: everything runs before the output is zipped.
ManifestDeps == Included

ManifestReady ==
    /\ process["hub"] = "running"
    /\ manifest = "pending"
    /\ DeployedAccounts # {}
    /\ ManifestDeps \subseteq Completed("hub")

DeployReady(a) ==
    /\ process["hub"] = "running"
    /\ a \in DeployedAccounts
    /\ manifest = "completed"
    /\ deploy[a] = "pending"

-----------------------------------------------------------------------------
(* The steps. *)

\* generate_task_reference, then the deployment from it.
GenerateReference ==
    /\ process["hub"] = "none"
    /\ process' = [process EXCEPT !["hub"] = IF HubIsClosed THEN "running" ELSE "refused"]
    /\ UNCHANGED <<ref, outcome, ran, output, manifest, zip, deploy>>

\* The output of the task is there already: execute does not call run.
Skip(p, t) ==
    /\ Ready(p, t)
    /\ t \in output[p]
    /\ outcome' = [outcome EXCEPT ![p][t] = "completed"]
    /\ UNCHANGED <<ref, process, ran, output, manifest, zip, deploy>>

Run(p, t) ==
    /\ Ready(p, t)
    /\ t \notin output[p]
    /\ ran' = [ran EXCEPT ![p] = @ \cup {t}]
    /\ \/ /\ outcome' = [outcome EXCEPT ![p][t] = "completed"]
          /\ output' = [output EXCEPT ![p] = @ \cup {t}]
       \/ /\ outcome' = [outcome EXCEPT ![p][t] = "failed"]
          /\ UNCHANGED output
    /\ UNCHANGED <<ref, process, manifest, zip, deploy>>

GenerateManifest ==
    /\ ManifestReady
    /\ \/ manifest' = "completed" /\ zip' = output["hub"]
       \/ manifest' = "failed" /\ UNCHANGED zip
    /\ UNCHANGED <<ref, process, outcome, ran, output, deploy>>

\* Mutants: the build forgets to unpack the zip; it keeps it packed.
StartEmpty(a) ==
    /\ process' = [process EXCEPT ![a] = "running"]
    /\ UNCHANGED output

StartPacked(a) ==
    /\ process' = [process EXCEPT ![a] = "running"]
    /\ output' = [output EXCEPT ![a] = {zip}]

\* The build of the account starts from the outputs of the hub.
StartBuild(a) ==
    /\ process' = [process EXCEPT ![a] = "running"]
    /\ output' = [output EXCEPT ![a] = zip]

\* The task may fail before the build is started, and after it.
RunDeployInSpoke(a) ==
    /\ DeployReady(a)
    /\ \/ deploy' = [deploy EXCEPT ![a] = "completed"] /\ StartBuild(a)
       \/ deploy' = [deploy EXCEPT ![a] = "failed"] /\ StartBuild(a)
       \/ deploy' = [deploy EXCEPT ![a] = "failed"] /\ UNCHANGED <<process, output>>
    /\ UNCHANGED <<ref, outcome, ran, manifest, zip>>

\* Nothing is left that can be executed in the process.
End(p) ==
    /\ process[p] = "running"
    /\ \A t \in Tasks : ~Ready(p, t)
    /\ p = "hub" => ~ManifestReady /\ \A a \in Accounts : ~DeployReady(a)
    /\ process' = [process EXCEPT ![p] = "ended"]
    /\ UNCHANGED <<ref, outcome, ran, output, manifest, zip, deploy>>

\* CodeBuild stops a process, at any time: its timeout passed or somebody asked for it.
Stop(p) ==
    /\ process[p] = "running"
    /\ process' = [process EXCEPT ![p] = "stopped"]
    /\ UNCHANGED <<ref, outcome, ran, output, manifest, zip, deploy>>

-----------------------------------------------------------------------------
Over ==
    /\ process["hub"] \in {"refused", "ended", "stopped"}
    /\ \A a \in Accounts : process[a] # "running"

Ended == Over /\ UNCHANGED vars

Step(p) ==
    \/ \E t \in Tasks : Skip(p, t) \/ Run(p, t)
    \/ p = "hub" /\ (GenerateReference \/ GenerateManifest)
    \/ p = "hub" /\ \E a \in Accounts : RunDeployInSpoke(a)
    \/ End(p)

Next == (\E p \in Processes : Step(p) \/ Stop(p)) \/ Ended

Spec == Init /\ [][Next]_vars

-----------------------------------------------------------------------------
(* Properties. *)

\* The SSM outputs of tasks of the spokes, left to a build, into the account of the hub.
OutputsIntoHub ==
    {t \in Tasks \ Included :
        /\ ref.section[t] = "ssm-outputs"
        /\ ref.account[t] = HubAccount
        /\ \E d \in ref.deps[t] : ref.account[d] # HubAccount}

\* No task is run twice in a run of the framework, neither by the hub and a spoke nor by
\* two spokes: what the hub produced is in the zip.
RunsOnce == \A t \in Tasks : \A p, q \in Processes : t \in ran[p] \cap ran[q] => p = q

\* depends_on is adhered to within an account and within the hub: when a task is run, its
\* dependencies in the same account, and those that the hub runs, have completed. The
\* outputs that no process writes are the exception.
DependenciesFirst ==
    \A p \in Processes : \A t \in ran[p] : \A d \in ref.deps[t] \ OutputsIntoHub :
        ref.account[d] = ref.account[t] \/ d \in Included
            => d \in Completed(p) \cup Completed("hub")

\* A build is started only in an account with tasks that the hub left out, and only
\* when every task of the hub has completed: a failure in the hub keeps the spokes as
\* they are.
SpokesFollowTheHub ==
    \A a \in Accounts :
        process[a] # "none" =>
            /\ a \in DeployedAccounts
            /\ Included \subseteq Completed("hub")

\* Nothing failed and nothing was stopped, in the hub and in the builds.
AllWentWell ==
    /\ Over
    /\ \A p \in Processes : process[p] \in {"none", "ended"}
    /\ \A p \in Processes : \A t \in Tasks : outcome[p][t] # "failed"
    /\ manifest # "failed"
    /\ \A a \in Accounts : deploy[a] # "failed"

\* When all went well, every task of the reference was run by some process, the SSM
\* outputs into the account of the hub aside.
NothingIsForgotten ==
    AllWentWell => \A t \in Tasks \ OutputsIntoHub : \E p \in Processes : t \in ran[p]

\* When all went well, the output of every launch and stack was written to SSM "once the
\* stack has been completed", for the outputs into the account of the hub too.
OutputsAreWritten ==
    AllWentWell => \A t \in OutputsIntoHub : \E p \in Processes : t \in ran[p]
=============================================================================
