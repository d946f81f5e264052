----------------------------- MODULE ActionTasks -----------------------------
(***************************************************************************)
(* What the other tasks do when they run: parameters and outputs, stacks   *)
(* and launches (of which StackTasks and LaunchTasks have the details),    *)
(* actions, the policies and units of AWS Organizations, workspaces, and   *)
(* the stacks that the tool makes for itself.                              *)
(*                                                                         *)
(* A value is told apart by what has written it: a deployment of the       *)
(* manifest, or whoever was there before.                                  *)
(***************************************************************************)
EXTENDS PortfolioTasks, Parameters, Resources

-----------------------------------------------------------------------------
(* Parameters and outputs. aws.store is the parameter store of every account, aws.content *)
(* what the stack or provisioned product of each item was brought to.                     *)

GetSSMParameter(aws, task) ==
    Done(IF Has(aws.store, task.name)
         THEN [n \in {Tail(Tail(task.name))} |-> aws.store[task.name]] ELSE Empty)

GetSSMParameterByPath(aws, task) ==
    LET below == {s \in DOMAIN aws.store : IsPrefix(task.name, s)} IN
    Done([n \in {Tail(Tail(s)) : s \in below} |->
                aws.store[<<task.account_id, task.region>> \o n]])

\* An object that is not there is an error.
GetS3Object(aws, task) ==
    IF task.name \in DOMAIN aws.objects THEN Done(aws.objects[task.name]) ELSE Raises

\* The stack or the product that is asked for an output is known by the name of its item.
Boto3(aws, task) ==
    LET found == {s \in DOMAIN aws.content :
            s[1] = (IF task.reads[2] = "stack" THEN "stacks" ELSE "launches")
            /\ s[2] = task.reads[3] /\ s[3] = task.account_id /\ s[4] = task.region}
    IN IF found = {} THEN Raises ELSE UNION {Done(aws.content[s]) : s \in found}

SSMOutputs(aws, task) ==
    Does([aws EXCEPT !.store = Updated(@, [n \in {task.name} |-> aws.content[task.generating]])],
         Empty)

TerminateSSMOutputs(aws, task) ==
    Does([aws EXCEPT !.store = Without(@, {task.name})], Empty)

\* What the task of a parameter has for its consumer.
ReadOf(details, task, read) ==
    IF Has(details, "ssm") /\ ~Has(details, "boto3") /\ ~Has(details, "s3")
    THEN Get(read, Filled(details.ssm.name, OfTask, task), "missing") ELSE read

-----------------------------------------------------------------------------
(* Launches and stacks: `values` are those of its parameters, `turn` the deployment. *)

\* get_parameter_values raises for a value that is missing, and when the output that it is
\* in is not that of a dependency.
ReadsOf(parameters, task) ==
    {RunTimeRef(parameters[p], task) : p \in
        {q \in DOMAIN parameters : DOMAIN parameters[q] \cap {"ssm", "boto3", "s3"} # {}}}

ValuesOf(parameters, task, mappings, out) ==
    [p \in DOMAIN parameters |->
        LET details == parameters[p]
            read == IF DOMAIN details \cap {"ssm", "boto3", "s3"} = {} THEN "missing"
                    ELSE ReadOf(details, task, out[RunTimeRef(details, task)])
        IN ValueOf(details, task, mappings, read)]

ParametersRaise(values) == \E p \in DOMAIN values : values[p] = "missing"

Bring(aws, task, content) ==
    Does([aws EXCEPT !.content = Updated(@, [i \in {RefOf(task)} |-> content])], Empty)

ProvisionStack(aws, task, values, turn) ==
    IF ParametersRaise(values) THEN Raises ELSE Bring(aws, task, turn)

ProvisionProduct(aws, out, task, values, turn) ==
    IF ParametersRaise(values) \/ task.product \notin DOMAIN out[task.products_ref] THEN Raises
    ELSE Bring(aws, task, turn)

TerminateItem(aws, task) ==
    Does([aws EXCEPT !.content = Without(@, {RefOf(task)})], Empty)

\* The role of the hub has to see the product.
DescribeProvisioningParameters(aws, task) ==
    IF \E id \in aws.portfolios :
          /\ <<id, Puppet>> \in aws.principals
          /\ id[2] = task.region /\ id[3] = task.portfolio
          /\ task.product \in DOMAIN Products(aws, id)
    THEN Done(Empty) ELSE Raises

-----------------------------------------------------------------------------
(* Actions may fail; a build of a workspace may too, but the task does not look. *)

ActionSections == {"lambda-invocations", "code-build-runs", "assertions", "simulate-policies"}

RunAction(task, values) ==
    IF ParametersRaise(values) THEN Raises ELSE Done(Empty) \cup Raises

ProvisionWorkspace(aws, task, values, turn) ==
    IF ParametersRaise(values) THEN Raises ELSE Bring(aws, task, turn) \cup Done(Empty)

TerminateWorkspace(aws, task, values) ==
    IF ParametersRaise(values) THEN Raises ELSE TerminateItem(aws, task) \cup Done(Empty)

-----------------------------------------------------------------------------
(* AWS Organizations *)

GetOrCreatePolicy(aws, task) ==
    LET policy == <<task.section, task.policy>> IN
    IF policy \in aws.policies THEN Done(policy)
    ELSE Does([aws EXCEPT !.policies = @ \cup {policy}], policy)

\* An account, or a unit when there is none.
PolicyTarget(task) == IF task.account_id # "" THEN task.account_id ELSE task.ou_name

AttachPolicy(aws, task) ==
    LET attachment == <<task.section, task.name, PolicyTarget(task)>> IN
    IF attachment \in aws.attachments THEN Done(Empty)
    ELSE Does([aws EXCEPT !.attachments = @ \cup {attachment}], Empty)

\* The path of a unit stands for its output, the ids on the way to it. Without a task of the
\* unit above, its output cannot be had: so it is when the parent is known already.
GetOrCreateOrganizationalUnit(aws, task) ==
    IF task.path = <<>> THEN Done(task.path)
    ELSE IF Has(task, "parent_ou_id") THEN Raises
    ELSE IF task.path \in aws.units THEN Done(task.path)
    ELSE Does([aws EXCEPT !.units = @ \cup {task.path}], task.path)

-----------------------------------------------------------------------------
(* Stacks of the tool itself *)

MakerSections == StackMakers \cup {"c7n-forward-events-for-region"}

ToolSections ==
    MakerSections \cup {"terminate-cloudformation-stack", "c7n-deploy-policies",
                        "get-template-from-s3", "apps"}

RunToolTask(aws, task) ==
    CASE task.section \in MakerSections ->
            Does(SetStack(aws, task, <<task.section>>, {}), Empty)
      [] task.section = "terminate-cloudformation-stack" ->
            Does(DeleteStack(aws, task, task.stack_name), Empty)
      [] task.section = "c7n-deploy-policies" -> Done(Empty) \cup Raises
      [] task.section \in {"get-template-from-s3", "apps"} -> Done(Empty)

-----------------------------------------------------------------------------
(* task_factory.create, for the tasks that are not of portfolios *)

ParameterSections ==
    {"ssm_parameters", "ssm_parameters_with_a_path", "s3_get_object", "boto3_parameters",
     "ssm_outputs", "describe-provisioning-parameters"}

RunParameterTask(aws, task) ==
    CASE task.section = "ssm_parameters" -> GetSSMParameter(aws, task)
      [] task.section = "ssm_parameters_with_a_path" -> GetSSMParameterByPath(aws, task)
      [] task.section = "s3_get_object" -> GetS3Object(aws, task)
      [] task.section = "boto3_parameters" -> Boto3(aws, task)
      [] task.section = "describe-provisioning-parameters" ->
            DescribeProvisioningParameters(aws, task)
      [] OTHER -> IF task.status = "terminated" THEN TerminateSSMOutputs(aws, task)
                  ELSE SSMOutputs(aws, task)

OrganisationSections ==
    {"service-control-policies", "tag-policies", "get-or-create-service-control-policies-policy",
     "get-or-create-tag-policies-policy", "organizational-units"}

RunOrganisationTask(aws, task) ==
    CASE task.section \in {"service-control-policies", "tag-policies"} -> AttachPolicy(aws, task)
      [] task.section = "organizational-units" -> GetOrCreateOrganizationalUnit(aws, task)
      [] OTHER -> GetOrCreatePolicy(aws, task)

\* The items that take parameters.
ItemSections == {"stacks", "launches", "workspaces"} \cup ActionSections

RunItem(aws, out, task, values, turn) ==
    IF task.section \in {"stacks", "launches"} /\ task.status = "terminated"
    THEN TerminateItem(aws, task)
    ELSE IF task.section = "stacks" THEN ProvisionStack(aws, task, values, turn)
    ELSE IF task.section = "launches" THEN ProvisionProduct(aws, out, task, values, turn)
    ELSE IF task.section \in ActionSections THEN RunAction(task, values)
    ELSE IF task.status = "terminated" THEN TerminateWorkspace(aws, task, values)
    ELSE ProvisionWorkspace(aws, task, values, turn)

\* A task that cannot be made: no class takes the section, or the class of the terminated
\* policy does not take all it is given. That raises in the worker, outside of the task.
MadeSections ==
    PortfolioSections \cup ParameterSections \cup OrganisationSections \cup ItemSections
    \cup ToolSections

FactoryRaises(task) ==
    \/ task.section \notin MadeSections
    \/ task.section = "service-control-policies" /\ task.status = "terminated"
=============================================================================
