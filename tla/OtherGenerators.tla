--------------------------- MODULE OtherGenerators ---------------------------
(***************************************************************************)
(* The tasks that the generators add for the sections without a portfolio: *)
(* stacks, workspaces, the policies of AWS Organizations, organizational   *)
(* units and the policies of Cloud Custodian.                              *)
(***************************************************************************)
EXTENDS TaskTable

\* A task that is made once and that the task of the item waits for.
Needed(table, ref, new, task) == AddDeps(PutNew(table, new, task), ref, {new})

PrepareRef(task) == <<"prepare-account-for-stacks", task.account_id>>

\* One template for all regions of the item: the task is named without one.
TemplateRef(task) == <<"get-template-from-s3", task.section, task.name>>

handle_stacks(table, ref, task) ==
    LET prepared == Needed(table, ref, PrepareRef(task),
            Updated(Task("prepare-account-for-stacks", task.account_id, HomeRegion, {CREATE_POLICIES}),
                    [execution |-> "hub"]))
    IN Needed(prepared, ref, TemplateRef(task),
              Updated(Task("get-template-from-s3", Puppet, task.region, {CREATE_POLICIES}),
                      [execution |-> "hub"]))

handle_workspaces(table, ref, task) ==
    Needed(table, ref, <<"workspace-account-preparation", task.account_id>>,
           Updated(Task("workspace-account-preparation", task.account_id, HomeRegion, {CREATE_POLICIES}),
                   [execution |-> "hub"]))

\* One policy for the item, to be attached by each of its tasks.
PolicySection(task) ==
    IF task.section = "tag-policies" THEN "get-or-create-tag-policies-policy"
    ELSE "get-or-create-service-control-policies-policy"

handle_policies(table, ref, task) ==
    Needed(table, ref, <<PolicySection(task), task.name>>,
           Updated(Task(PolicySection(task), Puppet, task.region, {}),
                   [execution |-> "hub", policy |-> task.name]))

-----------------------------------------------------------------------------
(* handle_organizational_units: the units above one whose parent is not known are *)
(* made by tasks of their own, up to the root, the empty path.                    *)

ParentUnitRef(path, task) == <<"organizational-units">> \o path \o <<task.account_id, task.region>>

UnitTask(task, path) == Updated(task, [path |-> path])

handle_organizational_units(table, ref, task) ==
    LET depth == Len(task.path)
        above == [n \in 1..depth |-> SubSeq(task.path, 1, depth - n)]
        AddUnit(t, n) ==
            LET new == ParentUnitRef(above[n], task)
                child == IF n = 1 THEN ref ELSE ParentUnitRef(above[n - 1], task)
            IN AddDeps(PutNew(t, new, UnitTask(task, above[n])), child, {new})
    IN IF Has(task, "parent_ou_id") THEN table
       ELSE FoldLeft(AddUnit, table, [n \in 1..depth |-> n])

-----------------------------------------------------------------------------
(* handle_c7n_aws_lambdas *)

RoleRef(account) == <<"c7n-create-custodian-role", account>>
HubRef(custodian) == <<"c7n-prepare-hub-account", custodian>>
ForwardRef(account) == <<"c7n-forward-events-for-account", account>>
ForwardRegionRef(account, region) == <<"c7n-forward-events-for-region", account, region>>
PoliciesRef(custodian) == <<"c7n-deploy-policies", custodian>>

Custodian(section, account, region, deps, task) ==
    Updated(Task(section, account, region, deps), [execution |-> task.execution])

\* The role in an account, and the events that it forwards.
WithCustodianIn(table, task, account, home) ==
    LET role == Put(table, RoleRef(account),
                    Custodian("c7n-create-custodian-role", account, home, {}, task))
        forward == Put(role, ForwardRef(account),
                       Custodian("c7n-forward-events-for-account", account, home,
                                 {HubRef(task.custodian)}, task))
    IN IF account = task.custodian /\ task.region = home THEN forward
       ELSE Put(forward, ForwardRegionRef(account, task.region),
                Custodian("c7n-forward-events-for-region", account, task.region,
                          {ForwardRef(account)}, task))

\* The policies are deployed once for each custodian: those of its first item.
WithPolicies(table, task, home) ==
    LET ref == PoliciesRef(task.custodian)
        there == PutNew(table, ref, Updated(
                    Custodian("c7n-deploy-policies", task.custodian, home,
                              {RoleRef(task.custodian), HubRef(task.custodian)}, task),
                    [item |-> task.name, deployments |-> {}]))
    IN Set(there, ref, "deployments",
           there.task[ref].deployments \cup {<<task.region, task.account_id>>})

handle_c7n_aws_lambdas(table, ref, task, accounts) ==
    LET home == AccountOf(accounts, task.custodian).default_region
        hub == Put(table, HubRef(task.custodian),
                   Custodian("c7n-prepare-hub-account", task.custodian, home, {}, task))
        custodian == WithCustodianIn(hub, task, task.custodian, home)
        spoke == WithCustodianIn(custodian, task, task.account_id, home)
    IN Delete(WithPolicies(spoke, task, home), ref)
=============================================================================
