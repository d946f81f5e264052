------------------------------ MODULE Deployment ------------------------------
(***************************************************************************)
(* Deployments of a manifest, one after the other: the manifest is         *)
(* expanded, its task reference is generated, and the tasks are run as     *)
(* RunContract promises.  A task of one AWS account after the other is at  *)
(* work; what it changes is there for the next deployment, its output is   *)
(* not.  A call of AWS may fail, and the process may be stopped, in the    *)
(* middle of a task.                                                       *)
(***************************************************************************)
EXTENDS TaskReference, ActionTasks

CONSTANTS
    Requests,   \* the deployments by name: a record of the manifest, the files beside it
                \* and the options of expand
    Plans,      \* what is tried: a sequence of names, and how many of the deployments may
                \* meet a fault
    Accounts,   \* what is in the AWS accounts before the first
    Workers     \* how many tasks run at the same time

ASSUME WorkersAssumption == Workers \in Nat \ {0}

ASSUME PlansAssumption ==
    \A p \in Plans : /\ p.requests \in Seq(DOMAIN Requests) /\ p.requests # <<>>
                     /\ p.faults \in Nat

\* Nobody has made two portfolios of one name before, and the stacks and products that are there
\* are those of items.
ASSUME AccountsAssumption ==
    /\ {"portfolios", "content", "store", "attachments"} \subseteq DOMAIN Accounts
    /\ \A id, other \in Accounts.portfolios :
          (\A i \in 1..3 : id[i] = other[i]) => id = other
    /\ \A ref \in DOMAIN Accounts.content : ref = <<ref[1], ref[2], ref[3], ref[4]>>

VARIABLES
    plan,       \* the deployments that are made
    turn,       \* the one of them that is under way
    stage,      \* how far it is
    order,      \* in which order its files were listed
    manifest,   \* its expanded manifest, as it was written
    tasks,      \* its task reference: each task, with resources_required, by its reference
    refusal,    \* why there is no task reference
    status,     \* of each of its tasks
    found,      \* the portfolios that a running task found when it looked
    out,        \* the outputs of its tasks
    aws,        \* what is in the accounts
    faults      \* the deployments that have met one

vars == <<plan, turn, stage, order, manifest, tasks, refusal, status, found, out, aws, faults>>
files == <<order, manifest, tasks, refusal>>

Request == Requests[plan.requests[turn]]

\* What a deployment writes tells which one it was.
Mark == <<"first", "second", "third">>[turn]

InStatus(s) == {t \in DOMAIN status : status[t] = s}
Running == InStatus("running")
Lost == InStatus("lost")

-----------------------------------------------------------------------------
(* The run of a task *)

MergedParameters(task) ==
    Merged(Merged(manifest.parameters,
                  Get((CHOOSE i \in ToSet(manifest.items) : Key(i) = ItemKey(task)),
                      "parameters", Empty)),
           ParametersForAccount(manifest.accounts, task.account_id))

TakesParameters(task) ==
    /\ task.section \in ItemSections \ {"assertions", "simulate-policies"}
    /\ ~(task.section \in {"stacks", "launches"} /\ task.status = "terminated")

ParametersOf(task) == IF TakesParameters(task) THEN MergedParameters(task) ELSE Empty

\* The tasks whose outputs it reads: those that find and prepare a portfolio, and those that
\* read its parameters.
PortfolioReads(task) ==
    {task[k] : k \in DOMAIN task \cap References}
    \cup (IF task.section = "spoke-local-portfolios" /\ task.status # "terminated"
             /\ task.account_id # Puppet THEN {LocalRef(Puppet, task)} ELSE {})

Reads(task) == PortfolioReads(task) \cup ReadsOf(ParametersOf(task), task)

\* get_output_from_reference_dependency makes the tasks of all dependencies first.
CanRead(task) ==
    Reads(task) # {} => Reads(task) \subseteq task.deps /\ task.deps \subseteq DOMAIN tasks

Run(t) ==
    LET task == tasks[t]
        values == ValuesOf(ParametersOf(task), task, manifest.mappings, out)
    IN IF ~CanRead(task) THEN Raises
       ELSE IF task.section \in PortfolioSections THEN RunPortfolioTask(aws, out, found[t], task)
       ELSE IF task.section \in ParameterSections THEN RunParameterTask(aws, task)
       ELSE IF task.section \in OrganisationSections THEN RunOrganisationTask(aws, task)
       ELSE IF task.section \in ItemSections THEN RunItem(aws, out, task, values, Mark)
       ELSE RunToolTask(aws, task)

-----------------------------------------------------------------------------
Init ==
    /\ plan \in Plans
    /\ turn = 1
    /\ stage = "expanding"
    /\ order = <<>> /\ manifest = Empty /\ tasks = Empty /\ refusal = ""
    /\ status = Empty /\ found = Empty /\ out = Empty
    /\ aws = Accounts
    /\ faults = {}

\* Its options, with the order in which its files are listed.
OptionsIn(request, listed) == Updated(request.options, [order |-> listed])

\* What is expanded is a manifest, in whichever order its files are listed.
ASSUME ManifestsAssumption ==
    \A name \in DOMAIN Requests : \A listed \in FileOrders(Requests[name].files) :
        LET options == OptionsIn(Requests[name], listed) IN
        ~ExpansionsFail(Requests[name].manifest, options)
            => \A expanded \in Expansions(Requests[name].manifest, options) : IsManifest(expanded)

\* deploy_from_task_reference. For a single account the hub runs the tasks of that account and
\* its own.
TasksToRun ==
    IF ~Has(Request.options, "single_account") THEN DOMAIN tasks'
    ELSE LET own == {Puppet, Request.options.single_account} IN
         {t \in DOMAIN tasks' \ {CREATE_POLICIES} :
            /\ tasks'[t].account_id \in own \cup {""}
            /\ tasks'[t].section = "ssm_outputs" => tasks'[t].generating[3] \in own}

\* The table is written, or generating it raised.
Write(table) == tasks' = table.task /\ refusal' = table.raised

\* The expand, explode and generate-task-reference commands. Each may raise.
Generate ==
    /\ stage = "expanding"
    /\ \E listed \in FileOrders(Request.files) :
        /\ order' = listed
        /\ LET options == OptionsIn(Request, listed) IN
           IF ExpansionsFail(Request.manifest, options)
           THEN manifest' = Empty /\ tasks' = Empty /\ refusal' = "not expanded"
           ELSE \E expanded \in Expansions(Request.manifest, options) :
                   manifest' = expanded /\ Write(generate(expanded))
    /\ stage' = IF refusal' = "" THEN "deploying" ELSE "refused"
    /\ status' = [t \in TasksToRun |-> "pending"]
    /\ UNCHANGED <<plan, turn, found, out, aws, faults>>

\* Mutant: there is another worker for each that is lost.
LostWorkersAreReplaced(t) ==
    /\ status[t] = "pending"
    /\ \A d \in tasks[t].deps \cap DOMAIN status : status[d] = "completed"
    /\ \A u \in Running \cup Lost : tasks[t].resources_required \cap tasks[u].resources_required = {}
    /\ Cardinality(Running) < Workers

\* What the task engine promises. A dependency that is not among the tasks is not waited for.
MayBegin(t) ==
    /\ status[t] = "pending"
    /\ \A d \in tasks[t].deps \cap DOMAIN status : status[d] = "completed"
    /\ \A u \in Running \cup Lost : tasks[t].resources_required \cap tasks[u].resources_required = {}
    /\ Cardinality(Running \cup Lost) < Workers

\* A task that creates a portfolio looks for it first.
LooksFor(task) ==
    IF task.section = "spoke-local-portfolios"
    THEN Named(aws, task.account_id, task.region, task.portfolio) ELSE {}

\* A worker that cannot make its task ends, and what it has locked stays locked.
Begin(t) ==
    /\ stage = "deploying"
    /\ MayBegin(t)
    /\ status' = [status EXCEPT ![t] = IF FactoryRaises(tasks[t]) THEN "lost" ELSE "running"]
    /\ found' = Updated(found, [u \in {t} |-> LooksFor(tasks[t])])
    /\ UNCHANGED <<plan, turn, stage, files, out, aws, faults>>

\* After the first n calls of a result.
AwsAfter(result, n) == IF n = 0 THEN aws ELSE result.steps[n]

Leave(t, result, n, becomes) ==
    /\ aws' = AwsAfter(result, n)
    /\ status' = [status EXCEPT ![t] = becomes]
    /\ found' = Without(found, {t})

End(t) ==
    /\ t \in Running
    /\ stage = "deploying"
    /\ \E result \in Run(t) :
          /\ Leave(t, result, Len(result.steps), IF result.raised THEN "failed" ELSE "completed")
          /\ out' = IF result.raised THEN out
                    ELSE Updated(out, [u \in {t} |-> result.output])
    /\ UNCHANGED <<plan, turn, stage, files, faults>>

MayFault == turn \notin faults /\ Cardinality(faults) < plan.faults

\* A call fails, or the process is being stopped.
Interrupt(t) ==
    /\ t \in Running
    /\ \/ stage = "stopping" /\ UNCHANGED faults
       \/ stage = "deploying" /\ MayFault /\ faults' = faults \cup {turn}
    /\ \E result \in Run(t) : \E n \in 0..Len(result.steps) : Leave(t, result, n, "failed")
    /\ UNCHANGED <<plan, turn, stage, files, out>>

\* A deployment that has lost a worker does not end by itself.
Stop ==
    /\ stage = "deploying"
    /\ \/ Lost # {} /\ UNCHANGED faults
       \/ MayFault /\ faults' = faults \cup {turn}
    /\ stage' = "stopping"
    /\ UNCHANGED <<plan, turn, files, status, found, out, aws>>

Over ==
    /\ Running = {}
    /\ \/ stage = "stopping"
       \/ stage = "deploying" /\ Lost = {} /\ \A t \in DOMAIN status : ~MayBegin(t)
    /\ stage' = "over"
    /\ UNCHANGED <<plan, turn, files, status, found, out, aws, faults>>

NextDeployment ==
    /\ stage \in {"over", "refused"}
    /\ turn < Len(plan.requests)
    /\ turn' = turn + 1
    /\ stage' = "expanding"
    /\ order' = <<>> /\ manifest' = Empty /\ tasks' = Empty /\ refusal' = ""
    /\ status' = Empty /\ found' = Empty /\ out' = Empty
    /\ UNCHANGED <<plan, aws, faults>>

Terminating ==
    /\ stage \in {"over", "refused"}
    /\ turn = Len(plan.requests)
    /\ UNCHANGED vars

Next ==
    \/ Generate \/ Stop \/ Over \/ NextDeployment \/ Terminating
    \/ \E t \in DOMAIN status : Begin(t) \/ End(t) \/ Interrupt(t)

Spec == Init /\ [][Next]_vars

-----------------------------------------------------------------------------
(* Properties *)

\* Every variable has its type: a deployment that is refused says why, the outputs are those
\* of the tasks that completed, and workers that are lost are not replaced.
TypeOK ==
    /\ plan \in Plans /\ turn \in DOMAIN plan.requests /\ faults \subseteq 1..turn
    /\ stage \in {"expanding", "refused", "deploying", "stopping", "over"}
    /\ (stage = "refused") <=> (refusal # "")
    /\ DOMAIN status \subseteq DOMAIN tasks /\ DOMAIN found = Running \cup Lost
    /\ \A t \in DOMAIN status : status[t] \in {"pending", "running", "completed", "failed", "lost"}
    /\ DOMAIN out = InStatus("completed")
    /\ Cardinality(Running \cup Lost) <= Workers

-----------------------------------------------------------------------------
(* What the manifest asks for, said without the steps of its expansion. *)

\* Without a role for AWS Organizations the accounts are those that are listed, as they are.
NoRole == Has(Request.options, "no_org_role")

\* The entries that list an account, by its id or by a unit that it is in and that the entry
\* does not leave out, and what they say: the last of them that says something of it, the
\* defaults being part of each.
Lists(entry, a) ==
    LET exclude == Get(entry, "exclude", Empty) IN
    \/ Get(entry, "account_id", "") = a
    \/ /\ Has(entry, "ou") /\ a \in Organization.within[entry.ou] \cap Organization.active
       /\ a \notin Get(exclude, "accounts", {})
       /\ \A ou \in Get(exclude, "ous", {}) : a \notin Organization.within[ou]

WithDefaults(entry) == IF NoRole THEN entry ELSE Updated(Request.manifest.defaults, entry)

Said(a) ==
    LET listed == Request.manifest.accounts
        says == [n \in {m \in DOMAIN listed : Lists(listed[m], a)} |-> WithDefaults(listed[n])]
    IN [key \in UNION {DOMAIN says[n] : n \in DOMAIN says} |->
            LET saying == {n \in DOMAIN says : Has(says[n], key)}
            IN says[CHOOSE n \in saying : \A m \in saying : m <= n][key]]

\* What is to be applied to the settings of an account.
OnTop == {"append", "overwrite", "organizations_account_tags", "external_account_overrides"}

AccountsListed ==
    {a \in DOMAIN Organization.tags :
        /\ \E entry \in ToSet(Request.manifest.accounts) : Lists(entry, a)
        /\ NoRole \/ a \in Organization.active}

AccountsAsked ==
    LET own == {a \in AccountsListed : Get(Request.options, "single_account", "") = a}
    IN IF own = {} THEN AccountsListed ELSE own

\* An overwrite is followed to the letter; else what the account and its organization say is
\* appended to. The default region may be that of a parameter, if there is one.
TagsAsked(a, said, overwrite, append) ==
    LET organization == Get(said, "organizations_account_tags", "ignored") IN
    IF Has(overwrite, "tags") THEN overwrite.tags
    ELSE (IF organization = "honour" THEN {} ELSE Get(said, "tags", {}))
         \cup (IF organization = "ignored" THEN {} ELSE Organization.tags[a])
         \cup Get(append, "tags", {})

RegionsEnabled(said, overwrite, append) ==
    IF Has(overwrite, "regions_enabled") THEN ToSet(overwrite.regions_enabled)
    ELSE ToSet(Get(said, "regions_enabled", <<>>)) \cup ToSet(Get(append, "regions_enabled", <<>>))

TakenFromSSM(said, key) ==
    Get(Get(said, "external_account_overrides", Empty), key, [source |-> "none"]).source = "ssm"

DefaultRegion(a, said, overwrite) ==
    LET parameters == Get(Organization.overrides, a, Empty) IN
    IF Has(overwrite, "default_region") THEN overwrite.default_region
    ELSE IF TakenFromSSM(said, "default_region") /\ Has(parameters, "default_region")
    THEN parameters.default_region
    ELSE Get(said, "default_region", "")

\* The tags of an account, and the regions of each word for them.
AsAsked(a) ==
    LET said == IF NoRole THEN Without(Said(a), OnTop) ELSE Said(a)
        overwrite == Get(said, "overwrite", Empty)
        append == IF overwrite = Empty THEN Get(said, "append", Empty) ELSE Empty
    IN [tags |-> TagsAsked(a, said, overwrite, append),
        regions |-> [enabled |-> RegionsEnabled(said, overwrite, append),
                     default_region |-> {DefaultRegion(a, said, overwrite)},
                     home_region |-> {HomeRegion},
                     all |-> ToSet(Regions)]]

AskedOfAccounts == [a \in AccountsAsked |-> AsAsked(a)]

RegionsOf(target, account) ==
    IF target.regions = "listed" THEN ToSet(target.list) ELSE account.regions[target.regions]

\* The targets of an item that an account is reached by, and where they are all together.
TargetsAt(item, a, account) ==
    {target \in ToSet(Targets(item, "tags")) : target.tag \in account.tags}
    \cup {target \in ToSet(Targets(item, "accounts")) : target.account_id = a}

AskedFor(item, asked) ==
    UNION {{a} \X UNION {RegionsOf(target, asked[a]) : target \in TargetsAt(item, a, asked[a])} :
              a \in DOMAIN asked}

TasksOf(item) == {t \in DOMAIN tasks : tasks[t].section = item.section /\ tasks[t].name = item.name}


-----------------------------------------------------------------------------
(* The order of the tasks *)

\* Who is reached from whom, in one step or more.
OneStep(edges, from) == {e[2] : e \in {f \in edges : f[1] \in from}}
Beyond(edges, from) == Reached(edges, OneStep(edges, {from}))

SourcesOf(item) ==
    LET parameters == Get(item, "parameters", Empty) IN
    UNION {{<<kind, parameters[p][kind]>> : kind \in DOMAIN parameters[p] \cap
                {"ssm", "s3", "cloudformation_stack_output"}} : p \in DOMAIN parameters}

\* A parameter is read once for all its consumers, and after what each of them depends on.
\* That cannot be done for two of which one depends on the other, if the object is one of S3
\* or there is an item between the two.
ReadsTooEarly(edges) ==
    \E i, j \in ToSet(manifest.items) :
        /\ Key(i) \in Beyond(edges, Key(j))
        /\ \E source \in SourcesOf(i) \cap SourcesOf(j) :
              \/ source[1] = "s3"
              \/ \E k \in Beyond(edges, Key(j)) : Key(i) \in Beyond(edges, k)

-----------------------------------------------------------------------------
(* Why there is no task reference: for each reason, what the manifest and the options have *)
(* to say.                                                                                 *)

KeysOf(items) == {Key(item) : item \in items}
SectionFiles == {file \in Request.files : file.dir # "manifests"}
AllItems == ToSet(Request.manifest.items) \cup UNION {ToSet(file.items) : file \in Request.files}

\* A file of a section declares what is declared elsewhere; the explode command loads those files
\* once more (commands/manifest.py:166).
DeclaredTwice ==
    \E file \in SectionFiles : file.items # <<>> /\
        \/ Has(Request.options, "explode")
        \/ \E other \in {Request.manifest} \cup (SectionFiles \ {file}) :
              KeysOf(ToSet(file.items)) \cap KeysOf(ToSet(other.items)) # {}

\* An account that is not active, that a later entry has again without amending it, or amends
\* and sets at once; one that is to take its regions from parameters that are not there.
NoParametersFor(a, said) ==
    LET external == Get(said, "external_account_overrides", Empty) IN
    /\ Has(external, "default_region")
    /\ \/ ~Has(external, "enabled_regions")
       \/ \E key \in DOMAIN external :
            /\ TakenFromSSM(said, key) /\ ~Has(Get(Organization.overrides, a, Empty), key)
            /\ Get(external[key], "fail_if_missing", TRUE)

AccountsInDoubt ==
    LET listed == [n \in DOMAIN Request.manifest.accounts |-> WithDefaults(Request.manifest.accounts[n])]
        accounts == AccountsListed
    IN  /\ ~NoRole
        /\ \/ \E entry \in ToSet(listed) :
                \/ Has(entry, "account_id") /\ entry.account_id \notin Organization.active
                \/ Amends(entry) /\ DOMAIN entry \cap {"default_region", "regions_enabled", "tags"} # {}
           \/ \E a \in accounts : \E n \in DOMAIN listed : \E m \in 1..(n - 1) :
                ~Amends(listed[n]) /\ Lists(listed[m], a) /\ Lists(listed[n], a)
           \/ \E a \in accounts : NoParametersFor(a, Said(a))

\* A customization of Control Tower that is of another version, does what it cannot, names an
\* account that is not listed, or declares what there is.
Declares(resource) ==
    <<IF resource.deploy_method = "scp" THEN "service-control-policies" ELSE "stacks", resource.name>>

TowerInDoubt ==
    LET resources == CfctResources(Request.manifest) IN
    \/ \E instance \in ToSet(Request.manifest.cfct) : instance.version # "2021-03-15"
    \/ \E resource \in ToSet(resources) :
          \/ resource.deploy_method \notin {"stack_set", "scp"}
          \/ Declares(resource) \in KeysOf(AllItems)
          \/ \E a \in ToSet(resource.accounts) :
                a.by = "name" /\ \A b \in AccountsAsked : Get(Said(b), "name", "") # a.is
    \/ ~IsInjective([n \in DOMAIN resources |-> Declares(resources[n])])

\* What is not among the accounts of an item when they are cut down to one: then it goes.
OfOtherAccounts(item) ==
    /\ Has(Request.options, "single_account") /\ item.section \in ALL_SECTION_NAMES
    /\ Targets(item, "tags") = <<>> /\ Targets(item, "ous") = <<>>
    /\ \A target \in ToSet(Targets(item, "accounts")) :
          target.account_id # Request.options.single_account

Declared == {item \in AllItems : ~OfOtherAccounts(item)}

\* The parts of a manifest cannot be put together around something that is not in it.
PartsInDoubt ==
    \/ Has(Request.options, "subset") /\ Request.options.subset.item \notin KeysOf(Declared)
    \/ /\ Has(Request.options, "subset") \/ Has(Request.options, "explode")
       /\ \E item \in Declared : \E d \in ToSet(Get(item, "depends_on", <<>>)) :
             <<SectionOf(Get(d, "type", "launch")), d.name>> \notin KeysOf(Declared)

\* A section that cannot be deployed to such a target, an account that is not listed or has no
\* tags, or regions that are none.
TargetsInDoubt(item, asked) ==
    \/ /\ Targets(item, "tags") # <<>>
       /\ item.section = "organizational-units" \/ \E a \in DOMAIN asked : asked[a].tags = {}
    \/ \E target \in ToSet(Targets(item, "accounts")) :
          item.section \in {"apps", "workspaces"} \/ target.account_id \notin DOMAIN asked
    \/ Targets(item, "ous") # <<>> /\ item.section \notin {"service-control-policies", "tag-policies"}
    \/ \E kind \in {"tags", "accounts"} : \E target \in ToSet(Targets(item, kind)) :
          target.regions \notin RegionWords \cup {"listed"}

Places(item, asked) ==
    AskedFor(item, asked) \cup IF Targets(item, "ous") = <<>> THEN {} ELSE {<<"", HomeRegion>>}

At(place) == [account_id |-> place[1], region |-> place[2]]

\* Two outputs go to one parameter: those of two items or accounts, or one of an item that is
\* deployed to one place twice.
ReachesTwice(item, asked) ==
    \/ \E kind \in {"tags", "accounts"} : \E target \in ToSet(Targets(item, kind)) :
          target.regions = "listed" /\ ~IsInjective(target.list)
    \/ \E account \in ToSet(manifest.accounts) : ~IsInjective(account.regions_enabled)
    \/ \E a \in DOMAIN asked : \E target, other \in TargetsAt(item, a, asked[a]) :
          target # other /\ RegionsOf(target, asked[a]) \cap RegionsOf(other, asked[a]) # {}

OutputsInDoubt(asked) ==
    \/ \E item \in ToSet(manifest.items) : Get(item, "outputs", {}) # {} /\ ReachesTwice(item, asked)
    \/ LET written == UNION {{Key(item)} \X Get(item, "outputs", {}) \X Places(item, asked) :
                                item \in ToSet(manifest.items)} IN
       \E v, w \in written : v # w /\ OutputRef(v[2], At(v[3])) = OutputRef(w[2], At(w[3]))

\* The sources of the parameters of an item, those that it shares with all others too.
DetailsOf(item) ==
    LET levels == {manifest.parameters, Get(item, "parameters", Empty)}
                    \cup {Get(a, "parameters", Empty) : a \in ToSet(manifest.accounts)}
    IN UNION {{level[p] : p \in DOMAIN level} : level \in levels}

IsElsewhere(details, place) ==
    Has(details, "ssm") /\ Get(details.ssm, "account_id", Puppet)
        \notin {AccountId, PuppetAccountId, Puppet, place[1]}

\* Two items with one portfolio want its constraints made in two ways.
ConstraintsDiffer(i, j, asked) ==
    LET of(item, kind) == Get(Get(item, "constraints", Empty), kind, Empty) IN
    /\ i # j /\ {i.section, j.section} = {"spoke-local-portfolios"} /\ i.portfolio = j.portfolio
    /\ AskedFor(i, asked) \cap AskedFor(j, asked) # {}
    /\ \/ /\ \E kind \in {"launch", "resource_update"} :
                \A item \in {i, j} : Has(Get(item, "constraints", Empty), kind)
          /\ Get(i, "execution", "hub") # Get(j, "execution", "hub")
       \/ \E pattern \in DOMAIN of(i, "resource_update") \cap DOMAIN of(j, "resource_update") :
             of(i, "resource_update")[pattern] # of(j, "resource_update")[pattern]

\* What an item depends on is not in the manifest, or was left in another part of it, or in none.
LeftOut(item, key) ==
    \/ key \notin KeysOf(Declared)
    \/ Has(Request.options, "explode") /\ item.section \notin MinimalSections
    \/ /\ Has(Request.options, "subset")
       /\ item.section \notin MinimalSections \/ ~Request.options.subset.include_dependencies

\* Or it is not deployed anywhere near: where the affinity of the dependency has it looked for.
Near(affinity, type, here, there) ==
    CASE affinity = type -> TRUE
      [] affinity = "region" -> here[2] = there[2]
      [] affinity = "account" -> here[1] = there[1]
      [] affinity = "account-and-region" -> here = there

NotDeployed(item, d, asked) ==
    LET key == <<SectionOf(d.type), d.name>>
        others == {other \in ToSet(manifest.items) : Key(other) = key}
    IN IF others = {} THEN LeftOut(item, key)
       ELSE \E here \in Places(item, asked) :
               \A there \in UNION {Places(other, asked) : other \in others} :
               ~Near(d.affinity, d.type, here, there)

DependsOn(item, sections) ==
    \E d \in ToSet(Get(item, "depends_on", <<>>)) : SectionOf(d.type) \in sections

\* The items of these sections have no task of their own, in the spokes or anywhere.
Taskless == {"imported-portfolios", "c7n-aws-lambdas"}

RefusedFor(why, item, asked) ==
    CASE why = "targets" -> TargetsInDoubt(item, asked)
      [] why = "not supported" ->
            Get(item, "status", "") = "terminated" /\ item.section \in {"tag-policies", "apps"}
      [] why = "unknown section" ->
            Get(item, "outputs", {}) # {} /\ item.section \notin {"launches", "stacks"}
      [] why = "parameter of another account" ->
            \E details \in DetailsOf(item) : \E place \in Places(item, asked) : IsElsewhere(details, place)
      [] why = "plain boto3 parameter" ->
            \E details \in DetailsOf(item) : Has(details, "boto3") /\ DOMAIN details \cap OutputKinds = {}
      [] why = "no unit" ->
            /\ Get(item, "sharing_mode", "ACCOUNT") = "AWS_ORGANIZATIONS"
            /\ \E target \in ToSet(Targets(item, "accounts")) :
                  target.account_id # Puppet \/ item.section = "imported-portfolios"
      [] why = "dependencies are not set" ->
            /\ item.section = "imported-portfolios" /\ Get(item, "status", "") = "terminated"
            /\ Get(item, "was_a_spoke_local_portfolio", FALSE)
      [] why = "constraints of another item" ->
            \E other \in ToSet(manifest.items) : ConstraintsDiffer(item, other, asked)
      [] why = "not deployed" ->
            \E d \in ToSet(Get(item, "depends_on", <<>>)) : NotDeployed(item, d, asked)
      [] why = "dependency without a task" ->
            /\ DependsOn(item, Taskless)
            /\ \E details \in DetailsOf(item) : DOMAIN details \cap {"ssm", "boto3", "s3"} # {}
      [] why = "not listed" -> DependsOn(item, Taskless)
      [] why = "cyclic" -> Key(item) \in Beyond(Edges(manifest), Key(item))
      [] OTHER -> FALSE

\* A deployment is refused only for what its manifest and its options say, whatever order its
\* items are gone through in and whoever of them comes first: for the declarations, accounts and
\* parts that cannot be expanded, for two outputs in one place, and else for something that one
\* item of the expanded manifest asks for. A task reference is cyclic only if the items depend on
\* each other in a cycle or read a parameter before and after what it may be made by: the
\* dependencies that the third pass adds are taken out again where they would close a cycle. A
\* dependency is not deployed if it is left out of the manifest or the part of it (complete_
\* generator.py:287, commands/manifest.py:112), or has no task where its affinity looks for one
\* (complete_generator.py:234-280).
RefusalsAreTheManifests ==
    stage = "refused" =>
        LET asked == AskedOfAccounts IN
        \/ refusal = "not expanded" /\ (DeclaredTwice \/ AccountsInDoubt \/ TowerInDoubt \/ PartsInDoubt)
        \/ refusal = "duplicate output" /\ OutputsInDoubt(asked)
        \/ refusal = "cyclic" /\ ReadsTooEarly(Edges(manifest))
        \/ \E item \in ToSet(manifest.items) : RefusedFor(refusal, item, asked)

\* The tasks that read parameters for the consumer t, and those of the outputs that d writes.
ReadFor(t, kind) ==
    LET read == Get(tasks[t], kind, Empty) IN {read[p] : p \in DOMAIN read} \cap DOMAIN status

WrittenBy(d) ==
    {o \in Get(tasks[d], "ssm_outputs", {}) \cap DOMAIN status :
        tasks[o].generating = d /\ "terminated" \notin {tasks[d].status, tasks[o].status}}

\* The stack or the launch whose output a boto3 parameter is.
SourceOf(r) ==
    <<IF tasks[r].reads[2] = "stack" THEN "stacks" ELSE "launches",
      tasks[r].reads[3], tasks[r].account_id, tasks[r].region>>

\* An SSM parameter or the output of a stack or launch that an item reads, and that something it
\* depends on makes in the same deployment, is read after it was made: the task that reads it has
\* no dependency of its own and may be shared with items that do not wait. Not so the output of a
\* stack that reads it itself: the third pass takes the stack out of what the shared task waits
\* for (complete_generator.py:330), and who comes after the stack gets the old value too.
ParametersAreFresh ==
    \A t \in InStatus("completed") : \A d \in tasks[t].deps \cap DOMAIN status :
        /\ \A r \in ReadFor(t, "ssm_parameters") : \A o \in WrittenBy(d) :
              r = ParameterOf(o) => Mark \in {out[r][n] : n \in DOMAIN out[r]}
        /\ \A r \in ReadFor(t, "boto3_parameters") \ ReadFor(d, "boto3_parameters") :
              d = SourceOf(r) => out[r] = Mark

-----------------------------------------------------------------------------
(* What the deployment leaves in the accounts *)

\* Two items may ask for the same portfolio in the same account: one of them creates it and
\* the other finds it (ensure_portfolio of aws.py looks first and then creates).
OnePortfolioPerName ==
    \A id, other \in aws.portfolios : SubSeq(id, 1, 3) = SubSeq(other, 1, 3) => id = other

HubPortfolio(task) == <<Puppet, task.region, task.portfolio, 1>>
HubProducts(task) == Products(Accounts, HubPortfolio(task))

\* The sources of a task without which it is to fail: a parameter that is nowhere and that
\* nothing it depends on writes, an object or a stack that is not there. A stack output for
\* which the manifest gives no region is looked for in one that is none.
HasNoSource(task) ==
    \/ \E p \in DOMAIN Get(task, "ssm_parameters", Empty) :
          LET read == task.ssm_parameters[p] IN
          /\ Tail(read) \notin DOMAIN Accounts.store
          /\ \A d \in task.deps \cap DOMAIN tasks : tasks[d].section # "ssm_outputs" \/ Tail(d) # Tail(read)
    \/ task.section = "s3_get_object" /\ task.name \notin DOMAIN Accounts.objects
    \/ /\ task.section = "boto3_parameters"
       /\ \/ task.region \notin ToSet(Regions)
          \/ \A d \in task.deps : d[2] # task.reads[3]

\* What the hub does not have. Of launch constraints there has to be one, of the others each
\* pattern has to match a product.
LacksInHub(task) ==
    /\ Has(task, "portfolio")
    /\ LET Missing(pattern) == pattern.matches \cap DOMAIN HubProducts(task) = {} IN
       \/ HubPortfolio(task) \notin Accounts.portfolios
       \/ Has(task, "product") /\ task.product \notin DOMAIN HubProducts(task)
       \/ /\ task.section = "portfolio-constraints-launch"
          /\ \A pattern \in DOMAIN task.constraints : Missing(pattern)
       \/ /\ task.section = "portfolio-constraints-resource_update"
          /\ \E pattern \in DOMAIN task.constraints : Missing(pattern)

\* Who asks for the portfolio of a task: the items that are to be there, in all accounts, and
\* those of the account and region of the task. What they ask for, of some products.
AskersOf(task) ==
    {tasks[u] : u \in {v \in DOMAIN tasks :
        /\ tasks[v].section = "spoke-local-portfolios" /\ tasks[v].status # "terminated"
        /\ tasks[v].portfolio = task.portfolio}}

AskersHere(task) ==
    {asker \in AskersOf(task) : asker.account_id = task.account_id /\ asker.region = task.region}

PrincipalUses(askers) ==
    UNION {{pattern} \X pattern.matches : pattern \in UNION {asker.associations : asker \in askers}}

LaunchUses(askers, products) ==
    UNION {UNION {{pattern} \X (pattern.matches \cap products) \X c.roles : pattern \in c.products} :
              c \in UNION {Get(asker.constraints, "launch", {}) : asker \in askers}}

UpdateUses(askers, products) ==
    UNION {LET asked == Get(asker.constraints, "resource_update", Empty) IN
           UNION {{pattern} \X (pattern.matches \cap products) \X {asked[pattern]} :
                     pattern \in DOMAIN asked} : asker \in askers}

\* Two patterns have one product or one principal for the same thing. The associations of an
\* item may be wanted in one account and be made in another.
ProductsAt(task) ==
    UNION {DOMAIN Products(aws, id) :
              id \in Named(aws, task.account_id, task.region, task.portfolio)}

AsksTwice(task) ==
    CASE task.section = "portfolio-associations" ->
            Clash(PrincipalUses(AskersOf(task) \cup {task}))
      [] task.section = "portfolio-constraints-launch" ->
            Clash(LaunchUses(AskersHere(task), ProductsAt(task)))
      [] task.section = "portfolio-constraints-resource_update" ->
            \E u, v \in UpdateUses(AskersHere(task), ProductsAt(task)) : u[1] # v[1] /\ u[2] = v[2]
      [] OTHER -> FALSE

\* What a terminated portfolio leaves behind: its stacks are named after the portfolio and
\* looked for by the name of the item.
KeepsItsStacks(task) ==
    /\ task.section = "spoke-local-portfolios" /\ task.status = "terminated"
    /\ task.name # task.portfolio

\* The generation has read another parameter than the task looks for: a source that another
\* account overrides (the merge of complete_generator.py:194 changes the item in memory).
ReadsElsewhere(task) ==
    \E item \in ToSet(manifest.items) :
        /\ task.section \in ItemSections /\ item.section = task.section /\ item.name = task.name
        /\ \E p \in DOMAIN Get(item, "parameters", Empty) : \E a \in ToSet(manifest.accounts) :
              /\ p \in DOMAIN Get(a, "parameters", Empty)
              /\ DOMAIN a.parameters[p] \cap DOMAIN item.parameters[p] \cap Sources # {}

MayFail == ActionSections \cup {"c7n-deploy-policies", "portfolio-share-and-accept-aws_organizations"}

\* A portfolio that was shared when the deployment was interrupted is not accepted any more
\* (share_and_accept_portfolio_task.py:31).
NotAccepted(task) ==
    /\ task.section = "portfolio-imported"
    /\ <<HubPortfolio(task), task.account_id>> \in aws.shares \ aws.accepted

\* When nothing goes wrong in AWS a task fails only for what the manifest asks for, or for what an
\* earlier deployment has left behind: no task is run before what it uses has been made, although
\* many tasks are made once for several items and only the first says what they depend on. The
\* associations and constraints that two items have put together fail where two of their patterns
\* name one resource (create_launch_role_constraints_for_spoke_local_portfolio_task.py:58), and
\* nowhere else.
FailuresAreExplained ==
    turn \notin faults /\ Lost = {} =>
        \A t \in InStatus("failed") :
            LET task == tasks[t] IN
            \/ task.section \in MayFail
            \/ HasNoSource(task) \/ ReadsElsewhere(task)
            \/ LacksInHub(task) \/ AsksTwice(task) \/ KeepsItsStacks(task) \/ NotAccepted(task)
            \/ task.section = "organizational-units" /\ Has(task, "parent_ou_id")

StackThere(task, name) == Get(aws.stacks, <<task.account_id, task.region, name>>, {})

\* The portfolio of the spoke has the products of the hub and, if they are copied, their
\* versions (a copy that is there already is not replaced by an import). Whoever is to have access
\* to it has, and nobody else but those that its items want elsewhere: they have one list for all
\* accounts. Its products launch with the roles that were asked for, and may be updated as was
\* asked for, by all items together and by no other. Where nobody asks, stacks stay as they are.
PortfolioAsAsked(task) ==
    \E id \in Named(aws, task.account_id, task.region, task.portfolio) :
        LET hub == HubProducts(task)
            there == Products(aws, id)
            here == AskersHere(task)
            principals == {u[2] : u \in PrincipalUses(here)}
            launches == LaunchUses(here, DOMAIN there)
            updates == UpdateUses(here, DOMAIN there)
            Principals(names) == {<<"principal", id, name>> : name \in names}
        IN /\ task.account_id # Puppet =>
                 /\ DOMAIN hub \subseteq DOMAIN there
                 /\ task.product_generation_method = "copy" =>
                       \A p \in DOMAIN hub : Versions(hub, p) \subseteq there[p]
           /\ principals # {} =>
                 LET made == StackThere(task, AssociationsStack(task.portfolio)) IN
                 /\ Principals(principals) \subseteq made
                 /\ made \subseteq Principals({u[2] : u \in PrincipalUses(AskersOf(task))})
           /\ launches # {} =>
                 StackThere(task, LaunchConstraintsStack(task.portfolio))
                     = {<<"launch", id, u[2], u[3]>> : u \in launches}
           /\ updates # {} =>
                 StackThere(task, UpdateConstraintsStack(task.portfolio))
                     = {<<"update", id, u[2], u[3]>> : u \in updates}

ItemAsAsked(t) ==
    LET task == tasks[t] IN
    CASE task.section \in {"stacks", "launches"} ->
            IF task.status = "terminated" THEN t \notin DOMAIN aws.content
            ELSE t \in DOMAIN aws.content /\ aws.content[t] = Mark
      [] task.section = "ssm_outputs" ->
            IF task.status = "terminated" THEN task.name \notin DOMAIN aws.store
            ELSE aws.store[task.name] = Mark
      [] task.section = "spoke-local-portfolios" /\ task.status # "terminated" ->
            PortfolioAsAsked(task)
      [] /\ task.section = "spoke-local-portfolios" /\ task.status = "terminated"
         /\ task.account_id # Puppet ->
            Named(aws, task.account_id, task.region, task.portfolio) = {}
      [] task.section \in {"service-control-policies", "tag-policies"} ->
            <<task.section, task.name, PolicyTarget(task)>> \in aws.attachments
      [] OTHER -> TRUE

\* The old stacks of an item go by its name: those of another item with that portfolio would.
NamedAfterAnother ==
    \E i, j \in ToSet(manifest.items) :
        i # j /\ i.section = "spoke-local-portfolios" /\ j.section = i.section
        /\ i.name = j.portfolio

\* A deployment all of whose tasks completed has brought the accounts to what the manifest
\* asks for, whatever earlier deployments have left, those that were interrupted too.
DeployedAsAsked ==
    stage = "over" /\ InStatus("completed") = DOMAIN status /\ ~NamedAfterAnother =>
        \A t \in DOMAIN status : ItemAsAsked(t)

=============================================================================
