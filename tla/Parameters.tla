------------------------------ MODULE Parameters ------------------------------
(***************************************************************************)
(* The parameters of the items: the tasks that complete_generator adds to  *)
(* write the SSM outputs and to read the parameters (ssm_outputs_handler,  *)
(* ssm_, boto3_ and s3_parameter_handler), and what a task looks up when   *)
(* it runs (get_parameter_values of tasks.py).  A text with ${AWS::...} in *)
(* it is a tuple of words, of which some are replaced.                     *)
(***************************************************************************)
EXTENDS TaskTable

AccountId == "${AWS::AccountId}"
Region == "${AWS::Region}"
PuppetAccountId == "${AWS::PuppetAccountId}"

\* str.replace of some of the three.
Replaced(word, which, task) ==
    CASE word = AccountId /\ word \in which -> task.account_id
      [] word = Region /\ word \in which -> task.region
      [] word = PuppetAccountId /\ word \in which -> Puppet
      [] OTHER -> word

Filled(words, which, task) == [n \in DOMAIN words |-> Replaced(words[n], which, task)]

OfTask == {AccountId, Region}
OfAll == {AccountId, Region, PuppetAccountId}

-----------------------------------------------------------------------------
(* rewrite_ssm_parameters: an output of a stack or a provisioned product is read *)
(* with a boto3 call, of which only where it is made matters here.               *)

OutputKinds == {"cloudformation_stack_output", "servicecatalog_provisioned_product_output"}

WithBoto3(details) ==
    LET kinds == DOMAIN details \cap OutputKinds
        kind == IF "servicecatalog_provisioned_product_output" \in kinds
                THEN "servicecatalog_provisioned_product_output"
                ELSE "cloudformation_stack_output"
        region == IF kind = "cloudformation_stack_output" THEN PuppetAccountId ELSE Region
    IN IF kinds = {} THEN details
       ELSE Updated(details, [boto3 |->
               [account_id |-> Get(details[kind], "account_id", AccountId),
                region |-> Get(details[kind], "region", region)]])

rewrite_ssm_parameters(parameters) == [p \in DOMAIN parameters |-> WithBoto3(parameters[p])]

-----------------------------------------------------------------------------
(* always_merger.merge of the parameters of the manifest, the item and the account. *)

Sources == OutputKinds \cup {"ssm", "boto3", "s3"}

MergedSource(source, old, new) ==
    CASE source \in Sources -> Updated(old, new)
      [] source = "mapping" -> old \o new
      [] OTHER -> new

MergedDetails(old, new) ==
    [s \in DOMAIN old \cup DOMAIN new |->
        CASE s \notin DOMAIN new -> old[s]
          [] s \notin DOMAIN old -> new[s]
          [] OTHER -> MergedSource(s, old[s], new[s])]

Merged(old, new) ==
    [p \in DOMAIN old \cup DOMAIN new |->
        CASE p \notin DOMAIN new -> old[p]
          [] p \notin DOMAIN old -> new[p]
          [] OTHER -> MergedDetails(old[p], new[p])]

\* The merge takes a dict that is not there yet by reference: what of the account is then
\* merged into it changes the item of the manifest in memory, for the accounts to come.
Leaked(global, own, account) ==
    [p \in DOMAIN own |->
        CASE p \notin DOMAIN account -> own[p]
          [] p \in DOMAIN account \ DOMAIN global -> MergedDetails(own[p], account[p])
          [] OTHER -> [s \in DOMAIN own[p] |->
                IF s \in (Sources \ DOMAIN global[p]) \cap DOMAIN account[p]
                THEN Updated(own[p][s], account[p][s]) ELSE own[p][s]]]

ItemKey(task) == <<task.section, task.name>>

-----------------------------------------------------------------------------
(* ssm_outputs_handler *)

OutputRef(output, task) ==
    <<"ssm_outputs",
      Replaced(Get(output, "account_id", Puppet), {AccountId, PuppetAccountId}, task),
      Replaced(Get(output, "region", HomeRegion), {Region}, task)>>
    \o Filled(output.param_name, OfTask, task)

ssm_outputs_handler(all_tasks, ref, task) ==
    LET AddOutput(table, output) ==
            LET outputRef == OutputRef(output, task) IN
            IF Known(table, outputRef) THEN Raise(table, "duplicate output")
            ELSE IF task.section \notin {"launches", "stacks"} THEN Raise(table, "unknown section")
            ELSE Set(Put(table, outputRef,
                         Updated(Task("ssm_outputs", outputRef[2], outputRef[3], {ref}),
                                 [name |-> Tail(outputRef), generating |-> ref,
                                  status |-> task.status, execution |-> task.execution])),
                     ref, "ssm_outputs", Get(table.task[ref], "ssm_outputs", {}) \cup {outputRef})
    IN Steps(AddOutput, all_tasks, SetToSeq(task.outputs))

-----------------------------------------------------------------------------
(* The handlers of the parameters. Each adds the task that reads the parameter unless *)
(* another item has, and the consumer depends on it.                                  *)

Consumes(table, ref, kind, key, parameterRef) ==
    IF Known(table, ref)
    THEN Set(AddDeps(table, ref, {parameterRef}), ref, kind,
             Updated(Get(table.task[ref], kind, Empty), [k \in {key} |-> parameterRef]))
    ELSE table

SsmRef(account, region, ssm, name) ==
    IF Has(ssm, "path") THEN <<"ssm_parameters_with_a_path", account, region>> \o ssm.path
    ELSE <<"ssm_parameters", account, region>> \o name

ssm_parameter_handler(table, ref, task, details) ==
    LET ssm == details.ssm
        account == Replaced(Get(ssm, "account_id", Puppet), {AccountId, PuppetAccountId}, task)
        region == Replaced(Get(ssm, "region", HomeRegion), {Region}, task)
        name == Filled(ssm.name, OfAll, task)
        parameterRef == SsmRef(account, region, ssm, name)
        execution == IF account # task.account_id /\ task.execution = "spoke"
                     THEN "hub" ELSE task.execution
    IN IF ~Known(table, parameterRef) /\ account \notin {task.account_id, Puppet}
       THEN Raise(table, "parameter of another account")
       ELSE Consumes(PutNew(table, parameterRef,
                            Updated(Task(parameterRef[1], account, region, {}),
                                    [name |-> Tail(parameterRef), execution |-> execution])),
                     ref, "ssm_parameters", name, parameterRef)

\* The kind of a boto3 parameter, what it reads and where. For one that is not the output of
\* a stack or a product generate_task_reference has no name to use and raises.
Boto3Ref(details, account, region) ==
    IF Has(details, "cloudformation_stack_output")
    THEN <<"boto3_parameters", "stack", details.cloudformation_stack_output.of, account, region>>
    ELSE <<"boto3_parameters", "product", details.servicecatalog_provisioned_product_output.of,
           account, region>>

boto3_parameter_handler(table, ref, task, name, details) ==
    LET boto3 == details.boto3
        account == Replaced(boto3.account_id, {AccountId, PuppetAccountId}, task)
        region == Replaced(boto3.region, {Region}, task)
        parameterRef == Boto3Ref(details, account, region)
    IN IF DOMAIN details \cap OutputKinds = {} THEN Raise(table, "plain boto3 parameter")
       ELSE Consumes(PutNew(table, parameterRef,
                            Updated(Task("boto3_parameters", account, region, {}),
                                    [name |-> Tail(parameterRef), execution |-> task.execution,
                                     status |-> task.status, reads |-> parameterRef])),
                     ref, "boto3_parameters", name, parameterRef)

\* The consumer knows the task by the "name" of the source, which few manifests give.
s3_parameter_handler(table, ref, task, details) ==
    LET key == Filled(details.s3.key, OfAll, task)
        parameterRef == <<"s3_get_object", key>>
    IN Consumes(PutNew(table, parameterRef,
                       Updated(Task("s3_get_object", Puppet, HomeRegion, {}),
                               [name |-> key, execution |-> "hub"])),
                ref, "s3_objects", Filled(Get(details.s3, "name", <<"None">>), OfAll, task),
                parameterRef)

ParametersForAccount(accounts, id) ==
    IF \E a \in ToSet(accounts) : a.account_id = id
    THEN Get(AccountOf(accounts, id), "parameters", Empty) ELSE Empty

\* The parameters of the task that complete_generator has just added.
AddParameters(table, ref, task, manifest, accounts) ==
    LET own == Get(table.parameters, ItemKey(task), Empty)
        account == ParametersForAccount(accounts, task.account_id)
        merged == Merged(Merged(manifest.parameters, own), account)
        Handle(t, p) ==
            LET Read(u, source) ==
                    IF source \notin DOMAIN merged[p] THEN u
                    ELSE IF source = "ssm" THEN ssm_parameter_handler(u, ref, task, merged[p])
                    ELSE IF source = "boto3" THEN boto3_parameter_handler(u, ref, task, p, merged[p])
                    ELSE s3_parameter_handler(u, ref, task, merged[p])
            IN Steps(Read, t, <<"ssm", "boto3", "s3">>)
        after == [table EXCEPT !.parameters =
                    Updated(@, [k \in {ItemKey(task)} |-> Leaked(manifest.parameters, own, account)])]
    IN IF task.status = "terminated" THEN after
       ELSE Steps(Handle, after, SetToSeq(DOMAIN merged))

-----------------------------------------------------------------------------
(* get_parameter_values: when it runs the task merges the parameters of the manifest *)
(* on disk again, and looks for the output of the task that read each of them.       *)

RunTimeRef(details, task) ==
    IF Has(details, "s3") THEN <<"s3_get_object", Filled(details.s3.key, OfAll, task)>>
    ELSE IF Has(details, "boto3") THEN
            Filled(Boto3Ref(details, details.boto3.account_id, details.boto3.region), OfAll, task)
    ELSE LET ssm == details.ssm IN
         Filled(SsmRef(Get(ssm, "account_id", Puppet), Get(ssm, "region", HomeRegion),
                       ssm, ssm.name), OfTask, task)

\* get_mapping: the path, then with its last word "default", then ever shorter.
MappingPaths(path) ==
    <<path>> \o [n \in 1..Len(path) |-> Append(SubSeq(path, 1, Len(path) - n), "default")]

MappingWord(word, task) ==
    CASE word = "AWS::AccountId" -> task.account_id
      [] word = "AWS::Region" -> task.region
      [] OTHER -> word

get_mapping(mappings, words, task) ==
    LET paths == MappingPaths([n \in DOMAIN words |-> MappingWord(words[n], task)])
        found == SelectInSeq(paths, LAMBDA path : path \in DOMAIN mappings)
    IN IF found = 0 THEN "missing" ELSE mappings[paths[found]]

\* A parameter has one source besides its default and its mapping, and the last of the three
\* wins. What is not in SSM may have a default of its own or raises before they are looked
\* at; what is not in S3 gets str(None) as its default and never raises. "missing" raises.
ValueOf(details, task, mappings, read) ==
    IF Has(details, "ssm") /\ read = "missing" /\ ~Has(details.ssm, "default") THEN "missing"
    ELSE IF Has(details, "mapping") THEN get_mapping(mappings, details.mapping, task)
    ELSE IF Has(details, "default") THEN details.default
    ELSE IF read # "missing" THEN read
    ELSE IF Has(details, "s3") THEN Get(details.s3, "default", "None")
    ELSE IF Has(details, "boto3") THEN "None"
    ELSE details.ssm.default
=============================================================================
