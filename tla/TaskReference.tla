---------------------------- MODULE TaskReference ----------------------------
(***************************************************************************)
(* complete_generator.generate: from the expanded manifest to the complete *)
(* task reference, in four passes over the table of tasks.  The first puts *)
(* the tasks there, those of the generators too; the second adds what the  *)
(* items depend on; the third lets a parameter wait for what it reads; the *)
(* fourth takes out the cycles that the third has made.                    *)
(***************************************************************************)
EXTENDS ManifestRewrites, PortfolioGenerators, OtherGenerators, Resources

-----------------------------------------------------------------------------
(* The first pass *)

EmptyTable(manifest) ==
    [order |-> <<>>, task |-> Empty, raised |-> "",
     parameters |-> [k \in {Key(i) : i \in ToSet(manifest.items)} |->
        Get(CHOOSE i \in ToSet(manifest.items) : Key(i) = k, "parameters", Empty)]]

WithPolicyTask(table) ==
    Put(table, CREATE_POLICIES,
        Updated(Task("create-policies", Puppet, HomeRegion, {}), [execution |-> "hub"]))

\* generator.generate.
Generators(table, ref, task, accounts) ==
    CASE task.section = "launches" -> handle_launches(table, ref, task)
      [] task.section = "spoke-local-portfolios" -> handle_spoke_local_portfolios(table, ref, task)
      [] task.section = "imported-portfolios" -> handle_imported_portfolios(table, ref, task)
      [] task.section = "workspaces" -> handle_workspaces(table, ref, task)
      [] task.section = "stacks" -> handle_stacks(table, ref, task)
      [] task.section \in {"service-control-policies", "tag-policies"} ->
            handle_policies(table, ref, task)
      [] task.section = "organizational-units" -> handle_organizational_units(table, ref, task)
      [] task.section = "c7n-aws-lambdas" -> handle_c7n_aws_lambdas(table, ref, task, accounts)
      [] OTHER -> table

TasksOfItems(manifest) ==
    LET items == InSectionOrder(manifest.items)
    IN FlattenSeq([n \in DOMAIN items |-> TasksFor(items[n], manifest.accounts)])

FirstPass(manifest) ==
    LET AddTask(table, task) ==
            LET ref == RefOf(task)
                new == Updated(task, [deps |-> {CREATE_POLICIES}])
                Fill(t, part) ==
                    CASE part = "outputs" -> ssm_outputs_handler(Put(t, ref, new), ref, new)
                      [] part = "generators" -> Generators(t, ref, new, manifest.accounts)
                      [] part = "parameters" -> AddParameters(t, ref, new, manifest, manifest.accounts)
            IN Steps(Fill, table, <<"outputs", "generators", "parameters">>)
    IN Steps(AddTask, WithPolicyTask(EmptyTable(manifest)), TasksOfItems(manifest))

-----------------------------------------------------------------------------
(* The second pass *)

\* resources_required of every task. There are kinds of tasks that have none.
WithResources(table) ==
    IF table.raised # "" THEN table
    ELSE IF \E r \in DOMAIN table.task : CreateRaises(table.task[r])
    THEN Raise(table, "not supported")
    ELSE [table EXCEPT !.task = [r \in DOMAIN @ |->
             Updated(@[r], [resources_required |-> create(@[r])])]]

\* tasks_by_type, tasks_by_region, tasks_by_account_id and both: the tasks of the item that
\* is depended on, those that a generator has taken out of the table again too.
TasksBy(affinity, tasks, d, task) ==
    LET ofItem == {t \in tasks : t.section = SectionOf(d.type) /\ t.name = d.name} IN
    CASE affinity = d.type -> ofItem
      [] affinity = "region" -> {t \in ofItem : t.region = task.region}
      [] affinity = "account" -> {t \in ofItem : t.account_id = task.account_id}
      [] affinity = "account-and-region" ->
            {t \in ofItem : t.region = task.region /\ t.account_id = task.account_id}

Affinities(d) == {d.type, "region", "account", "account-and-region"}

SecondPass(table, manifest) ==
    LET tasks == ToSet(TasksOfItems(manifest))
        DependOn(t, ref) ==
            LET task == t.task[ref]
                One(u, d) ==
                    LET found == TasksBy(d.affinity, tasks, d, task) IN
                    IF d.affinity \notin Affinities(d) THEN u
                    ELSE IF found = {} THEN Raise(u, "not deployed")
                    ELSE AddDeps(u, ref, {RefOf(other) : other \in found})
            IN Steps(One, t, Get(task, "depends_on", <<>>))
    IN Steps(DependOn, table, table.order)

-----------------------------------------------------------------------------
(* The third pass *)

\* The parameter that reads what an output writes.
ParameterOf(outputRef) == [outputRef EXCEPT ![1] = "ssm_parameters"]

\* Mutant: the consumer waits for the output, the task that reads the parameter does not.
WiredToConsumer(table, ref, outputs) == AddDeps(table, ref, outputs)

Wired(table, ref, outputs) ==
    AddDeps(FoldLeft(LAMBDA t, o : AddDeps(t, ParameterOf(o), {o}), table, SetToSeq(outputs)),
            ref, outputs)

\* An output that a dependency of the consumer writes is there before it is read.
WithOutputs(table, ref) ==
    LET task == table.task[ref]
        parameters == Get(task, "ssm_parameters", Empty)
        read == {parameters[name] : name \in DOMAIN parameters}
        written == UNION {Get(table.task[d], "ssm_outputs", {}) : d \in task.deps \cap DOMAIN table.task}
    IN IF read = {} THEN table
       ELSE IF \E d \in task.deps : ~Known(table, d) THEN Raise(table, "dependency without a task")
       ELSE Wired(table, ref, {o \in written : ParameterOf(o) \in read})

\* A parameter is read after what its consumer waits for: any of it may make what is read.
\* It is not to wait for the consumer itself.
WithDependencies(kind, table, ref) ==
    LET parameters == Get(table.task[ref], kind, Empty)
        One(t, parameterRef) ==
            LET new == (t.task[ref].deps \ t.task[parameterRef].deps) \ {parameterRef}
                items == {d \in new \cap DOMAIN t.task : t.task[d].section \in ALL_SECTION_NAMES}
            IN IF \E d \in new : ~Known(t, d) THEN Raise(t, "dependency without a task")
               ELSE RemoveDeps(AddDeps(t, parameterRef, items), parameterRef, {ref})
    IN Steps(One, table, SetToSeq({parameters[name] : name \in DOMAIN parameters}))

ThirdPass(table) ==
    LET Wire(t, ref) ==
            LET Read(u, kind) == IF kind = "ssm_parameters" THEN WithOutputs(u, ref)
                                 ELSE WithDependencies(kind, u, ref)
            IN Steps(Read, t, <<"ssm_parameters", "boto3_parameters", "s3_objects">>)
    IN Steps(Wire, table, table.order)

-----------------------------------------------------------------------------
(* The fourth pass *)

\* Mutant: the cycles are left to be found.
ThirdPassAlone(table) == table

\* A consumer that the tasks of another consumer have brought in is taken out again.
FourthPass(table) ==
    LET TakeOut(t, ref) ==
            LET parameters == Get(t.task[ref], "boto3_parameters", Empty) IN
            FoldLeft(LAMBDA u, p : RemoveDeps(u, p, {ref}), t,
                     SetToSeq({parameters[name] : name \in DOMAIN parameters}))
    IN Steps(TakeOut, table, table.order)

-----------------------------------------------------------------------------
(* ensure_no_cyclic_dependencies, and the whole *)

\* What is left when tasks that wait for nobody are taken away, again and again.
Circular(deps) ==
    FoldLeft(LAMBDA left, n : {r \in left : deps[r] \cap left # {}},
             DOMAIN deps, [n \in 1..Cardinality(DOMAIN deps) |-> n])

DepsOf(table) == [r \in DOMAIN table.task |-> table.task[r].deps]

\* hub_generator.generate, when every item is executed from the hub: it takes the whole table,
\* unless something waits for a task that a generator has deleted.
HasUnlisted(table) == \E r \in DOMAIN table.task : ~(table.task[r].deps \subseteq DOMAIN table.task)

\* What keeps a table that was filled from being used.
Usable(table) ==
    IF table.raised # "" THEN table
    ELSE IF Circular(DepsOf(table)) # {} THEN Raise(table, "cyclic")
    ELSE IF HasUnlisted(table) THEN Raise(table, "not listed")
    ELSE table

\* The table of a manifest, or why there is none.
generate(manifest) ==
    IF \E i \in ToSet(manifest.items) : TasksForRaises(i, manifest.accounts)
    THEN Raise(EmptyTable(manifest), "targets")
    ELSE Usable(FourthPass(ThirdPass(SecondPass(WithResources(FirstPass(manifest)), manifest))))
=============================================================================
