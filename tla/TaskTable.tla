------------------------------ MODULE TaskTable ------------------------------
(***************************************************************************)
(* all_tasks, the dict of the tasks that complete_generator fills: its     *)
(* keys in the order they were put there, and a dict for each.  A task     *)
(* reference is a tuple of the words the code joins with "-" and "_".  The *)
(* table also says whether filling it raised, and keeps the parameters of  *)
(* the items as the generation leaves them in the manifest in memory.      *)
(***************************************************************************)
EXTENDS ManifestExpansion

CREATE_POLICIES == <<"create-policies">>

\* The keys of a task of a portfolio that name tasks whose outputs it reads.
References == {"portfolio_task", "products_ref", "hub_products_ref", "described_by"}

\* Filling the table stops with the first exception.
Steps(Op(_, _), table, seq) ==
    FoldLeft(LAMBDA t, x : IF t.raised = "" THEN Op(t, x) ELSE t, table, seq)

Raise(table, why) == [table EXCEPT !.raised = why]

Known(table, ref) == ref \in DOMAIN table.task

\* all_tasks[ref] = task
Put(table, ref, task) ==
    [table EXCEPT !.task = Updated(@, [r \in {ref} |-> task]),
                  !.order = IF Known(table, ref) THEN @ ELSE Append(@, ref)]

PutNew(table, ref, task) == IF Known(table, ref) THEN table ELSE Put(table, ref, task)

\* del all_tasks[ref]
Delete(table, ref) ==
    [table EXCEPT !.task = [r \in DOMAIN @ \ {ref} |-> @[r]],
                  !.order = FoldLeft(LAMBDA kept, r : IF r = ref THEN kept ELSE Append(kept, r),
                                     <<>>, @)]

\* task[key] = value. A generator may have deleted the task of its item: the dict that
\* is then written to is in no table.
Set(table, ref, key, value) ==
    IF Known(table, ref) THEN [table EXCEPT !.task[ref] = Updated(@, [k \in {key} |-> value])]
    ELSE table

\* task["dependencies_by_reference"].extend(refs). It is a list in the code, but nothing
\* depends on how often or where a reference is in it.
AddDeps(table, ref, refs) ==
    IF Known(table, ref) THEN [table EXCEPT !.task[ref].deps = @ \cup refs] ELSE table
RemoveDeps(table, ref, refs) == [table EXCEPT !.task[ref].deps = @ \ refs]

Task(section, account, region, deps) ==
    [section |-> section, account_id |-> account, region |-> region, deps |-> deps,
     status |-> "provisioned"]

\* The reference of the task of an item.
RefOf(task) ==
    <<task.section, task.name, Get(task, "ou_name", task.account_id), task.region>>
=============================================================================
