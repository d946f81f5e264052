------------------------- MODULE TaskReferenceProofs -------------------------
(***************************************************************************)
(* Proofs about the generation of a task reference, for any manifest that  *)
(* has the shape of an expanded one: each of its passes leaves a table in  *)
(* which every task has what the later ones and the run rely on, and what  *)
(* is written in the end has no dependency that is missing and no cycle.   *)
(***************************************************************************)
EXTENDS TaskReference, TLAPS, FiniteSetTheorems, SequenceTheorems

-----------------------------------------------------------------------------
(* The dicts of Python *)

LEMMA UpdatedIs ==
  ASSUME NEW d, NEW with
  PROVE  /\ DOMAIN Updated(d, with) = DOMAIN d \cup DOMAIN with
         /\ \A k \in DOMAIN with : Updated(d, with)[k] = with[k]
         /\ \A k \in DOMAIN d \ DOMAIN with : Updated(d, with)[k] = d[k]
  BY DEF Updated

LEMMA WithoutIs ==
  ASSUME NEW d, NEW keys
  PROVE  /\ DOMAIN Without(d, keys) = DOMAIN d \ keys
         /\ \A k \in DOMAIN d \ keys : Without(d, keys)[k] = d[k]
  BY DEF Without

LEMMA EmptyIs == DOMAIN Empty = {}
  BY DEF Empty

-----------------------------------------------------------------------------
(* What a table of tasks is, whatever manifest it was filled from *)

\* The first words of the references of tasks that read a parameter or an object for others, and
\* of those that make what can be read.
Readers == {"ssm_parameters", "ssm_parameters_with_a_path", "boto3_parameters", "s3_get_object"}
Provisioned == {"stacks", "launches"}
Kinds == Readers \cup Provisioned \cup {"ssm_outputs"}

\* The tasks of which a later pass takes dependencies out: their consumers.
ReadBefore == {"boto3_parameters", "s3_get_object"}

\* The keys that every task has, those that the later passes go through, which only tasks of
\* items have, and those that say what a task is and never change.
TaskKeys == {"section", "account_id", "region"}
Consumed == {"ssm_parameters", "boto3_parameters", "s3_objects"}
Gathered == Consumed \cup {"ssm_outputs"}
Fixed == TaskKeys \cup {"name", "ou_name", "generating", "reads", "deps", "depends_on"}
KeysRead == Fixed \cup Gathered

\* Which tasks a consumer has under a key.
IsReader(kind, ref) ==
    /\ kind = "ssm_parameters" => ref[1] \in {"ssm_parameters", "ssm_parameters_with_a_path"}
    /\ kind = "boto3_parameters" => ref[1] = "boto3_parameters"
    /\ kind = "s3_objects" => ref[1] = "s3_get_object"

AreReaders(kind, parameters) ==
    IsFiniteSet(DOMAIN parameters) /\ \A p \in DOMAIN parameters : IsReader(kind, parameters[p])

AreOutputs(outputs) == IsFiniteSet(outputs) /\ \A o \in outputs : o[1] = "ssm_outputs"

IsBare(task) ==
    /\ TaskKeys \subseteq DOMAIN task
    /\ \A k \in Consumed \cap DOMAIN task : AreReaders(k, task[k])
    /\ "ssm_outputs" \in DOMAIN task => AreOutputs(task.ssm_outputs)
    /\ "depends_on" \in DOMAIN task => IsList(task.depends_on)

\* Before it is put into the table a task of an item depends on nothing.
IsTask(task) == IsBare(task) /\ "deps" \in DOMAIN task

\* A task that a generator has made depends on nothing by its name and gathers nothing.
IsMade(task) ==
    /\ IsTask(task) /\ task.section \notin Kinds
    /\ DOMAIN task \cap (Gathered \cup {"depends_on"}) = {}

\* What the reference of a task says of it: the parameter that it reads or writes, the item that
\* it is of. A consumer waits for the tasks that read for it, an output for what it is of.
IsEntry(r, task) ==
    /\ r[1] \in Kinds \/ task.section \in Kinds => task.section = r[1]
    /\ r[1] \in Provisioned =>
          /\ "name" \in DOMAIN task /\ r = RefOf(task)
          /\ "ou_name" \in DOMAIN task => task.account_id = ""
    /\ r[1] \in {"ssm_outputs", "ssm_parameters"} => "name" \in DOMAIN task /\ task.name = Tail(r)
    /\ r[1] = "ssm_outputs" =>
          /\ IsList(r) /\ r # <<>> /\ "generating" \in DOMAIN task
          /\ task.generating \in task.deps /\ task.generating[1] \in Provisioned
    /\ r[1] = "boto3_parameters" =>
          "reads" \in DOMAIN task /\ task.reads = r /\ task.account_id = r[4] /\ task.region = r[5]
    /\ r[1] \in Readers \cup {"ssm_outputs"} => DOMAIN task \cap (Gathered \cup {"depends_on"}) = {}
    /\ \A k \in Consumed \cap DOMAIN task : \A p \in DOMAIN task[k] : task[k][p] \in task.deps

IsTable(table) ==
    /\ {"order", "task", "raised", "parameters"} \subseteq DOMAIN table
    /\ IsFiniteSet(DOMAIN table.task)
    /\ IsList(table.order) /\ ToSet(table.order) = DOMAIN table.task
    /\ \A r \in DOMAIN table.task : IsTask(table.task[r]) /\ IsEntry(r, table.task[r])
    /\ \A k \in DOMAIN table.parameters : IsFiniteSet(DOMAIN table.parameters[k])

LEMMA ListIs ==
  ASSUME NEW s, IsList(s)
  PROVE  /\ Len(s) \in Nat /\ DOMAIN s = 1..Len(s)
         /\ \A i \in 1..Len(s) : s[i] \in ToSet(s)
  BY DEF IsList, ToSet

LEMMA ListFrom ==
  ASSUME NEW S, NEW s \in Seq(S)
  PROVE  IsList(s) /\ ToSet(s) \subseteq S
  BY DEF IsList, ToSet

LEMMA TaskIs ==
  ASSUME NEW section, NEW account, NEW region, NEW deps
  PROVE  /\ IsTask(Task(section, account, region, deps))
         /\ DOMAIN Task(section, account, region, deps) \cap (Gathered \cup {"depends_on"}) = {}
         /\ section \notin Kinds => IsMade(Task(section, account, region, deps))
  BY DEF Task, IsMade, IsTask, IsBare, TaskKeys, Gathered, Consumed

LEMMA UpdateKeeps ==
  ASSUME NEW task, NEW with, DOMAIN with \cap KeysRead = {}
  PROVE  /\ IsBare(task) => IsBare(Updated(task, with))
         /\ IsTask(task) => IsTask(Updated(task, with))
         /\ IsMade(task) => IsMade(Updated(task, with))
  <1> DEFINE new == Updated(task, with)
  <1>1. \A k \in KeysRead : (k \in DOMAIN new <=> k \in DOMAIN task)
                          /\ (k \in DOMAIN task => new[k] = task[k])
    BY UpdatedIs
  <1> HIDE DEF new
  <1>2. new.ssm_outputs = new["ssm_outputs"] /\ new.depends_on = new["depends_on"]
    OBVIOUS
  <1>3. IsBare(task) => IsBare(new)
    BY <1>1 DEF IsBare, KeysRead, Fixed, TaskKeys, Gathered, Consumed
  <1>4. IsTask(task) => IsTask(new)
    BY <1>1, <1>3 DEF IsTask, KeysRead, Fixed
  <1>5. IsMade(task) => IsMade(new)
    <2> SUFFICES ASSUME IsMade(task) PROVE IsMade(new)
      OBVIOUS
    <2>1. new.section = task.section
      BY <1>1 DEF IsMade, IsTask, IsBare, KeysRead, Fixed, TaskKeys
    <2>2. DOMAIN new \cap (Gathered \cup {"depends_on"}) = {}
      BY <1>1 DEF IsMade, KeysRead, Fixed
    <2> QED
      BY <1>4, <2>1, <2>2 DEF IsMade
  <1> QED
    BY <1>3, <1>4, <1>5 DEF new

LEMMA RaiseKeeps ==
  ASSUME NEW table, IsTable(table), NEW why
  PROVE  IsTable(Raise(table, why))
  BY DEF Raise, IsTable

LEMMA AppendList ==
  ASSUME NEW s, IsList(s), NEW x
  PROVE  IsList(Append(s, x)) /\ ToSet(Append(s, x)) = ToSet(s) \cup {x}
  <1> DEFINE T == ToSet(s) \cup {x}
             new == Append(s, x)
  <1>1. s \in Seq(T) /\ x \in T
    BY DEF IsList
  <1> HIDE DEF T
  <1>2. /\ new \in Seq(T) /\ Len(new) = Len(s) + 1 /\ Len(s) \in Nat
        /\ \A i \in 1..Len(s) : new[i] = s[i]
        /\ new[Len(s) + 1] = x
    BY <1>1, AppendProperties
  <1>3. DOMAIN new = 1..Len(s) + 1 /\ DOMAIN s = 1..Len(s)
    BY <1>1, <1>2
  <1> HIDE DEF new
  <1>4. ToSet(new) = ToSet(s) \cup {x}
    <2> DEFINE n == Len(s)
    <2>1. /\ n \in Nat /\ DOMAIN new = 1..n + 1 /\ DOMAIN s = 1..n /\ new[n + 1] = x
          /\ \A i \in 1..n : new[i] = s[i]
      BY <1>2, <1>3
    <2> HIDE DEF n
    <2>2. /\ \A i \in 1..n + 1 : i \in 1..n \/ i = n + 1
          /\ \A i \in 1..n : i \in 1..n + 1
          /\ n + 1 \in 1..n + 1
      BY <2>1
    <2>3. ToSet(new) \subseteq ToSet(s) \cup {x}
      BY <2>1, <2>2 DEF ToSet
    <2>4. ToSet(s) \subseteq ToSet(new)
      BY <2>1, <2>2 DEF ToSet
    <2>5. x \in ToSet(new)
      BY <2>1, <2>2 DEF ToSet
    <2> QED
      BY <2>3, <2>4, <2>5
  <1> QED
    BY <1>2, <1>4 DEF IsList, T, new

LEMMA PutKeeps ==
  ASSUME NEW table, IsTable(table), NEW ref, NEW task, IsTask(task), IsEntry(ref, task)
  PROVE  IsTable(Put(table, ref, task))
  <1> DEFINE put == Put(table, ref, task)
  <1>1. /\ DOMAIN put = DOMAIN table /\ put.raised = table.raised
        /\ put.parameters = table.parameters
        /\ put.task = Updated(table.task, [r \in {ref} |-> task])
        /\ put.order = IF Known(table, ref) THEN table.order ELSE Append(table.order, ref)
    BY DEF Put, IsTable
  <1>2. /\ DOMAIN put.task = DOMAIN table.task \cup {ref}
        /\ \A r \in DOMAIN put.task : put.task[r] = IF r = ref THEN task ELSE table.task[r]
    BY <1>1 DEF Updated
  <1> HIDE DEF put
  <1>3. IsFiniteSet(DOMAIN put.task)
    BY <1>2, FS_AddElement DEF IsTable
  <1>4. IsList(put.order) /\ ToSet(put.order) = DOMAIN put.task
    <2>1. IsList(table.order) /\ ToSet(table.order) = DOMAIN table.task
      BY DEF IsTable
    <2>2. CASE Known(table, ref)
      BY <1>1, <1>2, <2>1, <2>2 DEF Known
    <2>3. CASE ~Known(table, ref)
      <3>1. IsList(Append(table.order, ref))
            /\ ToSet(Append(table.order, ref)) = ToSet(table.order) \cup {ref}
        BY <2>1, AppendList
      <3>2. put.order = Append(table.order, ref)
        BY <1>1, <2>3
      <3> QED
        BY <1>2, <2>1, <3>1, <3>2
    <2> QED
      BY <2>2, <2>3
  <1> QED
    BY <1>1, <1>2, <1>3, <1>4 DEF IsTable, put

LEMMA MadeEntry ==
  ASSUME NEW ref, ref[1] \notin Kinds, NEW task, task.section \notin Kinds,
         DOMAIN task \cap Gathered = {}
  PROVE  IsEntry(ref, task)
  BY DEF IsEntry, Kinds, Readers, Provisioned, Gathered

\* A task that a generator has made has a reference of its own kind.
LEMMA PutMadeKeeps ==
  ASSUME NEW table, IsTable(table), NEW ref, ref[1] \notin Kinds, NEW task, IsMade(task)
  PROVE  IsTable(Put(table, ref, task))
  <1>1. IsEntry(ref, task)
    BY MadeEntry DEF IsMade
  <1> QED
    BY <1>1, PutKeeps DEF IsMade

LEMMA PutNewKeeps ==
  ASSUME NEW table, IsTable(table), NEW ref, ref[1] \notin Kinds, NEW task, IsMade(task)
  PROVE  IsTable(PutNew(table, ref, task))
  BY PutMadeKeeps DEF PutNew

\* The dict of one task is changed.
LEMMA TaskChanged ==
  ASSUME NEW table, IsTable(table), NEW ref, NEW task,
         ref \in DOMAIN table.task => IsTask(task) /\ IsEntry(ref, task)
  PROVE  IsTable([table EXCEPT !.task[ref] = task])
  <1> DEFINE new == [table EXCEPT !.task[ref] = task]
  <1>1. /\ DOMAIN new = DOMAIN table /\ new.raised = table.raised
        /\ new.parameters = table.parameters /\ new.order = table.order
        /\ DOMAIN new.task = DOMAIN table.task
        /\ \A r \in DOMAIN new.task : new.task[r] = IF r = ref THEN task ELSE table.task[r]
    BY DEF IsTable
  <1> QED
    BY <1>1 DEF IsTable

\* What is fixed stays when another key is set, or when there are more dependencies.
LEMMA EntryStays ==
  ASSUME NEW r, NEW old, IsTask(old), IsEntry(r, old), NEW new, IsTask(new),
         \A k \in Fixed \ {"deps"} :
            (k \in DOMAIN new <=> k \in DOMAIN old) /\ (k \in DOMAIN old => new[k] = old[k]),
         \A x \in old.deps : x \in new.deps \/ r[1] \in ReadBefore,
         \A k \in Gathered \cap DOMAIN new :
            \/ k \in DOMAIN old /\ new[k] = old[k]
            \/ /\ r[1] \notin Readers \cup {"ssm_outputs"}
               /\ k \in Consumed => \A p \in DOMAIN new[k] : new[k][p] \in new.deps
  PROVE  IsEntry(r, new)
  <1>1. /\ new.section = old.section /\ new.account_id = old.account_id /\ new.region = old.region
        /\ "name" \in DOMAIN old => "name" \in DOMAIN new /\ new.name = old.name
        /\ "generating" \in DOMAIN old => "generating" \in DOMAIN new /\ new.generating = old.generating
        /\ "reads" \in DOMAIN old => "reads" \in DOMAIN new /\ new.reads = old.reads
        /\ "depends_on" \in DOMAIN new <=> "depends_on" \in DOMAIN old
        /\ "ou_name" \in DOMAIN new <=> "ou_name" \in DOMAIN old
        /\ Get(new, "ou_name", new.account_id) = Get(old, "ou_name", old.account_id)
    BY DEF Fixed, TaskKeys, IsTask, IsBare, Get
  <1>2. "name" \in DOMAIN old => RefOf(new) = RefOf(old)
    BY <1>1 DEF RefOf
  <1>3. r[1] \in Readers \cup {"ssm_outputs"} => DOMAIN new \cap (Gathered \cup {"depends_on"}) = {}
    BY <1>1 DEF IsEntry, Gathered
  <1>4. r[1] = "ssm_outputs" => old.generating \in new.deps
    BY DEF IsEntry, ReadBefore
  <1>5. ASSUME NEW k \in Consumed \cap DOMAIN new, NEW p \in DOMAIN new[k]
        PROVE  new[k][p] \in new.deps
    <2>1. k \in Gathered
      BY DEF Gathered
    <2>2. CASE k \in DOMAIN old /\ new[k] = old[k]
      <3>1. r[1] \notin ReadBefore
        BY <2>1, <2>2 DEF IsEntry, ReadBefore, Readers
      <3> QED
        BY <2>2, <3>1 DEF IsEntry
    <2> QED
      BY <2>1, <2>2
  <1> QED
    BY <1>1, <1>2, <1>3, <1>4, <1>5 DEF IsEntry, Kinds, Provisioned, Readers

LEMMA SetKeeps ==
  ASSUME NEW table, IsTable(table), NEW ref, NEW key, key \notin Fixed, NEW value,
         Known(table, ref) /\ key \in Gathered =>
            /\ ref[1] \notin Readers \cup {"ssm_outputs"}
            /\ key = "ssm_outputs" => AreOutputs(value)
            /\ key \in Consumed =>
                  AreReaders(key, value) /\ \A p \in DOMAIN value : value[p] \in table.task[ref].deps
  PROVE  IsTable(Set(table, ref, key, value))
  <1>1. ASSUME ref \in DOMAIN table.task
        PROVE  /\ IsTask(Updated(table.task[ref], [k \in {key} |-> value]))
               /\ IsEntry(ref, Updated(table.task[ref], [k \in {key} |-> value]))
    <2> DEFINE old == table.task[ref]
               new == Updated(old, [k \in {key} |-> value])
    <2>1. IsTask(old) /\ IsEntry(ref, old) /\ Known(table, ref)
      BY <1>1 DEF IsTable, Known
    <2>2. /\ DOMAIN new = DOMAIN old \cup {key} /\ new[key] = value
          /\ \A k \in DOMAIN old : k # key => new[k] = old[k]
      BY DEF Updated
    <2>5. key \in Gathered =>
            /\ ref[1] \notin Readers \cup {"ssm_outputs"}
            /\ key = "ssm_outputs" => AreOutputs(value)
            /\ key \in Consumed => AreReaders(key, value) /\ \A p \in DOMAIN value : value[p] \in old.deps
      BY <2>1
    <2> HIDE DEF new, old
    <2>3. IsTask(new)
      BY <2>1, <2>2, <2>5 DEF IsTask, IsBare, Fixed, TaskKeys, Gathered, Consumed
    <2>6. new.deps = old.deps
      BY <2>1, <2>2 DEF IsTask, Fixed
    <2>7. \A k \in Fixed : (k \in DOMAIN new <=> k \in DOMAIN old) /\ (k \in DOMAIN old => new[k] = old[k])
      BY <2>2
    <2>8. \A k \in Gathered \cap DOMAIN new :
            \/ k \in DOMAIN old /\ new[k] = old[k]
            \/ /\ ref[1] \notin Readers \cup {"ssm_outputs"}
               /\ k \in Consumed => \A p \in DOMAIN new[k] : new[k][p] \in new.deps
      BY <2>2, <2>5, <2>6
    <2>4. IsEntry(ref, new)
      BY <2>1, <2>3, <2>6, <2>7, <2>8, EntryStays
    <2> QED
      BY <2>3, <2>4 DEF new, old
  <1> QED
    BY <1>1, TaskChanged DEF Set, Known

LEMMA DepsChange ==
  ASSUME NEW ref, NEW task, IsTask(task), IsEntry(ref, task), NEW deps,
         \A x \in task.deps : x \in deps \/ ref[1] \in ReadBefore
  PROVE  IsTask([task EXCEPT !.deps = deps]) /\ IsEntry(ref, [task EXCEPT !.deps = deps])
  <1> DEFINE new == [task EXCEPT !.deps = deps]
  <1>1. /\ DOMAIN new = DOMAIN task /\ new.deps = deps
        /\ \A k \in DOMAIN task \ {"deps"} : new[k] = task[k]
    BY DEF IsTask
  <1> HIDE DEF new
  <1>2. IsTask(new)
    BY <1>1 DEF IsTask, IsBare, TaskKeys, Consumed
  <1>3. \A k \in Gathered : k # "deps"
    BY DEF Gathered, Consumed
  <1>4. IsEntry(ref, new)
    BY <1>1, <1>2, <1>3, EntryStays
  <1> QED
    BY <1>2, <1>4 DEF new

LEMMA AddDepsKeeps ==
  ASSUME NEW table, IsTable(table), NEW ref, NEW refs
  PROVE  IsTable(AddDeps(table, ref, refs))
  <1> DEFINE task == [table.task[ref] EXCEPT !.deps = table.task[ref].deps \cup refs]
  <1>1. ASSUME ref \in DOMAIN table.task
        PROVE  IsTask(task) /\ IsEntry(ref, task)
    <2>1. IsTask(table.task[ref]) /\ IsEntry(ref, table.task[ref])
      BY <1>1 DEF IsTable
    <2> QED
      BY <2>1, DepsChange
  <1>2. AddDeps(table, ref, refs) = IF Known(table, ref) THEN [table EXCEPT !.task[ref] = task]
                                    ELSE table
    BY DEF AddDeps
  <1> HIDE DEF task
  <1>3. IsTable([table EXCEPT !.task[ref] = task])
    BY <1>1, TaskChanged
  <1> QED
    BY <1>2, <1>3

-----------------------------------------------------------------------------
(* Sets that are gone through in some order, and what is taken out of a list *)

LEMMA SetToSeqIs ==
  ASSUME NEW S, IsFiniteSet(S)
  PROVE  /\ Cardinality(S) \in Nat /\ DOMAIN SetToSeq(S) = 1..Cardinality(S)
         /\ \A i \in 1..Cardinality(S) : SetToSeq(S)[i] \in S
         /\ \A x \in S : \E i \in 1..Cardinality(S) : SetToSeq(S)[i] = x
  <1>1. Cardinality(S) \in Nat /\ ExistsBijection(1..Cardinality(S), S)
    BY FS_CardinalityType
  <1>2. \E f \in [1..Cardinality(S) -> S] : IsInjective(f)
    BY <1>1 DEF ExistsBijection, Bijection, Injection, IsInjective
  <1>3. SetToSeq(S) \in [1..Cardinality(S) -> S] /\ IsInjective(SetToSeq(S))
    BY <1>2 DEF SetToSeq
  <1>4. SetToSeq(S) \in Surjection(1..Cardinality(S), S)
    <2>1. SetToSeq(S) \in Injection(1..Cardinality(S), S)
      BY <1>3 DEF IsInjective, Injection
    <2>2. IsFiniteSet(1..Cardinality(S)) /\ Cardinality(1..Cardinality(S)) = Cardinality(S)
      BY <1>1, FS_Bijection, FS_Injection, FS_Interval
    <2> QED
      BY <2>1, <2>2, FS_Injection
  <1> QED
    BY <1>1, <1>3, <1>4 DEF Surjection

LEMMA FewAreFinite ==
  ASSUME NEW a, NEW b, NEW c, NEW S, S \subseteq {a, b, c}
  PROVE  IsFiniteSet(S)
  <1>1. IsFiniteSet({a})
    BY FS_Singleton
  <1>2. IsFiniteSet({a} \cup {b})
    BY <1>1, FS_AddElement
  <1>3. IsFiniteSet(({a} \cup {b}) \cup {c})
    BY <1>2, FS_AddElement
  <1>4. S \subseteq ({a} \cup {b}) \cup {c}
    OBVIOUS
  <1> QED
    BY <1>3, <1>4, FS_Subset

Keeping(ref, q, r, t, kept, x) == IF x = ref THEN kept ELSE Append(kept, x)
IsOf(ref, s, r, t, j, kept) == IsList(kept) /\ ToSet(kept) = {s[i] : i \in 1..j} \ {ref}

DeleteFold == INSTANCE FoldTheorems WITH Op <- Keeping, Good <- IsOf

LEMMA DeleteKeeps ==
  ASSUME NEW table, IsTable(table), NEW ref
  PROVE  IsTable(Delete(table, ref))
  <1> DEFINE s == table.order
             n == Len(s)
             order == DeleteFold!Folded(ref, s, 0, 0, <<>>, s)
             left == [r \in DOMAIN table.task \ {ref} |-> table.task[r]]
  <1>1. Delete(table, ref) = [table EXCEPT !.task = left, !.order = order]
    BY DEF Delete, FoldLeft, MapThenFoldSet, Max, Keeping, DeleteFold!Folded, DeleteFold!IsFold,
           DeleteFold!Largest
  <1>2. n \in Nat /\ DOMAIN s = 1..n /\ {s[i] : i \in 1..n} = DOMAIN table.task
    <2>1. n \in Nat /\ DOMAIN s = 1..n /\ ToSet(s) = DOMAIN table.task
      BY ListIs DEF IsTable
    <2> HIDE DEF n
    <2> QED
      BY <2>1 DEF ToSet
  <1> HIDE DEF n, s
  <1>3. IsOf(ref, s, 0, 0, 0, <<>>)
    BY DEF IsOf, IsList, ToSet
  <1>4. ASSUME NEW j \in 0..n - 1, NEW kept, IsOf(ref, s, 0, 0, j, kept)
        PROVE  IsOf(ref, s, 0, 0, j + 1, Keeping(ref, s, 0, 0, kept, s[j + 1]))
    <2>1. {s[i] : i \in 1..j + 1} = {s[i] : i \in 1..j} \cup {s[j + 1]}
      <3>1. \A i \in 1..j + 1 : i \in 1..j \/ i = j + 1
        BY <1>2
      <3>2. \A i \in 1..j : i \in 1..j + 1
        BY <1>2
      <3>3. j + 1 \in 1..j + 1
        BY <1>2
      <3> QED
        BY <3>1, <3>2, <3>3
    <2>2. IsList(kept) /\ ToSet(kept) = {s[i] : i \in 1..j} \ {ref}
      BY <1>4 DEF IsOf
    <2>3. /\ IsList(Append(kept, s[j + 1]))
          /\ ToSet(Append(kept, s[j + 1])) = ToSet(kept) \cup {s[j + 1]}
      BY <2>2, AppendList
    <2>4. CASE s[j + 1] = ref
      BY <2>1, <2>2, <2>4 DEF IsOf, Keeping
    <2>5. CASE s[j + 1] # ref
      BY <2>1, <2>2, <2>3, <2>5 DEF IsOf, Keeping
    <2> QED
      BY <2>4, <2>5
  <1>5. IsOf(ref, s, 0, 0, n, order)
    BY <1>2, <1>3, <1>4, DeleteFold!FoldKeeps
  <1>6. IsList(order) /\ ToSet(order) = DOMAIN table.task \ {ref}
    BY <1>2, <1>5 DEF IsOf
  <1>7. IsFiniteSet(DOMAIN table.task \ {ref})
    BY FS_Subset DEF IsTable
  <1> HIDE DEF order
  <1> QED
    BY <1>1, <1>6, <1>7 DEF IsTable

-----------------------------------------------------------------------------
(* A table that is filled for the tasks of some items *)

\* The kinds of tasks of portfolios whose references say in which account they are, and where.
Placed == {"portfolio-local", "portfolio-imported", "portfolio-puppet-role-association",
           "portfolio-get-all-products", "describe-portfolio-shares",
           "spoke-local-portfolios", "imported-portfolios"}
AccountIn(r) ==
    CASE r[1] \in {"portfolio-get-all-products", "spoke-local-portfolios", "imported-portfolios"} -> r[3]
      [] r[1] = "describe-portfolio-shares" -> r[4]
      [] OTHER -> r[2]

\* A reference of which a task in the account can read the output: in any deployment that runs
\* the one task the other is run too.
IsNear(ref, account) == ref[1] \in Placed /\ AccountIn(ref) \in {Puppet, account}

\* The task has what it reads of portfolios among its dependencies.
AwaitsHub(r, task) ==
    r[1] = "spoke-local-portfolios" /\ task.status # "terminated" /\ task.account_id # Puppet
        => LocalRef(Puppet, task) \in task.deps
AwaitsReferences(task) ==
    \A k \in References \cap DOMAIN task : task[k] \in task.deps /\ IsNear(task[k], task.account_id)
Awaits(r, task) == AwaitsReferences(task) /\ AwaitsHub(r, task)

\* Of which of them a task of an item in the table is, and that it has its status; so has an
\* output that it writes.
IsOne(M, ref, task) ==
    /\ "status" \in DOMAIN task
    /\ \E one \in M :
          /\ RefOf(one) = ref /\ one.status = task.status
          /\ ref[1] = "spoke-local-portfolios" =>
                /\ "portfolio" \in DOMAIN task /\ one.portfolio = task.portfolio
                /\ one.account_id = task.account_id /\ one.region = task.region
OfItems == Provisioned \cup {"spoke-local-portfolios"}
AreOf(M, table) ==
    \A r \in DOMAIN table.task :
        /\ r[1] \in OfItems => IsOne(M, r, table.task[r])
        /\ r[1] = "ssm_outputs" => IsOne(M, table.task[r].generating, table.task[r])

\* A task is where its reference says. One whose dependencies a later pass takes out names no
\* other.
IsPlaced(r, task) ==
    /\ r[1] \in ReadBefore => DOMAIN task \cap References = {}
    /\ r[1] \in Placed => task.account_id = AccountIn(r)
    /\ task.section = "spoke-local-portfolios" => r[1] = "spoke-local-portfolios"

\* While a table is filled, some tasks do not wait for the portfolio of the hub yet.
AreAwaited(open, table) ==
    /\ \A r \in DOMAIN table.task : IsPlaced(r, table.task[r])
    /\ table.raised = "" => \A r \in DOMAIN table.task :
          AwaitsReferences(table.task[r]) /\ (r \in open \/ AwaitsHub(r, table.task[r]))
IsFilled(c, table) == IsTable(table) /\ AreOf(c.tasks, table) /\ AreAwaited(c.open, table)

Open(c, ref) == [tasks |-> c.tasks, open |-> c.open \cup {ref}]

\* What the references say.
LEMMA RefsAre ==
  ASSUME NEW task, NEW account
  PROVE  /\ LocalRef(account, task)[1] = "portfolio-local" /\ AccountIn(LocalRef(account, task)) = account
         /\ AssociationRef(account, task)[1] = "portfolio-puppet-role-association"
         /\ AccountIn(AssociationRef(account, task)) = account
         /\ PortfolioRef("portfolio-imported", account, task)[1] = "portfolio-imported"
         /\ AccountIn(PortfolioRef("portfolio-imported", account, task)) = account
         /\ DescribeRef(task)[1] = "describe-portfolio-shares" /\ AccountIn(DescribeRef(task)) = Puppet
         /\ ShareRef(task)[1] \notin Placed /\ DisassociateRef(task)[1] \notin Placed
         /\ CopyRef(task)[1] \notin Placed
         /\ \A kind : OfItem(kind, task)[1] = kind /\ OfPortfolio(kind, task)[1] = kind
         /\ \A name : TerminateRef(name, task)[1] = "terminate-cloudformation-stack"
  BY DEF LocalRef, AssociationRef, ProductsRef, PortfolioRef, DescribeRef, ShareRef, DisassociateRef,
         CopyRef, OfItem, OfPortfolio, TerminateRef, AccountIn, Placed

LEMMA ProductsRefIs ==
  ASSUME NEW task, NEW account, NEW when
  PROVE  /\ ProductsRef(when, account, task)[1] = "portfolio-get-all-products"
         /\ AccountIn(ProductsRef(when, account, task)) = account
  BY DEF ProductsRef, AccountIn

LEMMA NearAre ==
  ASSUME NEW task, NEW account
  PROVE  /\ \A a \in {Puppet, account} :
               /\ IsNear(LocalRef(a, task), account) /\ IsNear(AssociationRef(a, task), account)
               /\ \A when : IsNear(ProductsRef(when, a, task), account)
               /\ IsNear(PortfolioRef("portfolio-imported", a, task), account)
         /\ IsNear(DescribeRef(task), account)
  <1>1. {"portfolio-local", "portfolio-puppet-role-association", "portfolio-get-all-products",
         "portfolio-imported", "describe-portfolio-shares"} \subseteq Placed
    BY DEF Placed
  <1>2. ASSUME NEW a \in {Puppet, account}
        PROVE  /\ IsNear(LocalRef(a, task), account) /\ IsNear(AssociationRef(a, task), account)
               /\ IsNear(PortfolioRef("portfolio-imported", a, task), account)
    <2>1. /\ LocalRef(a, task)[1] \in Placed /\ AssociationRef(a, task)[1] \in Placed
          /\ PortfolioRef("portfolio-imported", a, task)[1] \in Placed
      BY <1>1, RefsAre
    <2>2. /\ AccountIn(LocalRef(a, task)) = a /\ AccountIn(AssociationRef(a, task)) = a
          /\ AccountIn(PortfolioRef("portfolio-imported", a, task)) = a
      BY RefsAre
    <2> QED
      BY <2>1, <2>2 DEF IsNear
  <1>3. ASSUME NEW a \in {Puppet, account}, NEW when
        PROVE  IsNear(ProductsRef(when, a, task), account)
    BY <1>1, ProductsRefIs DEF IsNear
  <1>4. IsNear(DescribeRef(task), account)
    BY <1>1, RefsAre DEF IsNear
  <1> QED
    BY <1>2, <1>3, <1>4

LEMMA FilledIsTable ==
  ASSUME NEW c, NEW table, IsFilled(c, table)
  PROVE  IsTable(table)
  BY DEF IsFilled

LEMMA FilledRaise ==
  ASSUME NEW c, NEW table, IsFilled(c, table), NEW why, why # ""
  PROVE  IsFilled(c, Raise(table, why))
  BY RaiseKeeps DEF IsFilled, AreOf, AreAwaited, Raise, IsTable

\* The task of an item is being added, and has been added.
LEMMA FilledOpen ==
  ASSUME NEW c, NEW table, IsFilled(c, table), NEW ref
  PROVE  IsFilled(Open(c, ref), table)
  BY DEF IsFilled, AreAwaited, Open

LEMMA FilledClose ==
  ASSUME NEW c, NEW table, NEW ref, IsFilled(Open(c, ref), table),
         table.raised = "" /\ ref \in DOMAIN table.task => AwaitsHub(ref, table.task[ref])
  PROVE  IsFilled(c, table)
  BY DEF IsFilled, AreAwaited, Open

LEMMA FilledPut ==
  ASSUME NEW c, NEW table, IsFilled(c, table), NEW ref, NEW task, IsTask(task), IsEntry(ref, task),
         ref[1] \in OfItems => IsOne(c.tasks, ref, task),
         ref[1] = "ssm_outputs" => IsOne(c.tasks, task.generating, task),
         IsPlaced(ref, task),
         AwaitsReferences(task), ref \in c.open \/ AwaitsHub(ref, task)
  PROVE  IsFilled(c, Put(table, ref, task))
  <1>1. IsTable(Put(table, ref, task))
    BY PutKeeps DEF IsFilled
  <1> DEFINE put == Put(table, ref, task)
  <1>2. put.task = Updated(table.task, [r \in {ref} |-> task]) /\ put.raised = table.raised
    BY DEF Put, IsFilled, IsTable
  <1>3. /\ DOMAIN put.task = DOMAIN table.task \cup {ref}
        /\ \A r \in DOMAIN put.task : put.task[r] = IF r = ref THEN task ELSE table.task[r]
    BY <1>2 DEF Updated
  <1> HIDE DEF put
  <1>4. AreOf(c.tasks, put)
    BY <1>3 DEF IsFilled, AreOf
  <1>5. AreAwaited(c.open, put)
    BY <1>2, <1>3 DEF IsFilled, AreAwaited
  <1> QED
    BY <1>1, <1>4, <1>5 DEF IsFilled, put

\* A task that names none and is of no item.
LEMMA FilledPutOther ==
  ASSUME NEW c, NEW table, IsFilled(c, table),
         NEW ref, ref[1] \notin OfItems \cup Placed \cup {"ssm_outputs"},
         NEW task, IsTask(task), IsEntry(ref, task), DOMAIN task \cap References = {},
         task.section # "spoke-local-portfolios"
  PROVE  IsFilled(c, Put(table, ref, task))
  <1>1. AwaitsReferences(task) /\ AwaitsHub(ref, task) /\ IsPlaced(ref, task)
    BY DEF AwaitsReferences, AwaitsHub, IsPlaced, Placed
  <1> QED
    BY <1>1, FilledPut

\* The first words of references that no generator uses.
Taken == Kinds \cup OfItems

\* A task that a generator makes in the account, with these dependencies.
IsMadeAs(ref, task, account, deps) ==
    /\ IsMade(task) /\ task.account_id = account /\ task.deps = deps
    /\ ref[1] \in Placed => account = AccountIn(ref)
    /\ task.section \notin OfItems /\ AwaitsReferences(task)

LEMMA FilledPutMade ==
  ASSUME NEW c, NEW table, IsFilled(c, table), NEW ref, ref[1] \notin Taken,
         NEW task, NEW account, NEW deps, IsMadeAs(ref, task, account, deps)
  PROVE  IsFilled(c, Put(table, ref, task)) /\ IsFilled(c, PutNew(table, ref, task))
  <1>1. IsEntry(ref, task) /\ IsTask(task)
    BY MadeEntry DEF IsMade, IsMadeAs, Taken
  <1>2. AwaitsReferences(task) /\ AwaitsHub(ref, task) /\ IsPlaced(ref, task)
    BY DEF AwaitsHub, IsPlaced, IsMadeAs, Taken, OfItems, Kinds, Readers, ReadBefore
  <1>3. ref[1] # "ssm_outputs"
    BY DEF Taken, Kinds
  <1>4. IsFilled(c, Put(table, ref, task))
    BY <1>1, <1>2, <1>3, FilledPut DEF Taken
  <1> QED
    BY <1>4 DEF PutNew

\* The kinds of tasks that generators make.
MadeKinds ==
    {"portfolio-local", "portfolio-puppet-role-association", "describe-portfolio-shares",
     "portfolio-get-all-products", "portfolio-imported", "describe-provisioning-parameters",
     "portfolio-associations", "portfolio-constraints-launch", "portfolio-constraints-resource_update",
     "portfolio_associations", "launch_constraints", "resource_update_constraints",
     "portfolio-disassociate-all-products", "portfolio-import", "portfolio-copy",
     "terminate-cloudformation-stack", "prepare-account-for-stacks", "get-template-from-s3",
     "workspace-account-preparation", "c7n-create-custodian-role", "c7n-prepare-hub-account",
     "c7n-forward-events-for-account", "c7n-forward-events-for-region", "c7n-deploy-policies",
     "create-policies"}

LEMMA MadeKindsAre == \A kind \in MadeKinds : kind \notin Taken
  BY DEF MadeKinds, Taken, OfItems, Kinds, Readers, Provisioned

\* Their references and their sections are of none of the kinds.
LEMMA MadeRefs ==
  ASSUME NEW task
  PROVE  /\ \A account : LocalRef(account, task)[1] \notin Taken
         /\ \A account : AssociationRef(account, task)[1] \notin Taken
         /\ \A when, account : ProductsRef(when, account, task)[1] \notin Taken
         /\ ShareRef(task)[1] \notin Taken /\ DescribeRef(task)[1] \notin Taken
         /\ PortfolioRef("portfolio-imported", task.account_id, task)[1] \notin Taken
         /\ \A kind : kind \notin Taken => OfItem(kind, task)[1] \notin Taken /\ OfPortfolio(kind, task)[1] \notin Taken
         /\ \A name : TerminateRef(name, task)[1] \notin Taken
         /\ DisassociateRef(task)[1] \notin Taken /\ CopyRef(task)[1] \notin Taken
         /\ ShareSection(task) \notin Taken /\ PolicySection(task) \notin Taken
  BY DEF PortfolioRef, LocalRef, AssociationRef, ProductsRef, ShareRef, DescribeRef, OfItem, OfPortfolio,
         TerminateRef, DisassociateRef, CopyRef, ShareSection, PolicySection,
         Taken, OfItems, Kinds, Readers, Provisioned

\* A task that a generator has made gets what no pass looks at, or the reference of a task that
\* it waits for.
LEMMA UpdateMade ==
  ASSUME NEW ref, NEW new, NEW account, NEW deps, IsMadeAs(ref, new, account, deps),
         NEW with, DOMAIN with \cap KeysRead = {},
         \A k \in DOMAIN with \cap References : with[k] \in deps /\ IsNear(with[k], account)
  PROVE  IsMadeAs(ref, Updated(new, with), account, deps)
  <1> DEFINE task == Updated(new, with)
  <1>1. /\ DOMAIN task = DOMAIN new \cup DOMAIN with
        /\ \A k \in DOMAIN with : task[k] = with[k]
        /\ \A k \in DOMAIN new \ DOMAIN with : task[k] = new[k]
    BY UpdatedIs
  <1>2. IsMade(task)
    BY UpdateKeeps DEF IsMadeAs
  <1> HIDE DEF task
  <1>3. {"section", "account_id", "deps"} \subseteq DOMAIN new \cap KeysRead
    BY DEF IsMadeAs, IsMade, IsTask, IsBare, TaskKeys, KeysRead, Fixed
  <1>4. task.section = new.section /\ task.account_id = new.account_id /\ task.deps = new.deps
    BY <1>1, <1>3
  <1>5. AwaitsReferences(task)
    BY <1>1, <1>4 DEF AwaitsReferences, IsMadeAs
  <1> QED
    BY <1>2, <1>4, <1>5 DEF IsMadeAs, task

\* The tasks that generators make.
LEMMA MadeIs ==
  /\ \A ref, section, account, region, deps :
        section \notin Taken /\ (ref[1] \in Placed => account = AccountIn(ref)) =>
          IsMadeAs(ref, Task(section, account, region, deps), account, deps)
  /\ \A ref, section, task, account, deps :
        section \notin Taken /\ (ref[1] \in Placed => account = AccountIn(ref)) =>
          IsMadeAs(ref, Portfolio(section, task, account, deps), account, deps)
  /\ \A ref, section, account, region, deps, task :
        section \notin Taken /\ (ref[1] \in Placed => account = AccountIn(ref)) =>
          IsMadeAs(ref, Custodian(section, account, region, deps, task), account, deps)
  /\ \A ref, new, account, deps : IsMadeAs(ref, new, account, deps) =>
        /\ \A task : IsMadeAs(ref, WithStatus(new, task), account, deps)
        /\ \A a : a \in deps /\ IsNear(a, account) => IsMadeAs(ref, WithId(new, a), account, deps)
        /\ \A a : IsMadeAs(ref, Updated(new, [execution |-> a]), account, deps)
        /\ \A a, b :
              /\ b \in deps /\ IsNear(b, account) =>
                    IsMadeAs(ref, Updated(new, [with |-> a, described_by |-> b]), account, deps)
              /\ IsMadeAs(ref, Updated(new, [execution |-> a, product |-> b]), account, deps)
              /\ IsMadeAs(ref, Updated(new, [execution |-> a, stack_name |-> b]), account, deps)
              /\ IsMadeAs(ref, Updated(new, [execution |-> a, policy |-> b]), account, deps)
              /\ IsMadeAs(ref, Updated(new, [status |-> a, item |-> b]), account, deps)
              /\ IsMadeAs(ref, Updated(new, [item |-> a, associations |-> b]), account, deps)
              /\ IsMadeAs(ref, Updated(new, [item |-> a, deployments |-> b]), account, deps)
        /\ \A a, b, d : {a, b} \subseteq deps /\ IsNear(a, account) /\ IsNear(b, account) =>
              IsMadeAs(ref, Updated(new, [products_ref |-> a, hub_products_ref |-> b,
                                          hub_task |-> d]), account, deps)
  <1> DEFINE used == {"execution", "status", "portfolio", "with", "product", "stack_name", "policy",
                      "item", "associations", "deployments", "hub_task"}
  <1>1. used \cap KeysRead = {} /\ References \cap KeysRead = {} /\ used \cap References = {}
    BY DEF KeysRead, Fixed, TaskKeys, Gathered, Consumed, References
  <1>2. ASSUME NEW ref, NEW new, NEW account, NEW deps, IsMadeAs(ref, new, account, deps),
               NEW with, DOMAIN with \subseteq used \cup References,
               \A k \in DOMAIN with \cap References : with[k] \in deps /\ IsNear(with[k], account)
        PROVE  IsMadeAs(ref, Updated(new, with), account, deps)
    BY <1>1, <1>2, UpdateMade
  <1>3. ASSUME NEW ref, NEW new, NEW account, NEW deps, IsMadeAs(ref, new, account, deps),
               NEW with, DOMAIN with \subseteq used
        PROVE  IsMadeAs(ref, Updated(new, with), account, deps)
    BY <1>1, <1>2, <1>3
  <1>4. References = {"portfolio_task", "products_ref", "hub_products_ref", "described_by"}
    BY DEF References
  <1>5. ASSUME NEW ref, NEW new, NEW account, NEW deps, IsMadeAs(ref, new, account, deps)
        PROVE  /\ \A a : IsMadeAs(ref, Updated(new, [execution |-> a]), account, deps)
               /\ \A a : IsMadeAs(ref, Updated(new, [status |-> a]), account, deps)
               /\ \A a, b :
                    /\ IsMadeAs(ref, Updated(new, [portfolio |-> a, execution |-> b]), account, deps)
                    /\ IsMadeAs(ref, Updated(new, [execution |-> a, product |-> b]), account, deps)
                    /\ IsMadeAs(ref, Updated(new, [execution |-> a, stack_name |-> b]), account, deps)
                    /\ IsMadeAs(ref, Updated(new, [execution |-> a, policy |-> b]), account, deps)
                    /\ IsMadeAs(ref, Updated(new, [status |-> a, item |-> b]), account, deps)
                    /\ IsMadeAs(ref, Updated(new, [item |-> a, associations |-> b]), account, deps)
                    /\ IsMadeAs(ref, Updated(new, [item |-> a, deployments |-> b]), account, deps)
    BY <1>3, <1>5
  <1>6. ASSUME NEW ref, NEW new, NEW account, NEW deps, IsMadeAs(ref, new, account, deps),
               NEW a \in deps, IsNear(a, account)
        PROVE  /\ IsMadeAs(ref, Updated(new, [portfolio_task |-> a]), account, deps)
               /\ \A b : IsMadeAs(ref, Updated(new, [with |-> b, described_by |-> a]), account, deps)
               /\ \A b, d : b \in deps /\ IsNear(b, account) =>
                    IsMadeAs(ref, Updated(new, [products_ref |-> a, hub_products_ref |-> b,
                                                hub_task |-> d]), account, deps)
    BY <1>2, <1>4, <1>6
  <1> HIDE DEF used
  <1>7. ASSUME NEW ref, NEW section, NEW account, NEW region, NEW deps, section \notin Taken,
               ref[1] \in Placed => account = AccountIn(ref)
        PROVE  IsMadeAs(ref, Task(section, account, region, deps), account, deps)
    <2>1. IsMade(Task(section, account, region, deps))
      BY <1>7, TaskIs DEF Taken
    <2> QED
      BY <1>7, <2>1 DEF IsMadeAs, Task, AwaitsReferences, References, Taken
  <1>8. \A ref, section, task, account, deps :
          section \notin Taken /\ (ref[1] \in Placed => account = AccountIn(ref)) =>
            IsMadeAs(ref, Portfolio(section, task, account, deps), account, deps)
    BY <1>5, <1>7 DEF Portfolio
  <1>9. \A ref, section, account, region, deps, task :
          section \notin Taken /\ (ref[1] \in Placed => account = AccountIn(ref)) =>
            IsMadeAs(ref, Custodian(section, account, region, deps, task), account, deps)
    BY <1>5, <1>7 DEF Custodian
  <1>10. \A ref, new, account, deps : IsMadeAs(ref, new, account, deps) =>
           /\ \A task : IsMadeAs(ref, WithStatus(new, task), account, deps)
           /\ \A a : a \in deps /\ IsNear(a, account) => IsMadeAs(ref, WithId(new, a), account, deps)
    BY <1>5, <1>6 DEF WithStatus, WithId
  <1>11. ASSUME NEW ref, NEW new, NEW account, NEW deps, IsMadeAs(ref, new, account, deps)
         PROVE  /\ \A a, b : b \in deps /\ IsNear(b, account) =>
                     IsMadeAs(ref, Updated(new, [with |-> a, described_by |-> b]), account, deps)
                /\ \A a, b, d : {a, b} \subseteq deps /\ IsNear(a, account) /\ IsNear(b, account) =>
                     IsMadeAs(ref, Updated(new, [products_ref |-> a, hub_products_ref |-> b,
                                                 hub_task |-> d]), account, deps)
    BY <1>6, <1>11
  <1>12. \A ref, section, account, region, deps :
           section \notin Taken /\ (ref[1] \in Placed => account = AccountIn(ref)) =>
             IsMadeAs(ref, Task(section, account, region, deps), account, deps)
    BY <1>7
  <1>13. ASSUME NEW ref, NEW new, NEW account, NEW deps, IsMadeAs(ref, new, account, deps)
         PROVE  /\ \A task : IsMadeAs(ref, WithStatus(new, task), account, deps)
                /\ \A a : a \in deps /\ IsNear(a, account) =>
                      IsMadeAs(ref, WithId(new, a), account, deps)
                /\ \A a : IsMadeAs(ref, Updated(new, [execution |-> a]), account, deps)
                /\ \A a, b :
                     /\ b \in deps /\ IsNear(b, account) =>
                           IsMadeAs(ref, Updated(new, [with |-> a, described_by |-> b]), account, deps)
                     /\ IsMadeAs(ref, Updated(new, [execution |-> a, product |-> b]), account, deps)
                     /\ IsMadeAs(ref, Updated(new, [execution |-> a, stack_name |-> b]), account, deps)
                     /\ IsMadeAs(ref, Updated(new, [execution |-> a, policy |-> b]), account, deps)
                     /\ IsMadeAs(ref, Updated(new, [status |-> a, item |-> b]), account, deps)
                     /\ IsMadeAs(ref, Updated(new, [item |-> a, associations |-> b]), account, deps)
                     /\ IsMadeAs(ref, Updated(new, [item |-> a, deployments |-> b]), account, deps)
                /\ \A a, b, d : {a, b} \subseteq deps /\ IsNear(a, account) /\ IsNear(b, account) =>
                     IsMadeAs(ref, Updated(new, [products_ref |-> a, hub_products_ref |-> b,
                                                 hub_task |-> d]), account, deps)
    BY <1>5, <1>10, <1>11, <1>13
  <1> QED
    BY <1>8, <1>9, <1>12, <1>13

\* A task waits for what it was given.
LEMMA AddedAre ==
  ASSUME NEW table, IsTable(table), NEW ref, NEW refs, Known(AddDeps(table, ref, refs), ref)
  PROVE  /\ Known(table, ref)
         /\ refs \subseteq AddDeps(table, ref, refs).task[ref].deps
         /\ \A k \in DOMAIN table.task[ref] \ {"deps"} :
               k \in DOMAIN AddDeps(table, ref, refs).task[ref]
               /\ AddDeps(table, ref, refs).task[ref][k] = table.task[ref][k]
  BY DEF AddDeps, Known, IsTable, IsTask

\* What a task says of itself stays, and it has all the dependencies that it had.
SaysTheSame(r, old, new) ==
    /\ \A k \in DOMAIN old \cap {"section", "status", "generating", "account_id", "region", "portfolio"} :
          k \in DOMAIN new /\ new[k] = old[k]
    /\ AwaitsReferences(old) => AwaitsReferences(new)
    /\ r[1] \in ReadBefore => DOMAIN new \cap References \subseteq DOMAIN old
    /\ r[1] = "spoke-local-portfolios" => old.deps \subseteq new.deps

LEMMA FilledStays ==
  ASSUME NEW c, NEW table, IsFilled(c, table), NEW new, IsTable(new),
         DOMAIN new.task \subseteq DOMAIN table.task, new.raised = "" => table.raised = "",
         \A r \in DOMAIN new.task : SaysTheSame(r, table.task[r], new.task[r])
  PROVE  IsFilled(c, new)
  <1>0. \A r \in DOMAIN new.task : {"section", "account_id", "region"} \subseteq DOMAIN table.task[r]
    BY DEF IsFilled, IsTable, IsTask, IsBare, TaskKeys
  <1>1. ASSUME NEW r \in DOMAIN new.task, r[1] \in OfItems PROVE IsOne(c.tasks, r, new.task[r])
    <2>1. IsOne(c.tasks, r, table.task[r])
      BY <1>1 DEF IsFilled, AreOf
    <2> QED
      BY <1>0, <2>1 DEF IsOne, SaysTheSame
  <1>2. ASSUME NEW r \in DOMAIN new.task, r[1] = "ssm_outputs"
        PROVE  IsOne(c.tasks, new.task[r].generating, new.task[r])
    <2>1. IsOne(c.tasks, table.task[r].generating, table.task[r])
      BY <1>2 DEF IsFilled, AreOf
    <2>2. "generating" \in DOMAIN table.task[r]
      BY <1>2 DEF IsFilled, IsTable, IsEntry
    <2>3. new.task[r].generating = table.task[r].generating
      BY <2>2 DEF SaysTheSame
    <2> QED
      BY <1>0, <2>1, <2>3 DEF IsOne, SaysTheSame
  <1>3. AreOf(c.tasks, new)
    BY <1>1, <1>2 DEF AreOf
  <1>4. ASSUME NEW r \in DOMAIN new.task
        PROVE  IsPlaced(r, new.task[r])
    BY <1>0, <1>4 DEF IsFilled, AreAwaited, IsPlaced, SaysTheSame
  <1>5. ASSUME new.raised = "", NEW r \in DOMAIN new.task
        PROVE  AwaitsReferences(new.task[r]) /\ (r \in c.open \/ AwaitsHub(r, new.task[r]))
    <2> DEFINE old == table.task[r]
               now == new.task[r]
    <2>1. AwaitsReferences(old) /\ (r \in c.open \/ AwaitsHub(r, old)) /\ SaysTheSame(r, old, now) /\ r \in DOMAIN table.task
      BY <1>5 DEF IsFilled, AreAwaited
    <2>2. now.account_id = old.account_id /\ now.region = old.region
      BY <1>0 DEF SaysTheSame
    <2>3. r[1] = "spoke-local-portfolios" =>
            "status" \in DOMAIN old /\ "portfolio" \in DOMAIN old
      BY <2>1 DEF IsFilled, AreOf, IsOne, OfItems
    <2> HIDE DEF old, now
    <2>4. r[1] = "spoke-local-portfolios" =>
            now.status = old.status /\ LocalRef(Puppet, now) = LocalRef(Puppet, old)
      BY <2>1, <2>2, <2>3 DEF SaysTheSame, LocalRef, PortfolioRef
    <2>5. r \in c.open \/ AwaitsHub(r, now)
      BY <2>1, <2>2, <2>4 DEF AwaitsHub, SaysTheSame
    <2> QED
      BY <2>1, <2>5 DEF SaysTheSame, old, now
  <1> QED
    BY <1>3, <1>4, <1>5 DEF IsFilled, AreAwaited

LEMMA ItselfStays ==
  ASSUME NEW r, NEW task
  PROVE  SaysTheSame(r, task, task)
  BY DEF SaysTheSame

LEMMA FilledSet ==
  ASSUME NEW c, NEW table, IsFilled(c, table), NEW ref, NEW key,
         key \notin Fixed \cup {"status", "portfolio"}, NEW value,
         Known(table, ref) /\ key \in Gathered =>
            /\ ref[1] \notin Readers \cup {"ssm_outputs"}
            /\ key = "ssm_outputs" => AreOutputs(value)
            /\ key \in Consumed =>
                  AreReaders(key, value) /\ \A p \in DOMAIN value : value[p] \in table.task[ref].deps,
         Known(table, ref) /\ key \in References =>
            ref[1] \notin ReadBefore /\ value \in table.task[ref].deps /\ IsNear(value, table.task[ref].account_id)
  PROVE  IsFilled(c, Set(table, ref, key, value))
  <1> DEFINE new == Set(table, ref, key, value)
             task == Updated(table.task[ref], [k \in {key} |-> value])
  <1>1. IsTable(new)
    BY SetKeeps DEF IsFilled
  <1>2. key \notin {"section", "status", "generating", "account_id", "region", "portfolio", "deps"}
    BY DEF Fixed, TaskKeys
  <1>3. /\ DOMAIN new.task = DOMAIN table.task /\ new.raised = table.raised
        /\ \A r \in DOMAIN new.task : new.task[r] = IF r = ref THEN task ELSE table.task[r]
    BY DEF Set, Known, IsFilled, IsTable
  <1>4. ASSUME ref \in DOMAIN table.task PROVE SaysTheSame(ref, table.task[ref], task)
    <2> DEFINE old == table.task[ref]
    <2>1. /\ DOMAIN task = DOMAIN old \cup {key} /\ task[key] = value
          /\ \A k \in DOMAIN old : k # key => task[k] = old[k]
      BY DEF Updated
    <2>2. {"account_id", "deps"} \subseteq DOMAIN old
      BY <1>4 DEF IsFilled, IsTable, IsTask, IsBare, TaskKeys
    <2>3. key \in References =>
              ref[1] \notin ReadBefore /\ value \in old.deps /\ IsNear(value, old.account_id)
      BY <1>4 DEF Known
    <2> HIDE DEF task, old
    <2>4. task.deps = old.deps /\ task.account_id = old.account_id
      BY <1>2, <2>1, <2>2
    <2>5. AwaitsReferences(old) => AwaitsReferences(task)
      BY <2>1, <2>3, <2>4 DEF AwaitsReferences
    <2> QED
      BY <1>2, <2>1, <2>3, <2>4, <2>5 DEF SaysTheSame, old
  <1> HIDE DEF new, task
  <1>5. IsFilled(c, new)
    BY <1>1, <1>3, <1>4, FilledStays, ItselfStays
  <1> QED
    BY <1>5 DEF new

LEMMA FilledAddDeps ==
  ASSUME NEW c, NEW table, IsFilled(c, table), NEW ref, NEW refs
  PROVE  IsFilled(c, AddDeps(table, ref, refs))
  <1> DEFINE new == AddDeps(table, ref, refs)
             task == [table.task[ref] EXCEPT !.deps = table.task[ref].deps \cup refs]
  <1>1. IsTable(new)
    BY AddDepsKeeps DEF IsFilled
  <1>2. /\ DOMAIN new.task = DOMAIN table.task /\ new.raised = table.raised
        /\ \A r \in DOMAIN new.task : new.task[r] = IF r = ref THEN task ELSE table.task[r]
    BY DEF AddDeps, Known, IsFilled, IsTable
  <1>3. ASSUME ref \in DOMAIN table.task PROVE SaysTheSame(ref, table.task[ref], task)
    <2> DEFINE old == table.task[ref]
    <2>1. {"account_id", "deps"} \subseteq DOMAIN old
      BY <1>3 DEF IsFilled, IsTable, IsTask, IsBare, TaskKeys
    <2>2. /\ DOMAIN task = DOMAIN old /\ task.deps = old.deps \cup refs
          /\ \A k \in DOMAIN old : k # "deps" => task[k] = old[k]
      BY <2>1
    <2> HIDE DEF task, old
    <2>3. "deps" \notin References
      BY DEF References
    <2>4. AwaitsReferences(old) => AwaitsReferences(task)
      BY <2>1, <2>2, <2>3 DEF AwaitsReferences
    <2> QED
      BY <2>2, <2>4 DEF SaysTheSame, old
  <1> HIDE DEF new, task
  <1>4. IsFilled(c, new)
    BY <1>1, <1>2, <1>3, FilledStays, ItselfStays
  <1> QED
    BY <1>4 DEF new

LEMMA FilledDelete ==
  ASSUME NEW c, NEW table, IsFilled(c, table), NEW ref
  PROVE  IsFilled(c, Delete(table, ref))
  <1> DEFINE new == Delete(table, ref)
  <1>1. IsTable(new)
    BY DeleteKeeps DEF IsFilled
  <1>2. new.task = [r \in DOMAIN table.task \ {ref} |-> table.task[r]] /\ new.raised = table.raised
    BY DEF Delete, IsFilled, IsTable
  <1> HIDE DEF new
  <1>4. /\ DOMAIN new.task \subseteq DOMAIN table.task /\ new.raised = table.raised
        /\ \A r \in DOMAIN new.task : SaysTheSame(r, table.task[r], new.task[r])
    BY <1>2, ItselfStays
  <1>3. IsFilled(c, new)
    BY <1>1, <1>4, FilledStays
  <1> QED
    BY <1>3 DEF new

-----------------------------------------------------------------------------
(* What each generator leaves of a table is a table *)

LEMMA SharedKeep ==
  ASSUME NEW c, NEW table, IsFilled(c, table), NEW task
  PROVE  /\ \A execution : IsFilled(c, WithHubPortfolio(table, task, execution))
         /\ \A account, ref, deps : IsNear(ref, account) =>
                IsFilled(c, WithAssociation(table, task, account, ref, deps))
         /\ \A when, account, ref, deps : IsNear(ref, account) =>
                IsFilled(c, WithProducts(table, task, when, account, ref, deps))
         /\ \A kind, section, deps : kind \in MadeKinds \ Placed /\ section \in MadeKinds =>
                IsFilled(c, WithTerminatedStack(table, task, kind, section, deps))
         /\ \A name : IsFilled(c, WithOldStack(table, name, task))
         /\ IsFilled(c, WithShare(table, task))
  <1>7. {"portfolio-local", "portfolio-puppet-role-association", "portfolio-get-all-products",
         "terminate-cloudformation-stack", "describe-portfolio-shares"} \subseteq MadeKinds
    BY DEF MadeKinds
  <1>1. ASSUME NEW execution
        PROVE  IsFilled(c, WithHubPortfolio(table, task, execution))
    <2> DEFINE ref == LocalRef(Puppet, task)
               made == WithStatus(Portfolio("portfolio-local", task, Puppet, {}), task)
    <2>1. IsMadeAs(ref, made, Puppet, {})
      <3>1. "portfolio-local" \notin Taken /\ AccountIn(ref) = Puppet
        BY <1>7, MadeKindsAre, RefsAre
      <3> HIDE DEF ref
      <3>2. IsMadeAs(ref, Portfolio("portfolio-local", task, Puppet, {}), Puppet, {})
        BY <3>1, MadeIs
      <3> QED
        BY <3>2, MadeIs
    <2> HIDE DEF made
    <2>2. IsMadeAs(ref, Updated(made, [execution |-> execution]), Puppet, {}) /\ ref[1] \notin Taken
      BY <2>1, MadeIs, MadeRefs
    <2> QED
      BY <2>2, FilledPutMade DEF WithHubPortfolio, made
  <1>2. ASSUME NEW account, NEW ref, NEW deps, IsNear(ref, account)
        PROVE  IsFilled(c, WithAssociation(table, task, account, ref, deps))
    <2> DEFINE own == AssociationRef(account, task)
               all == {ref} \cup deps
               made == Portfolio("portfolio-puppet-role-association", task, account, all)
    <2>1. IsMadeAs(own, made, account, all) /\ own[1] \notin Taken
      BY <1>7, MadeIs, MadeKindsAre, RefsAre, MadeRefs
    <2>2. ref \in all
      OBVIOUS
    <2> HIDE DEF own, made, all
    <2>3. IsMadeAs(own, WithId(made, ref), account, all)
      BY <1>2, <2>1, <2>2, MadeIs
    <2> QED
      BY <2>1, <2>3, FilledPutMade DEF WithAssociation, own, made, all
  <1>3. ASSUME NEW when, NEW account, NEW ref, NEW deps, IsNear(ref, account)
        PROVE  IsFilled(c, WithProducts(table, task, when, account, ref, deps))
    <2> DEFINE own == ProductsRef(when, account, task)
               all == {ref} \cup deps
               made == Portfolio("portfolio-get-all-products", task, account, all)
    <2>1. IsMadeAs(own, made, account, all) /\ own[1] \notin Taken
      <3>1. "portfolio-get-all-products" \notin Taken /\ own[1] = "portfolio-get-all-products"
            /\ AccountIn(own) = account
        BY <1>7, MadeKindsAre, ProductsRefIs
      <3> HIDE DEF own, all
      <3> QED
        BY <3>1, MadeIs
    <2>2. ref \in all
      OBVIOUS
    <2> HIDE DEF own, made, all
    <2>3. IsMadeAs(own, WithId(made, ref), account, all)
      BY <1>3, <2>1, <2>2, MadeIs
    <2> QED
      BY <2>1, <2>3, FilledPutMade DEF WithProducts, own, made, all
  <1>4. ASSUME NEW kind \in MadeKinds \ Placed, NEW section \in MadeKinds, NEW deps
        PROVE  IsFilled(c, WithTerminatedStack(table, task, kind, section, deps))
    <2> DEFINE own == OfItem(kind, task)
               made == Portfolio(section, task, task.account_id, deps)
    <2>1. IsMadeAs(own, made, task.account_id, deps) /\ own[1] \notin Taken
      <3>1. own[1] = kind /\ kind \notin Taken \cup Placed /\ section \notin Taken
        BY MadeKindsAre DEF OfItem
      <3> HIDE DEF own
      <3> QED
        BY <3>1, MadeIs
    <2> HIDE DEF own, made
    <2>2. IsMadeAs(own, Updated(made, [status |-> "terminated", item |-> task.name]),
                   task.account_id, deps)
      BY <2>1, MadeIs
    <2> QED
      BY <2>1, <2>2, FilledPutMade DEF WithTerminatedStack, own, made
  <1>5. ASSUME NEW name PROVE IsFilled(c, WithOldStack(table, name, task))
    <2> DEFINE own == TerminateRef(name, task)
               made == Task("terminate-cloudformation-stack", task.account_id, task.region, {})
    <2>1. own[1] \notin Taken /\ own[1] \notin Placed
      BY RefsAre, MadeRefs DEF Placed
    <2>2. IsMadeAs(own, made, task.account_id, {})
      BY <1>7, <2>1, MadeIs, MadeKindsAre
    <2> HIDE DEF own, made
    <2>3. IsMadeAs(own, Updated(made, [execution |-> task.execution, stack_name |-> name]),
                   task.account_id, {})
      BY <2>2, MadeIs
    <2> QED
      BY <2>1, <2>3, FilledPutMade DEF WithOldStack, own, made
  <1>6. IsFilled(c, WithShare(table, task))
    <2> DEFINE hub == LocalRef(Puppet, task)
               describe == DescribeRef(task)
               share == ShareRef(task)
               account == task.account_id
               all == {hub, CREATE_POLICIES, describe}
               first == Portfolio("describe-portfolio-shares", task, Puppet, {hub})
               second == Portfolio(ShareSection(task), task, account, all)
               described == PutNew(table, describe, WithId(first, hub))
    <2>1. WithShare(table, task) = PutNew(described, share,
            Updated(WithId(second, hub), [with |-> share[2], described_by |-> describe]))
      BY DEF WithShare
    <2>2. IsMadeAs(describe, first, Puppet, {hub}) /\ describe[1] \notin Taken
      BY <1>7, MadeIs, MadeKindsAre, RefsAre, MadeRefs
    <2>3. IsMadeAs(share, second, account, all) /\ share[1] \notin Taken
      BY MadeIs, RefsAre, MadeRefs
    <2>4. /\ hub \in all /\ describe \in all /\ IsNear(hub, Puppet)
          /\ IsNear(hub, account) /\ IsNear(describe, account)
      BY NearAre
    <2> HIDE DEF hub, describe, share, account, all, first, second
    <2>5. IsMadeAs(describe, WithId(first, hub), Puppet, {hub})
      BY <2>2, <2>4, MadeIs
    <2>6. IsMadeAs(share, WithId(second, hub), account, all)
      BY <2>3, <2>4, MadeIs
    <2> DEFINE shared == WithId(second, hub)
    <2> HIDE DEF shared
    <2>7. IsMadeAs(share, Updated(shared, [with |-> share[2], described_by |-> describe]), account, all)
      BY <2>4, <2>6, MadeIs DEF shared
    <2>8. IsFilled(c, described)
      BY <2>2, <2>5, FilledPutMade
    <2> HIDE DEF described
    <2> QED
      BY <2>1, <2>3, <2>7, <2>8, FilledPutMade DEF shared
  <1> QED
    BY <1>1, <1>2, <1>3, <1>4, <1>5, <1>6

LEMMA LaunchesKeep ==
  ASSUME NEW c, NEW table, IsFilled(c, table), NEW ref, ref[1] \notin ReadBefore, NEW task
  PROVE  IsFilled(c, handle_launches(table, ref, task))
  <1> DEFINE hub == LocalRef(Puppet, task)
             imported == PortfolioRef("portfolio-imported", task.account_id, task)
             fromHub == WithHubPortfolio(table, task, "hub")
             shared == WithShare(fromHub, task)
             withImported == PutNew(shared, imported,
                 Updated(Portfolio("portfolio-imported", task, task.account_id, {ShareRef(task)}),
                         [execution |-> "hub"]))
             inSpoke == AddDeps(WithAssociation(withImported, task, task.account_id, imported, {}),
                                ref, {AssociationRef(task.account_id, task)})
             toSpoke == IF task.account_id = Puppet THEN fromHub ELSE inSpoke
             associated == WithAssociation(toSpoke, task, Puppet, hub, {})
             describe == <<"describe-provisioning-parameters", Puppet, task.region, task.portfolio,
                           task.product, task.version>>
             described == PutNew(associated, describe,
                 Updated(Portfolio("describe-provisioning-parameters", task, Puppet,
                                   {hub, AssociationRef(Puppet, task)}),
                         [execution |-> "hub", product |-> task.product]))
             withProducts == WithProducts(described, task, "", Puppet, hub, {AssociationRef(Puppet, task)})
             after == Set(AddDeps(withProducts, ref, {ProductsRef("", Puppet, task), describe}),
                          ref, "products_ref", ProductsRef("", Puppet, task))
  <1>1. "portfolio-imported" \notin Taken /\ "describe-provisioning-parameters" \notin Taken \cup Placed
    BY DEF Taken, OfItems, Kinds, Readers, Provisioned, Placed
  <1>2. /\ describe[1] = "describe-provisioning-parameters" /\ imported[1] = "portfolio-imported"
        /\ AccountIn(imported) = task.account_id
    BY RefsAre
  <1>10. /\ IsNear(hub, Puppet) /\ IsNear(imported, task.account_id)
         /\ \A account : IsNear(ProductsRef("", Puppet, task), account)
    BY NearAre
  <1>3. "products_ref" \notin Fixed \cup Gathered \cup {"status", "portfolio"}
    BY DEF Fixed, TaskKeys, Gathered, Consumed
  <1>4. IsFilled(c, shared) /\ IsFilled(c, fromHub)
    BY SharedKeep
  <1>5. IsFilled(c, withImported)
    <2> HIDE DEF shared, imported
    <2> DEFINE deps == {ShareRef(task)}
    <2> HIDE DEF deps
    <2>1. IsMadeAs(imported, Portfolio("portfolio-imported", task, task.account_id, deps),
                   task.account_id, deps)
      BY <1>1, <1>2, MadeIs
    <2>2. IsMadeAs(imported, Updated(Portfolio("portfolio-imported", task, task.account_id, deps),
                                     [execution |-> "hub"]), task.account_id, deps)
      BY <2>1, MadeIs
    <2> QED
      BY <1>1, <1>2, <1>4, <2>2, FilledPutMade DEF deps
  <1>6. IsFilled(c, associated)
    <2> HIDE DEF withImported, fromHub, imported, hub
    <2>1. IsFilled(c, inSpoke)
      BY <1>5, <1>10, SharedKeep, FilledAddDeps
    <2> HIDE DEF inSpoke
    <2> QED
      BY <1>4, <1>10, <2>1, SharedKeep
  <1>7. IsFilled(c, described)
    <2> DEFINE deps == {hub, AssociationRef(Puppet, task)}
    <2> HIDE DEF associated, describe, deps
    <2>1. IsMadeAs(describe, Portfolio("describe-provisioning-parameters", task, Puppet, deps),
                   Puppet, deps)
      BY <1>1, <1>2, MadeIs
    <2>2. IsMadeAs(describe, Updated(Portfolio("describe-provisioning-parameters", task, Puppet, deps),
                                     [execution |-> "hub", product |-> task.product]), Puppet, deps)
      BY <2>1, MadeIs
    <2> QED
      BY <1>1, <1>2, <1>6, <2>2, FilledPutMade DEF deps
  <1>8. IsFilled(c, after)
    <2> HIDE DEF described, hub
    <2>1. IsFilled(c, withProducts)
      BY <1>7, <1>10, SharedKeep
    <2> DEFINE products == ProductsRef("", Puppet, task)
               more == AddDeps(withProducts, ref, {products, describe})
    <2> HIDE DEF withProducts, describe
    <2>2. IsFilled(c, more)
      BY <2>1, FilledAddDeps
    <2>3. Known(more, ref) => products \in more.task[ref].deps
      BY <2>1, AddedAre, FilledIsTable
    <2>4. \A account : IsNear(products, account)
      BY <1>10
    <2> HIDE DEF products, more
    <2>5. IsFilled(c, Set(more, ref, "products_ref", products))
      BY <1>3, <2>2, <2>3, <2>4, FilledSet
    <2> QED
      BY <2>5 DEF products, more
  <1>9. handle_launches(table, ref, task) = IF HasNoUnit(task) THEN Raise(table, "no unit") ELSE after
    BY DEF handle_launches
  <1> HIDE DEF after
  <1> QED
    BY <1>8, <1>9, FilledRaise

LEMMA ImportedKeep ==
  ASSUME NEW c, NEW table, IsFilled(c, table), NEW ref, NEW task,
         ref[1] \in Placed, AccountIn(ref) = task.account_id
  PROVE  IsFilled(c, handle_imported_portfolios(table, ref, task))
  <1>3. {"portfolio-associations", "portfolio_associations", "launch_constraints", "resource_update_constraints",
         "portfolio-constraints-launch", "portfolio-constraints-resource_update"} \subseteq MadeKinds \ Placed
    BY DEF MadeKinds, Placed
  <1>4. \A t : IsFilled(c, t) => IsFilled(c, WithTerminatedStack(t, task, "portfolio_associations",
                                   "portfolio-associations", {CREATE_POLICIES}))
    BY <1>3, SharedKeep
  <1>1. \A t, target, deps : IsFilled(c, t) /\ IsNear(target, task.account_id) =>
          IsFilled(c, ImportedAssociations(t, task, target, deps))
    <2> SUFFICES ASSUME NEW t, NEW target, NEW deps, IsFilled(c, t), IsNear(target, task.account_id)
                 PROVE  IsFilled(c, ImportedAssociations(t, task, target, deps))
      OBVIOUS
    <2> DEFINE own == OfItem("portfolio_associations", task)
               all == {target, CREATE_POLICIES} \cup deps
               bare == WithStatus(Portfolio("portfolio-associations", task, task.account_id, all), task)
               made == WithId(bare, target)
    <2>1. /\ own[1] = "portfolio_associations" /\ own[1] \notin Taken \cup Placed
          /\ "portfolio-associations" \notin Taken /\ target \in all
      BY <1>3, MadeKindsAre DEF OfItem
    <2> HIDE DEF own, all
    <2>2. IsMadeAs(own, Portfolio("portfolio-associations", task, task.account_id, all), task.account_id, all)
      BY <2>1, MadeIs
    <2>3. IsMadeAs(own, bare, task.account_id, all)
      BY <2>2, MadeIs
    <2> HIDE DEF bare
    <2>4. IsMadeAs(own, made, task.account_id, all)
      BY <2>1, <2>3, MadeIs
    <2> HIDE DEF made
    <2>5. IsMadeAs(own, Updated(made, [item |-> task.name, associations |-> task.associations]),
                   task.account_id, all)
      BY <2>4, MadeIs
    <2> QED
      BY <2>1, <2>5, FilledPutMade DEF ImportedAssociations, made, bare, own, all
  <1>2. \A t, deps : IsFilled(c, t) => IsFilled(c, WithoutSpokeLocal(t, task, deps))
    BY <1>3, SharedKeep DEF WithoutSpokeLocal
  <1> DEFINE hub == LocalRef(Puppet, task)
             deps == IF task.account_id = Puppet THEN {} ELSE {ShareRef(task)}
             shared == WithHubPortfolio(WithShare(table, task), task, task.execution)
             inSpoke == WithAssociation(
                 WithAssociation(Delete(shared, ref), task, Puppet, hub, {CREATE_POLICIES}),
                 task, task.account_id, hub, {CREATE_POLICIES} \cup deps)
             inHub == WithAssociation(table, task, Puppet, ref, {CREATE_POLICIES})
             provisioned == IF task.account_id = Puppet
                            THEN ImportedAssociations(inHub, task, AssociationRef(Puppet, task), deps)
                            ELSE ImportedAssociations(inSpoke, task, hub, deps)
             terminated == IF task.associations = {} THEN table
                           ELSE Delete(WithTerminatedStack(table, task, "portfolio_associations",
                                           "portfolio-associations", {CREATE_POLICIES}), ref)
  <1>5. IsFilled(c, provisioned)
    <2>1. IsFilled(c, shared)
      BY SharedKeep
    <2> HIDE DEF shared
    <2>2. IsFilled(c, Delete(shared, ref))
      BY <2>1, FilledDelete
    <2>4. IsNear(hub, Puppet) /\ IsNear(hub, task.account_id) /\ IsNear(AssociationRef(Puppet, task), Puppet)
      BY NearAre
    <2> DEFINE deleted == Delete(shared, ref)
               first == WithAssociation(deleted, task, Puppet, hub, {CREATE_POLICIES})
    <2> HIDE DEF deleted, hub, deps
    <2>5. IsFilled(c, first)
      BY <2>2, <2>4, SharedKeep DEF deleted
    <2> HIDE DEF first
    <2>3. IsFilled(c, inSpoke)
      BY <2>4, <2>5, SharedKeep DEF first, deleted
    <2>6. task.account_id = Puppet => IsFilled(c, inHub)
      BY SharedKeep DEF IsNear
    <2> HIDE DEF inSpoke, inHub
    <2> QED
      BY <1>1, <2>3, <2>4, <2>6
  <1>6. IsFilled(c, terminated)
    BY <1>4, FilledDelete
  <1>7. handle_imported_portfolios(table, ref, task) =
          IF task.status # "terminated" /\ HasNoUnit(task) THEN Raise(table, "no unit")
          ELSE IF task.status # "terminated" /\ ~Get(task, "was_a_spoke_local_portfolio", FALSE)
          THEN provisioned
          ELSE IF task.status # "terminated" THEN WithoutSpokeLocal(provisioned, task, deps)
          ELSE IF Get(task, "was_a_spoke_local_portfolio", FALSE)
          THEN Raise(table, "dependencies are not set")
          ELSE terminated
    BY DEF handle_imported_portfolios
  <1> HIDE DEF provisioned, terminated
  <1> QED
    BY <1>2, <1>5, <1>6, <1>7, FilledRaise

LEMMA StacksGenerated ==
  ASSUME NEW c, NEW table, IsFilled(c, table), NEW ref, NEW task
  PROVE  /\ IsFilled(c, handle_stacks(table, ref, task))
         /\ IsFilled(c, handle_workspaces(table, ref, task))
         /\ IsFilled(c, handle_policies(table, ref, task))
  <1>1. ASSUME NEW t, IsFilled(c, t), NEW new, new[1] \notin Taken \cup Placed,
               NEW made, NEW account, NEW deps, IsMadeAs(new, made, account, deps)
        PROVE  IsFilled(c, Needed(t, ref, new, made))
    BY <1>1, FilledPutMade, FilledAddDeps DEF Needed
  <1>2. {"prepare-account-for-stacks", "get-template-from-s3", "workspace-account-preparation"}
          \subseteq MadeKinds \ Placed
    BY DEF MadeKinds, Placed
  <1>3. ASSUME NEW new, new[1] \notin Placed, NEW section, section \notin Taken, NEW account, NEW region, NEW deps
        PROVE  \A a, b :
          /\ IsMadeAs(new, Updated(Task(section, account, region, deps), [execution |-> a]), account, deps)
          /\ IsMadeAs(new, Updated(Task(section, account, region, deps), [execution |-> a, policy |-> b]),
                      account, deps)
    <2>1. IsMadeAs(new, Task(section, account, region, deps), account, deps)
      BY <1>3, MadeIs
    <2> QED
      BY <2>1, MadeIs
  <1>4. PrepareRef(task)[1] = "prepare-account-for-stacks" /\ TemplateRef(task)[1] = "get-template-from-s3"
    BY DEF PrepareRef, TemplateRef
  <1>5. IsFilled(c, handle_stacks(table, ref, task))
    <2> DEFINE first == PrepareRef(task)
               second == TemplateRef(task)
               made == Updated(Task("prepare-account-for-stacks", task.account_id, HomeRegion,
                                    {CREATE_POLICIES}), [execution |-> "hub"])
               other == Updated(Task("get-template-from-s3", Puppet, task.region,
                                     {CREATE_POLICIES}), [execution |-> "hub"])
    <2>1. /\ {first[1], second[1]} \cap (Taken \cup Placed) = {}
          /\ "prepare-account-for-stacks" \notin Taken /\ "get-template-from-s3" \notin Taken
      BY <1>2, <1>4, MadeKindsAre
    <2> HIDE DEF first, second
    <2>2. /\ IsMadeAs(first, made, task.account_id, {CREATE_POLICIES})
          /\ IsMadeAs(second, other, Puppet, {CREATE_POLICIES})
      BY <1>3, <2>1
    <2> HIDE DEF made, other
    <2>3. IsFilled(c, Needed(table, ref, first, made))
      BY <1>1, <2>1, <2>2
    <2>4. IsFilled(c, Needed(Needed(table, ref, first, made), ref, second, other))
      BY <1>1, <2>1, <2>2, <2>3
    <2> QED
      BY <2>4 DEF handle_stacks, first, second, made, other
  <1>6. IsFilled(c, handle_workspaces(table, ref, task))
    <2> DEFINE new == <<"workspace-account-preparation", task.account_id>>
               made == Updated(Task("workspace-account-preparation", task.account_id, HomeRegion,
                                    {CREATE_POLICIES}), [execution |-> "hub"])
    <2>1. new[1] \notin Taken \cup Placed /\ "workspace-account-preparation" \notin Taken
      BY <1>2, MadeKindsAre
    <2> HIDE DEF new
    <2>2. IsMadeAs(new, made, task.account_id, {CREATE_POLICIES})
      BY <1>3, <2>1
    <2> HIDE DEF made
    <2> QED
      BY <1>1, <2>1, <2>2 DEF handle_workspaces, new, made
  <1>7. IsFilled(c, handle_policies(table, ref, task))
    <2> DEFINE section == PolicySection(task)
               new == <<section, task.name>>
               made == Updated(Task(section, Puppet, task.region, {}),
                               [execution |-> "hub", policy |-> task.name])
    <2>1. new[1] \notin Taken \cup Placed /\ section \notin Taken
      BY MadeRefs DEF PolicySection, Placed
    <2> HIDE DEF new, section
    <2>2. IsMadeAs(new, made, Puppet, {})
      BY <1>3, <2>1
    <2> HIDE DEF made
    <2> QED
      BY <1>1, <2>1, <2>2 DEF handle_policies, new, made, section
  <1> QED
    BY <1>5, <1>6, <1>7

LEMMA CustodianKeeps ==
  ASSUME NEW c, NEW table, IsFilled(c, table), NEW ref, NEW task, NEW accounts
  PROVE  IsFilled(c, handle_c7n_aws_lambdas(table, ref, task, accounts))
  <1>3. {"c7n-create-custodian-role", "c7n-prepare-hub-account", "c7n-forward-events-for-account",
         "c7n-forward-events-for-region", "c7n-deploy-policies"} \cap (Taken \cup Placed) = {}
    BY DEF Taken, OfItems, Kinds, Readers, Provisioned, Placed
  <1>4. /\ \A a : /\ RoleRef(a)[1] \notin Taken \cup Placed /\ HubRef(a)[1] \notin Taken \cup Placed
                  /\ ForwardRef(a)[1] \notin Taken \cup Placed
                  /\ PoliciesRef(a)[1] \notin Taken \cup Placed
        /\ \A a, b : ForwardRegionRef(a, b)[1] \notin Taken \cup Placed
    BY <1>3 DEF RoleRef, HubRef, ForwardRef, PoliciesRef, ForwardRegionRef
  <1>5. "deployments" \notin Fixed \cup Gathered \cup References \cup {"status", "portfolio"}
    BY DEF Fixed, TaskKeys, Gathered, Consumed, References
  <1>6. ASSUME NEW t, IsFilled(c, t), NEW new, new[1] \notin Taken \cup Placed,
               NEW section, section \notin Taken, NEW account, NEW region, NEW deps
        PROVE  /\ IsFilled(c, Put(t, new, Custodian(section, account, region, deps, task)))
               /\ \A a, b : IsFilled(c, PutNew(t, new,
                     Updated(Custodian(section, account, region, deps, task), [item |-> a, deployments |-> b])))
    <2>1. IsMadeAs(new, Custodian(section, account, region, deps, task), account, deps)
      BY <1>6, MadeIs
    <2>2. \A a, b : IsMadeAs(new, Updated(Custodian(section, account, region, deps, task),
                                          [item |-> a, deployments |-> b]), account, deps)
      BY <2>1, MadeIs
    <2> QED
      BY <1>6, <2>1, <2>2, FilledPutMade
  <1>1. \A t, account, home : IsFilled(c, t) => IsFilled(c, WithCustodianIn(t, task, account, home))
    BY <1>3, <1>4, <1>6 DEF WithCustodianIn
  <1>2. \A t, home : IsFilled(c, t) => IsFilled(c, WithPolicies(t, task, home))
    <2> SUFFICES ASSUME NEW t, NEW home, IsFilled(c, t) PROVE IsFilled(c, WithPolicies(t, task, home))
      OBVIOUS
    <2> DEFINE own == PoliciesRef(task.custodian)
               there == PutNew(t, own, Updated(
                   Custodian("c7n-deploy-policies", task.custodian, home,
                             {RoleRef(task.custodian), HubRef(task.custodian)}, task),
                   [item |-> task.name, deployments |-> {}]))
    <2>1. IsFilled(c, there)
      BY <1>3, <1>4, <1>6
    <2>2. WithPolicies(t, task, home) = Set(there, own, "deployments",
            there.task[own].deployments \cup {<<task.region, task.account_id>>})
      BY DEF WithPolicies
    <2> HIDE DEF there, own
    <2> QED
      BY <1>5, <2>1, <2>2, FilledSet
  <1> QED
    BY <1>1, <1>2, <1>3, <1>4, <1>6, FilledDelete DEF handle_c7n_aws_lambdas

\* The folds below go through a set in some order, or a list, and each step keeps a table.
KeepsTable(p, q, r, c, j, table) == IsFilled(c, table)

AddUnitStep(above, ref, task, t, table, n) ==
    LET new == ParentUnitRef(above[n], task)
        child == IF n = 1 THEN ref ELSE ParentUnitRef(above[n - 1], task)
    IN AddDeps(PutNew(table, new, UnitTask(task, above[n])), child, {new})

UnitsFold == INSTANCE FoldTheorems WITH Op <- AddUnitStep, Good <- KeepsTable

LEMMA UnitsKeep ==
  ASSUME NEW c, NEW table, IsFilled(c, table), NEW ref, NEW task, IsTask(task), Len(task.path) \in Nat,
         task.section = "organizational-units", DOMAIN task \cap (Gathered \cup References) = {}
  PROVE  IsFilled(c, handle_organizational_units(table, ref, task))
  <1> DEFINE depth == Len(task.path)
             above == [n \in 1..depth |-> SubSeq(task.path, 1, depth - n)]
             count == [n \in 1..depth |-> n]
  <1>1. handle_organizational_units(table, ref, task) =
          IF Has(task, "parent_ou_id") THEN table
          ELSE UnitsFold!Folded(above, ref, task, c, table, count)
    BY DEF handle_organizational_units, FoldLeft, MapThenFoldSet, Max, AddUnitStep,
           UnitsFold!Folded, UnitsFold!IsFold, UnitsFold!Largest
  <1>2. \A new, n : IsFilled(c, new) => IsFilled(c, AddUnitStep(above, ref, task, c, new, n))
    <2> SUFFICES ASSUME NEW new, NEW n, IsFilled(c, new)
                 PROVE  IsFilled(c, AddUnitStep(above, ref, task, c, new, n))
      OBVIOUS
    <2> DEFINE parent == ParentUnitRef(above[n], task)
               unit == UnitTask(task, above[n])
    <2> HIDE DEF above
    <2>1. parent[1] \notin Taken \cup Placed
      BY DEF ParentUnitRef, Taken, OfItems, Kinds, Readers, Provisioned, Placed
    <2>2. IsTask(unit) /\ unit.section \notin Taken /\ DOMAIN unit \cap (Gathered \cup References) = {}
      <3>1. DOMAIN [path |-> above[n]] \cap KeysRead = {}
        BY DEF KeysRead, Fixed, TaskKeys, Gathered, Consumed
      <3>2. "section" \in DOMAIN task
        BY DEF IsTask, IsBare, TaskKeys
      <3>3. unit.section = "organizational-units" /\ DOMAIN unit = DOMAIN task \cup {"path"}
        BY <3>2 DEF UnitTask, Updated
      <3>4. "path" \notin Gathered \cup References
        BY DEF Gathered, Consumed, References
      <3>5. "organizational-units" \notin Taken
        BY DEF Taken, OfItems, Kinds, Readers, Provisioned
      <3>6. DOMAIN unit \cap (Gathered \cup References) = {}
        BY <3>3, <3>4
      <3>7. IsTask(unit)
        BY <3>1, UpdateKeeps DEF UnitTask
      <3> QED
        BY <3>3, <3>5, <3>6, <3>7
    <2> HIDE DEF parent, unit
    <2>4. IsEntry(parent, unit)
      BY <2>1, <2>2, MadeEntry DEF Taken
    <2>3. IsFilled(c, PutNew(new, parent, unit))
      BY <2>1, <2>2, <2>4, FilledPutOther DEF PutNew, Taken, Kinds, OfItems
    <2> QED
      BY <2>3, FilledAddDeps DEF AddUnitStep, parent, unit
  <1>3. depth \in Nat /\ DOMAIN count = 1..depth
    OBVIOUS
  <1> HIDE DEF depth, above, count
  <1>4. KeepsTable(above, ref, task, c, depth, UnitsFold!Folded(above, ref, task, c, table, count))
    BY <1>2, <1>3, UnitsFold!FoldKeeps DEF KeepsTable
  <1> QED
    BY <1>1, <1>4 DEF KeepsTable

TerminateStep(task, q, r, t, table, s) ==
    WithTerminatedStack(table, task, s[1], s[2], {CREATE_POLICIES})

TerminatedFold == INSTANCE FoldTheorems WITH Op <- TerminateStep, Good <- KeepsTable

LEMMA TerminatedKeep ==
  ASSUME NEW c, NEW table, IsFilled(c, table), NEW ref, NEW task
  PROVE  IsFilled(c, terminate_spoke_local_portfolio(table, ref, task))
  <1>1. IsFilled(c, WithoutStacks(table, task))
    <2> DEFINE seq == SetToSeq(OwnStacks(task))
               n == Cardinality(OwnStacks(task))
    <2>1. WithoutStacks(table, task) = TerminatedFold!Folded(task, 0, 0, c, table, seq)
      BY DEF WithoutStacks, FoldLeft, MapThenFoldSet, Max, TerminateStep,
             TerminatedFold!Folded, TerminatedFold!IsFold, TerminatedFold!Largest
    <2>2. IsFiniteSet(OwnStacks(task))
      <3>1. OwnStacks(task) \subseteq
              {<<"portfolio_associations", "portfolio-associations">>,
               <<"launch_constraints", "portfolio-constraints-launch">>,
               <<"resource_update_constraints", "portfolio-constraints-resource_update">>}
        BY DEF OwnStacks
      <3> QED
        BY <3>1, FewAreFinite
    <2>3. n \in Nat /\ DOMAIN seq = 1..n
      BY <2>2, SetToSeqIs
    <2>5. \A s \in OwnStacks(task) : s[1] \in MadeKinds \ Placed /\ s[2] \in MadeKinds
      BY DEF OwnStacks, MadeKinds, Placed
    <2>6. \A i \in 1..n : seq[i][1] \in MadeKinds \ Placed /\ seq[i][2] \in MadeKinds
      BY <2>2, <2>5, SetToSeqIs
    <2> HIDE DEF seq, n
    <2>7. ASSUME NEW j \in 0..n - 1, NEW t, IsFilled(c, t)
          PROVE  IsFilled(c, TerminateStep(task, 0, 0, c, t, seq[j + 1]))
      <3>1. j + 1 \in 1..n
        BY <2>3
      <3> QED
        BY <2>6, <2>7, <3>1, SharedKeep DEF TerminateStep
    <2>4. KeepsTable(task, 0, 0, c, n, TerminatedFold!Folded(task, 0, 0, c, table, seq))
      BY <2>3, <2>7, TerminatedFold!FoldKeeps DEF KeepsTable
    <2> QED
      BY <2>1, <2>4 DEF KeepsTable
  <1>3. {"portfolio-disassociate-all-products", "portfolio-local", "portfolio-puppet-role-association"}
          \cap Taken = {}
    BY DEF Taken, OfItems, Kinds, Readers, Provisioned
  <1> DEFINE account == task.account_id
             local == LocalRef(account, task)
             own == AssociationRef(account, task)
             gone == DisassociateRef(task)
             first == WithStatus(Portfolio("portfolio-local", task, account, {CREATE_POLICIES}), task)
             looked == PutNew(WithoutStacks(table, task), local, first)
             emptied == IF account = Puppet THEN looked ELSE WithoutProducts(looked, task)
             after == {local, CREATE_POLICIES}
             bare == WithStatus(Portfolio("portfolio-puppet-role-association", task, account, after), task)
             associated == PutNew(emptied, own, WithId(bare, local))
  <1>12. /\ local[1] = "portfolio-local" /\ AccountIn(local) = account
         /\ own[1] = "portfolio-puppet-role-association" /\ AccountIn(own) = account
    BY RefsAre
  <1>13. IsNear(local, account)
    BY NearAre
  <1>14. gone[1] = "portfolio-disassociate-all-products" /\ gone[1] \notin Placed
    BY DEF DisassociateRef, PortfolioRef, Placed
  <1>4. /\ local[1] = "portfolio-local" /\ AccountIn(local) = account /\ IsNear(local, account)
        /\ own[1] = "portfolio-puppet-role-association" /\ AccountIn(own) = account
        /\ gone[1] = "portfolio-disassociate-all-products" /\ gone[1] \notin Placed
    BY <1>12, <1>13, <1>14
  <1>5. IsMadeAs(local, first, account, {CREATE_POLICIES})
    <2> HIDE DEF local, account
    <2>1. IsMadeAs(local, Portfolio("portfolio-local", task, account, {CREATE_POLICIES}), account,
                   {CREATE_POLICIES})
      BY <1>3, <1>4, MadeIs
    <2> QED
      BY <2>1, MadeIs
  <1>6. IsMadeAs(own, WithId(bare, local), account, after)
    <2>1. local \in after
      OBVIOUS
    <2> HIDE DEF local, account, own, after
    <2>2. IsMadeAs(own, Portfolio("portfolio-puppet-role-association", task, account, after), account, after)
      BY <1>3, <1>4, MadeIs
    <2>3. IsMadeAs(own, bare, account, after)
      BY <2>2, MadeIs
    <2> HIDE DEF bare
    <2> QED
      BY <1>4, <2>1, <2>3, MadeIs
  <1>2. ASSUME NEW t, IsFilled(c, t)
        PROVE  IsFilled(c, WithoutProducts(t, task))
    <2> DEFINE products == ProductsRef("", account, task)
               all == {products, local, CREATE_POLICIES}
               listed == WithProducts(t, task, "", account, local, {})
               made == Portfolio("portfolio-disassociate-all-products", task, account, all)
    <2>1. local \in all
      OBVIOUS
    <2>2. WithoutProducts(t, task) = PutNew(listed, gone, Updated(WithId(made, local), [execution |-> "hub"]))
      BY DEF WithoutProducts
    <2> HIDE DEF local, gone, all, account
    <2>3. IsFilled(c, listed)
      BY <1>2, <1>4, SharedKeep
    <2>4. IsMadeAs(gone, made, account, all)
      BY <1>3, <1>4, MadeIs
    <2> HIDE DEF made
    <2>5. IsMadeAs(gone, WithId(made, local), account, all)
      BY <1>4, <2>1, <2>4, MadeIs
    <2>6. IsMadeAs(gone, Updated(WithId(made, local), [execution |-> "hub"]), account, all)
      BY <2>5, MadeIs
    <2> HIDE DEF listed
    <2> QED
      BY <1>3, <1>4, <2>2, <2>3, <2>6, FilledPutMade
  <1>8. IsFilled(c, looked)
    <2> HIDE DEF local, first
    <2> QED
      BY <1>1, <1>3, <1>4, <1>5, FilledPutMade
  <1>9. IsFilled(c, emptied)
    <2> HIDE DEF looked
    <2> QED
      BY <1>2, <1>8
  <1>10. IsFilled(c, associated)
    <2> HIDE DEF emptied, local, own, bare, after
    <2> QED
      BY <1>3, <1>4, <1>6, <1>9, FilledPutMade
  <1>11. \A deps : IsFilled(c, AddDeps(associated, ref, deps))
    <2> HIDE DEF associated
    <2> QED
      BY <1>10, FilledAddDeps
  <1> QED
    BY <1>11 DEF terminate_spoke_local_portfolio

\* The tasks that share a list are made before: none of them is added or taken away.
AppendStep(value, q, r, t, table, holder) == Set(table, holder, "associations", value)

AppendFold == INSTANCE FoldTheorems WITH Op <- AppendStep, Good <- KeepsTable

LEMMA AppendedKept ==
  ASSUME NEW c, NEW table, IsFilled(c, table), NEW own, NEW new
  PROVE  IsFilled(c, Appended(table, own, new))
  <1> DEFINE holders == HoldersOfList(table, own)
             value == table.task[own].associations \cup new
             seq == SetToSeq(holders)
             n == Cardinality(holders)
  <1>1. Appended(table, own, new) = AppendFold!Folded(value, 0, 0, c, table, seq)
    BY DEF Appended, FoldLeft, MapThenFoldSet, Max, AppendStep,
           AppendFold!Folded, AppendFold!IsFold, AppendFold!Largest
  <1>2. IsFiniteSet(holders)
    <2>1. IsFiniteSet(DOMAIN table.task) /\ holders \subseteq DOMAIN table.task
      BY DEF IsFilled, IsTable, HoldersOfList
    <2> QED
      BY <2>1, FS_Subset
  <1>3. n \in Nat /\ DOMAIN seq = 1..n
    BY <1>2, SetToSeqIs
  <1>4. "associations" \notin Fixed \cup Gathered \cup References \cup {"status", "portfolio"}
    BY DEF Fixed, TaskKeys, Gathered, Consumed, References
  <1> HIDE DEF holders, value, seq, n
  <1>5. ASSUME NEW j \in 0..n - 1, NEW t, IsFilled(c, t)
        PROVE  IsFilled(c, AppendStep(value, 0, 0, c, t, seq[j + 1]))
    BY <1>4, <1>5, FilledSet DEF AppendStep
  <1>6. KeepsTable(value, 0, 0, c, n, AppendFold!Folded(value, 0, 0, c, table, seq))
    BY <1>3, <1>5, AppendFold!FoldKeeps DEF KeepsTable
  <1> QED
    BY <1>1, <1>6 DEF KeepsTable

OldStackStep(task, q, r, t, table, name) == WithOldStack(table, name, task)

OldStacksFold == INSTANCE FoldTheorems WITH Op <- OldStackStep, Good <- KeepsTable

LEMMA AssociationsKept ==
  ASSUME NEW c, NEW table, IsFilled(c, table), NEW ref, NEW task, IsNear(ref, task.account_id)
  PROVE  IsFilled(c, WithAssociations(table, ref, task))
  <1> DEFINE old == {<<"associations-for", task.name>>, <<"associations-v2-for", task.name>>}
             seq == SetToSeq(old)
             n == Cardinality(old)
             stacks == FoldLeft(LAMBDA t, name : WithOldStack(t, name, task), table, seq)
  <1>1. stacks = OldStacksFold!Folded(task, 0, 0, c, table, seq)
    BY DEF FoldLeft, MapThenFoldSet, Max, OldStackStep,
           OldStacksFold!Folded, OldStacksFold!IsFold, OldStacksFold!Largest
  <1>2. IsFiniteSet(old)
    BY FewAreFinite
  <1>3. n \in Nat /\ DOMAIN seq = 1..n
    BY <1>2, SetToSeqIs
  <1>4. WithAssociations(table, ref, task) =
          LET oldRefs == {TerminateRef(name, task) : name \in old}
              own == OfPortfolio("portfolio_associations", task)
          IN IF task.associations = {} THEN table
             ELSE IF Known(stacks, own) /\ task.associations \subseteq stacks.task[own].associations
             THEN stacks
             ELSE IF Known(stacks, own)
             THEN Appended(AddDeps(stacks, own, oldRefs), own, task.associations)
             ELSE Put(stacks, own, Updated(
                      WithId(WithStatus(Portfolio("portfolio-associations", task, task.account_id,
                                                  {ref, CREATE_POLICIES} \cup oldRefs), task), ref),
                      [item |-> task.name, associations |-> task.associations]))
    BY DEF WithAssociations
  <1> HIDE DEF seq, n, stacks, old
  <1>5. KeepsTable(task, 0, 0, c, n, OldStacksFold!Folded(task, 0, 0, c, table, seq))
    BY <1>3, SharedKeep, OldStacksFold!FoldKeeps DEF KeepsTable, OldStackStep
  <1>6. IsFilled(c, stacks)
    BY <1>1, <1>5 DEF KeepsTable
  <1> DEFINE own == OfPortfolio("portfolio_associations", task)
             all == {ref, CREATE_POLICIES} \cup {TerminateRef(name, task) : name \in old}
             bare == WithStatus(Portfolio("portfolio-associations", task, task.account_id, all), task)
             made == Updated(WithId(bare, ref), [item |-> task.name, associations |-> task.associations])
  <1>7. /\ "portfolio-associations" \notin Taken /\ own[1] \notin Taken \cup Placed
    BY DEF OfPortfolio, Taken, OfItems, Kinds, Readers, Provisioned, Placed
  <1>8. IsMadeAs(own, made, task.account_id, all)
    <2>1. ref \in all
      OBVIOUS
    <2> HIDE DEF own, all
    <2>2. IsMadeAs(own, Portfolio("portfolio-associations", task, task.account_id, all), task.account_id, all)
      BY <1>7, MadeIs
    <2>3. IsMadeAs(own, bare, task.account_id, all)
      BY <2>2, MadeIs
    <2> HIDE DEF bare
    <2>4. IsMadeAs(own, WithId(bare, ref), task.account_id, all)
      BY <2>1, <2>3, MadeIs
    <2> QED
      BY <2>4, MadeIs
  <1>9. IsFilled(c, Put(stacks, own, made))
    <2> HIDE DEF own, made, all
    <2> QED
      BY <1>6, <1>7, <1>8, FilledPutMade
  <1>10. \A refs, new : IsFilled(c, Appended(AddDeps(stacks, own, refs), own, new))
    <2> HIDE DEF own
    <2> QED
      BY <1>6, FilledAddDeps, AppendedKept
  <1> QED
    BY <1>4, <1>6, <1>9, <1>10

\* What a spoke local portfolio is: the tasks of one item with one reference do not differ in it.
AreSame(M, ref, task) ==
    \A one \in M : RefOf(one) = ref =>
        /\ one.status = task.status /\ one.portfolio = task.portfolio
        /\ one.account_id = task.account_id /\ one.region = task.region

LEMMA SpokeLocalAdded ==
  ASSUME NEW c, NEW ref, NEW table, IsFilled(Open(c, ref), table), ref[1] = "spoke-local-portfolios",
         NEW task, AreSame(c.tasks, ref, task),
         \/ table.raised # "" \/ task.status = "terminated" \/ task.account_id = Puppet
         \/ ref \in DOMAIN table.task => LocalRef(Puppet, task) \in table.task[ref].deps
  PROVE  IsFilled(c, table)
  <1> DEFINE old == table.task[ref]
  <1>1. ASSUME table.raised = "", ref \in DOMAIN table.task
        PROVE  AwaitsHub(ref, old)
    <2>1. IsOne(c.tasks, ref, old)
      BY <1>1 DEF IsFilled, AreOf, OfItems, Open
    <2> HIDE DEF old
    <2>2. /\ old.status = task.status /\ old.account_id = task.account_id
          /\ old.region = task.region /\ old.portfolio = task.portfolio
      BY <2>1 DEF IsOne, AreSame
    <2>3. LocalRef(Puppet, old) = LocalRef(Puppet, task)
      BY <2>2 DEF LocalRef, PortfolioRef
    <2>4. \/ task.status = "terminated" \/ task.account_id = Puppet
          \/ LocalRef(Puppet, task) \in old.deps
      BY <1>1 DEF old
    <2> QED
      BY <2>2, <2>3, <2>4 DEF AwaitsHub
  <1> QED
    BY <1>1, FilledClose

LEMMA InSpokeKeeps ==
  ASSUME NEW c, NEW ref, NEW table, IsFilled(Open(c, ref), table), ref[1] = "spoke-local-portfolios",
         NEW task, AreSame(c.tasks, ref, task), IsNear(ref, task.account_id)
  PROVE  IsFilled(c, InSpoke(table, ref, task))
  <1> DEFINE account == task.account_id
             hub == LocalRef(Puppet, task)
             spoke == AssociationRef(account, task)
             before == ProductsRef("before", Puppet, task)
             products == ProductsRef("", account, task)
             import == task.product_generation_method = "import"
             section == IF import THEN "portfolio-import" ELSE "portfolio-copy"
             withHub == WithHubPortfolio(table, task, task.execution)
             hubKnown == AddDeps(withHub, ref, {hub})
             hubReady == WithAssociation(hubKnown, task, Puppet, hub, {CREATE_POLICIES})
             withShare == WithShare(hubReady, task)
             shared == WithProducts(withShare, task, "before", Puppet, hub, {AssociationRef(Puppet, task)})
             spokeReady == WithAssociation(shared, task, account, ref, {CREATE_POLICIES, ShareRef(task)})
             listed == WithProducts(spokeReady, task, "", account, ref, {spoke})
             all == {ref, products, before} \cup IF import THEN {hub} ELSE {}
             bare == WithStatus(Portfolio(section, task, account, all), task)
             made == WithId(bare, ref)
             full == Updated(made, [products_ref |-> products, hub_products_ref |-> before, hub_task |-> hub])
  <1>1. IsNear(hub, Puppet) /\ IsNear(products, account) /\ IsNear(before, account)
    BY NearAre
  <1>2. IsFilled(c, hubKnown)
    <2>1. IsFilled(Open(c, ref), withHub)
      BY SharedKeep
    <2> HIDE DEF withHub, hub
    <2>2. IsFilled(Open(c, ref), hubKnown)
      BY <2>1, FilledAddDeps
    <2>3. ref \in DOMAIN hubKnown.task => hub \in hubKnown.task[ref].deps
      BY <2>1, AddedAre, FilledIsTable DEF Known
    <2> HIDE DEF hubKnown
    <2> QED
      BY <2>2, <2>3, SpokeLocalAdded DEF hub
  <1>3. IsFilled(c, shared)
    <2> HIDE DEF hubKnown, hub
    <2>1. IsFilled(c, hubReady)
      BY <1>1, <1>2, SharedKeep
    <2> HIDE DEF hubReady
    <2>2. IsFilled(c, withShare)
      BY <2>1, SharedKeep
    <2> HIDE DEF withShare
    <2> QED
      BY <1>1, <2>2, SharedKeep
  <1>4. IsFilled(c, listed)
    <2> HIDE DEF shared
    <2>1. IsFilled(c, spokeReady)
      BY <1>3, SharedKeep
    <2> HIDE DEF spokeReady
    <2> QED
      BY <2>1, SharedKeep
  <1>5. InSpoke(table, ref, task) = Put(listed, CopyRef(task), full)
    BY DEF InSpoke
  <1>6. section \notin Taken
    BY DEF Taken, OfItems, Kinds, Readers, Provisioned
  <1>7. {ref, products, before} \subseteq all
    OBVIOUS
  <1> DEFINE own == CopyRef(task)
  <1>8. own[1] \notin Taken \cup Placed
    BY MadeRefs, RefsAre
  <1> HIDE DEF listed, section, products, before, hub, all, own, account
  <1>9. IsMadeAs(own, bare, account, all)
    <2>1. IsMadeAs(own, Portfolio(section, task, account, all), account, all)
      BY <1>6, <1>8, MadeIs
    <2> QED
      BY <2>1, MadeIs
  <1> HIDE DEF bare
  <1>10. IsMadeAs(own, made, account, all)
    BY <1>7, <1>9, MadeIs DEF account
  <1> HIDE DEF made
  <1>11. IsMadeAs(own, full, account, all)
    BY <1>1, <1>7, <1>10, MadeIs
  <1> HIDE DEF full
  <1> QED
    BY <1>4, <1>5, <1>8, <1>11, FilledPutMade DEF own

\* A task that is put there and given its dependencies is put there with them.
LEMMA PutThenAdded ==
  ASSUME NEW table, IsTable(table), NEW ref, NEW task, "deps" \in DOMAIN task, NEW deps
  PROVE  AddDeps(Put(table, ref, task), ref, deps) =
            Put(table, ref, [task EXCEPT !.deps = task.deps \cup deps])
  <1> DEFINE with == [task EXCEPT !.deps = task.deps \cup deps]
             put == Put(table, ref, task)
             added == AddDeps(put, ref, deps)
             other == Put(table, ref, with)
  <1>1. /\ DOMAIN put = DOMAIN table /\ put.task = Updated(table.task, [r \in {ref} |-> task])
        /\ \A k \in DOMAIN table \ {"task"} : put[k] = other[k]
        /\ DOMAIN other = DOMAIN table /\ other.task = Updated(table.task, [r \in {ref} |-> with])
    BY DEF Put, IsTable
  <1>2. "task" \in DOMAIN table
    BY DEF IsTable
  <1>3. /\ DOMAIN put.task = DOMAIN table.task \cup {ref}
        /\ \A r \in DOMAIN put.task : put.task[r] = IF r = ref THEN task ELSE table.task[r]
    BY <1>1 DEF Updated
  <1>4. /\ DOMAIN other.task = DOMAIN table.task \cup {ref}
        /\ \A r \in DOMAIN other.task : other.task[r] = IF r = ref THEN with ELSE table.task[r]
        /\ other.task = [r \in DOMAIN table.task \cup {ref} |-> other.task[r]]
    BY <1>1 DEF Updated
  <1>5. added = [put EXCEPT !.task = [put.task EXCEPT ![ref] = with]]
    <2>1. Known(put, ref) /\ put.task[ref] = task
      BY <1>3 DEF Known
    <2> HIDE DEF put
    <2> QED
      BY <2>1 DEF AddDeps
  <1> HIDE DEF put, other, with
  <1>6. [put.task EXCEPT ![ref] = with] = other.task
    BY <1>3, <1>4
  <1>7. other = [k \in DOMAIN table |-> other[k]]
    BY DEF other, Put
  <1>8. added = other
    BY <1>1, <1>2, <1>5, <1>6, <1>7
  <1> QED
    BY <1>8 DEF other, with, put

LEMMA ConstraintsKept ==
  ASSUME NEW c, NEW table, IsFilled(c, table), NEW ref, NEW task, IsNear(ref, task.account_id),
         NEW kind \in MadeKinds \ Placed, NEW section \in MadeKinds, NEW old, NEW combined, NEW conflict
  PROVE  IsFilled(c, WithConstraints(table, ref, task, kind, section, old, combined, conflict))
  <1> DEFINE account == task.account_id
             own == OfPortfolio(kind, task)
             after == After(task)
             stacks == WithOldStack(table, <<old, task.name>>, task)
             bare == WithStatus(Portfolio(section, task, account, {}), task)
             made == WithId(bare, ref)
             new == Updated(made, [item |-> task.name, constraints |-> Empty, products_ref |-> after])
             first == PutNew(stacks, own, new)
             deps == {ref, TerminateRef(<<old, task.name>>, task)} \cup DependenciesForConstraints(task)
             full == [new EXCEPT !.deps = new.deps \cup deps]
  <1>1. "constraints" \notin Fixed \cup Gathered \cup References \cup {"status", "portfolio"}
    BY DEF Fixed, TaskKeys, Gathered, Consumed, References
  <1>2. WithConstraints(table, ref, task, kind, section, old, combined, conflict) =
          IF first.task[own].execution # task.execution \/ conflict
          THEN Raise(table, "constraints of another item")
          ELSE Set(AddDeps(first, own, deps), own, "constraints", combined)
    BY DEF WithConstraints
  <1>3. own[1] \notin Taken \cup Placed /\ section \notin Taken
    BY MadeKindsAre DEF OfPortfolio
  <1>4. IsFilled(c, stacks)
    BY SharedKeep
  <1>5. IsNear(after, account) /\ {ref, after} \subseteq deps
    BY NearAre DEF After, DependenciesForConstraints
  <1> HIDE DEF account, own, after, deps, stacks
  <1>6. IsMadeAs(own, bare, account, {})
    <2>1. IsMadeAs(own, Portfolio(section, task, account, {}), account, {})
      BY <1>3, MadeIs
    <2> QED
      BY <2>1, MadeIs
  <1> HIDE DEF bare
  <1>7. /\ IsMade(new) /\ new.section \notin OfItems /\ new.account_id = account /\ new.deps = {}
        /\ \A k \in DOMAIN new \cap References : new[k] \in {ref, after}
    <2> DEFINE id == [portfolio_task |-> ref]
               with == [item |-> task.name, constraints |-> Empty, products_ref |-> after]
    <2>1. /\ DOMAIN id = {"portfolio_task"} /\ id["portfolio_task"] = ref
          /\ DOMAIN with = {"item", "constraints", "products_ref"} /\ with["products_ref"] = after
      OBVIOUS
    <2>2. made = Updated(bare, id) /\ new = Updated(made, with)
      BY DEF WithId
    <2> HIDE DEF id, with, made, new
    <2>3. (DOMAIN id \cup DOMAIN with) \cap KeysRead = {}
      BY <2>1 DEF KeysRead, Fixed, TaskKeys, Gathered, Consumed
    <2>11. /\ DOMAIN made = DOMAIN bare \cup DOMAIN id
           /\ \A k \in DOMAIN id : made[k] = id[k]
           /\ \A k \in DOMAIN bare \ DOMAIN id : made[k] = bare[k]
      <3>1. /\ DOMAIN Updated(bare, id) = DOMAIN bare \cup DOMAIN id
            /\ \A k \in DOMAIN id : Updated(bare, id)[k] = id[k]
            /\ \A k \in DOMAIN bare \ DOMAIN id : Updated(bare, id)[k] = bare[k]
        BY UpdatedIs
      <3> QED
        BY <2>2, <3>1
    <2>12. /\ DOMAIN new = DOMAIN made \cup DOMAIN with
           /\ \A k \in DOMAIN with : new[k] = with[k]
           /\ \A k \in DOMAIN made \ DOMAIN with : new[k] = made[k]
      <3>1. /\ DOMAIN Updated(made, with) = DOMAIN made \cup DOMAIN with
            /\ \A k \in DOMAIN with : Updated(made, with)[k] = with[k]
            /\ \A k \in DOMAIN made \ DOMAIN with : Updated(made, with)[k] = made[k]
        BY UpdatedIs
      <3> QED
        BY <2>2, <3>1
    <2>4. /\ DOMAIN made = DOMAIN bare \cup DOMAIN id /\ DOMAIN new = DOMAIN made \cup DOMAIN with
          /\ \A k \in DOMAIN id : made[k] = id[k]
          /\ \A k \in DOMAIN bare \ DOMAIN id : made[k] = bare[k]
          /\ \A k \in DOMAIN with : new[k] = with[k]
          /\ \A k \in DOMAIN made \ DOMAIN with : new[k] = made[k]
      BY <2>11, <2>12
    <2>5. IsMade(made)
      BY <1>6, <2>2, <2>3, UpdateKeeps DEF IsMadeAs
    <2>6. IsMade(new)
      BY <2>2, <2>3, <2>5, UpdateKeeps
    <2>7. {"section", "account_id", "deps"} \subseteq DOMAIN bare \cap KeysRead
      BY <1>6 DEF IsMadeAs, IsMade, IsTask, IsBare, TaskKeys, KeysRead, Fixed
    <2>8. new.section = bare.section /\ new.account_id = bare.account_id /\ new.deps = bare.deps
      BY <2>3, <2>4, <2>7
    <2>9. DOMAIN bare \cap References = {}
      BY <1>6 DEF IsMadeAs, AwaitsReferences
    <2>10. \A k \in DOMAIN new \cap References : new[k] \in {ref, after}
      <3> SUFFICES ASSUME NEW k \in DOMAIN new \cap References PROVE new[k] \in {ref, after}
        OBVIOUS
      <3>1. k \notin DOMAIN bare /\ k # "item" /\ k # "constraints"
        BY <2>9 DEF References
      <3>2. k = "portfolio_task" \/ k = "products_ref"
        BY <2>1, <2>4, <3>1
      <3> QED
        BY <2>1, <2>4, <3>2
    <2> QED
      BY <1>6, <2>6, <2>8, <2>10 DEF IsMadeAs
  <1> HIDE DEF made, new
  <1>8. IsMadeAs(own, full, account, deps)
    <2>1. "deps" \in DOMAIN new
      BY <1>7 DEF IsMade, IsTask
    <2>2. /\ DOMAIN full = DOMAIN new /\ full.deps = deps
          /\ \A k \in DOMAIN new \ {"deps"} : full[k] = new[k]
      BY <1>7, <2>1
    <2> HIDE DEF full
    <2>3. IsMade(full)
      BY <1>7, <2>2 DEF IsMade, IsTask, IsBare, TaskKeys, Consumed, Gathered
    <2>4. full.section = new.section /\ full.account_id = new.account_id
      BY <1>7, <2>2 DEF IsMade, IsTask, IsBare, TaskKeys
    <2>5. "deps" \notin References
      BY DEF References
    <2>6. AwaitsReferences(full)
      BY <1>5, <1>7, <2>2, <2>4, <2>5 DEF AwaitsReferences, account
    <2> QED
      BY <1>3, <1>7, <2>2, <2>3, <2>4, <2>6 DEF IsMadeAs
  <1>9. IsFilled(c, AddDeps(first, own, deps))
    <2>1. CASE Known(stacks, own)
      BY <1>4, <2>1, FilledAddDeps DEF PutNew
    <2>2. CASE ~Known(stacks, own)
      <3>1. AddDeps(first, own, deps) = Put(stacks, own, full)
        BY <1>4, <1>7, <2>2, PutThenAdded DEF PutNew, IsFilled, IsMade, IsTask
      <3> HIDE DEF full, first
      <3> QED
        BY <1>3, <1>4, <1>8, <3>1, FilledPutMade
    <2> QED
      BY <2>1, <2>2
  <1> HIDE DEF first, full
  <1>10. IsFilled(c, Set(AddDeps(first, own, deps), own, "constraints", combined))
    BY <1>1, <1>9, FilledSet
  <1> QED
    BY <1>2, <1>10, FilledRaise DEF own, deps

LEMMA ProvisionedKeep ==
  ASSUME NEW c, NEW ref, NEW table, IsFilled(Open(c, ref), table), ref[1] = "spoke-local-portfolios",
         NEW task, AreSame(c.tasks, ref, task), IsNear(ref, task.account_id)
  PROVE  IsFilled(c, provision_spoke_local_portfolio(table, ref, task))
  <1>1. task.account_id = Puppet => IsFilled(c, InHub(table, ref, task))
    <2> SUFFICES ASSUME task.account_id = Puppet PROVE IsFilled(c, InHub(table, ref, task))
      OBVIOUS
    <2>1. IsFilled(c, table) /\ IsNear(ref, Puppet)
      BY SpokeLocalAdded
    <2> QED
      BY <2>1, SharedKeep DEF InHub
  <1>2. IsFilled(c, InSpoke(table, ref, task))
    BY InSpokeKeeps
  <1>3. \A t : IsFilled(c, t) => IsFilled(c, WithProductsAfter(t, ref, task))
    BY SharedKeep DEF WithProductsAfter
  <1>4. {"launch_constraints", "resource_update_constraints"} \subseteq MadeKinds \ Placed
        /\ {"portfolio-constraints-launch", "portfolio-constraints-resource_update"} \subseteq MadeKinds
    BY DEF MadeKinds, Placed
  <1>5. \A t : IsFilled(c, t) => IsFilled(c, WithLaunchConstraints(t, ref, task))
    BY <1>4, ConstraintsKept DEF WithLaunchConstraints
  <1>6. \A t : IsFilled(c, t) => IsFilled(c, WithResourceUpdateConstraints(t, ref, task))
    BY <1>4, ConstraintsKept DEF WithResourceUpdateConstraints
  <1> QED
    BY <1>1, <1>2, <1>3, <1>5, <1>6, AssociationsKept DEF provision_spoke_local_portfolio

LEMMA SpokeLocalGenerated ==
  ASSUME NEW c, NEW ref, NEW table, IsFilled(Open(c, ref), table), ref[1] = "spoke-local-portfolios",
         NEW task, AreSame(c.tasks, ref, task), AccountIn(ref) = task.account_id
  PROVE  IsFilled(c, handle_spoke_local_portfolios(table, ref, task))
  <1>1. IsNear(ref, task.account_id)
    BY DEF IsNear, Placed
  <1>2. task.status = "terminated" => IsFilled(c, terminate_spoke_local_portfolio(table, ref, task))
    BY SpokeLocalAdded, TerminatedKeep
  <1>3. IsFilled(c, Raise(table, "no unit"))
    <2>1. IsFilled(Open(c, ref), Raise(table, "no unit"))
      BY FilledRaise
    <2>2. Raise(table, "no unit").raised # ""
      BY DEF Raise, IsFilled, IsTable
    <2> QED
      BY <2>1, <2>2, FilledClose
  <1> QED
    BY <1>1, <1>2, <1>3, ProvisionedKeep DEF handle_spoke_local_portfolios

-----------------------------------------------------------------------------
(* The tasks of the outputs and the parameters *)

LEMMA PutMakesKnown ==
  ASSUME NEW c, NEW table, IsFilled(c, table), NEW ref, NEW task
  PROVE  DOMAIN Put(table, ref, task).task = DOMAIN table.task \cup {ref}
  BY DEF Put, Updated, IsFilled, IsTable

LEMMA SetKeepsKnown ==
  ASSUME NEW c, NEW table, IsFilled(c, table), NEW ref, NEW key, NEW value
  PROVE  DOMAIN Set(table, ref, key, value).task = DOMAIN table.task
  BY DEF Set, IsFilled, IsTable

AddOutputStep(ref, task, r, t, table, output) ==
    IF table.raised = ""
    THEN LET outputRef == OutputRef(output, task) IN
         IF Known(table, outputRef) THEN Raise(table, "duplicate output")
         ELSE IF task.section \notin {"launches", "stacks"} THEN Raise(table, "unknown section")
         ELSE Set(Put(table, outputRef,
                      Updated(Task("ssm_outputs", outputRef[2], outputRef[3], {ref}),
                              [name |-> Tail(outputRef), generating |-> ref,
                               status |-> task.status, execution |-> task.execution])),
                  ref, "ssm_outputs", Get(table.task[ref], "ssm_outputs", {}) \cup {outputRef})
    ELSE table
KnowsTask(ref, q, r, c, j, table) == IsFilled(c, table) /\ Known(table, ref)

OutputsFold == INSTANCE FoldTheorems WITH Op <- AddOutputStep, Good <- KnowsTask

LEMMA FilledIs ==
  ASSUME NEW words, IsList(words), NEW which, NEW task
  PROVE  IsList(Filled(words, which, task))
  <1> DEFINE f == Filled(words, which, task)
  <1>1. Len(words) \in Nat /\ DOMAIN words = 1..Len(words)
    BY ListIs
  <1>2. f = [n \in 1..Len(words) |-> f[n]]
    BY <1>1 DEF Filled
  <1> HIDE DEF f
  <1>3. IsList(f)
    <2> DEFINE S == {f[i] : i \in 1..Len(words)}
    <2>1. \A i \in 1..Len(words) : f[i] \in S
      OBVIOUS
    <2> HIDE DEF S
    <2>2. f \in Seq(S)
      BY <1>1, <1>2, <2>1
    <2> QED
      BY <2>2, ListFrom
  <1> QED
    BY <1>3 DEF f

\* Three words and a list.
LEMMA PrefixedIs ==
  ASSUME NEW a, NEW b, NEW c, NEW words, IsList(words)
  PROVE  LET r == <<a, b, c>> \o words IN IsList(r) /\ r # <<>> /\ r[1] = a
  <1> DEFINE S == {a, b, c} \cup ToSet(words)
             r == <<a, b, c>> \o words
  <1>1. words \in Seq(ToSet(words)) /\ ToSet(words) \subseteq S /\ a \in S /\ b \in S /\ c \in S
    BY DEF IsList
  <1> HIDE DEF S
  <1>2. words \in Seq(S) /\ <<a, b, c>> \in Seq(S)
    BY <1>1
  <1> DEFINE prefix == <<a, b, c>>
  <1>3. prefix \in Seq(S) /\ Len(prefix) = 3 /\ prefix[1] = a
    BY <1>2
  <1> HIDE DEF prefix
  <1>7. /\ prefix \o words \in Seq(S) /\ Len(prefix \o words) = Len(prefix) + Len(words)
        /\ \A i \in 1..Len(prefix) + Len(words) : (prefix \o words)[i] =
              IF i <= Len(prefix) THEN prefix[i] ELSE words[i - Len(prefix)]
    BY <1>2, <1>3, ConcatProperties
  <1>8. Len(words) \in Nat
    BY ListIs
  <1>4. /\ prefix \o words \in Seq(S) /\ Len(prefix \o words) = 3 + Len(words) /\ Len(words) \in Nat
        /\ (prefix \o words)[1] = prefix[1]
    <2>1. 1 \in 1..Len(prefix) + Len(words) /\ 1 <= Len(prefix)
      BY <1>3, <1>8
    <2> QED
      BY <1>3, <1>7, <1>8, <2>1
  <1>5. prefix \o words # <<>>
    BY <1>4
  <1>6. IsList(prefix \o words)
    BY <1>4, ListFrom
  <1> QED
    BY <1>3, <1>4, <1>5, <1>6 DEF prefix

LEMMA OutputRefIs ==
  ASSUME NEW output, IsList(output.param_name), NEW task
  PROVE  LET o == OutputRef(output, task) IN IsList(o) /\ o # <<>> /\ o[1] = "ssm_outputs"
  <1>1. IsList(Filled(output.param_name, OfTask, task))
    BY FilledIs
  <1> QED
    BY <1>1, PrefixedIs DEF OutputRef

LEMMA OutputsKeep ==
  ASSUME NEW c, NEW table, IsFilled(c, table), NEW ref, Known(table, ref), NEW task, ref[1] = task.section,
         IsOne(c.tasks, ref, task),
         IsFiniteSet(task.outputs), \A output \in task.outputs : IsList(output.param_name)
  PROVE  IsFilled(c, ssm_outputs_handler(table, ref, task))
  <1> DEFINE seq == SetToSeq(task.outputs)
             n == Cardinality(task.outputs)
  <1>1. ssm_outputs_handler(table, ref, task) = OutputsFold!Folded(ref, task, 0, c, table, seq)
    BY DEF ssm_outputs_handler, Steps, FoldLeft, MapThenFoldSet, Max, AddOutputStep,
           OutputsFold!Folded, OutputsFold!IsFold, OutputsFold!Largest
  <1>2. n \in Nat /\ DOMAIN seq = 1..n /\ \A i \in 1..n : IsList(seq[i].param_name)
    BY SetToSeqIs
  <1> HIDE DEF seq, n
  <1>3. ASSUME NEW j, NEW t, KnowsTask(ref, task, 0, c, j, t), NEW output, IsList(output.param_name)
        PROVE  KnowsTask(ref, task, 0, c, j + 1, AddOutputStep(ref, task, 0, c, t, output))
    <2> DEFINE outputRef == OutputRef(output, task)
               made == Updated(Task("ssm_outputs", outputRef[2], outputRef[3], {ref}),
                               [name |-> Tail(outputRef), generating |-> ref,
                                status |-> task.status, execution |-> task.execution])
               put == Put(t, outputRef, made)
               all == Get(t.task[ref], "ssm_outputs", {}) \cup {outputRef}
    <2>1. IsFilled(c, t) /\ Known(t, ref)
      BY <1>3 DEF KnowsTask
    <2>2. \A why : why # "" => IsFilled(c, Raise(t, why)) /\ Known(Raise(t, why), ref)
      BY <2>1, FilledRaise DEF Raise, Known, IsFilled, IsTable
    <2>3. IsList(outputRef) /\ outputRef # <<>> /\ outputRef[1] = "ssm_outputs"
      BY <1>3, OutputRefIs
    <2>4. ASSUME task.section \in {"launches", "stacks"}
          PROVE  IsFilled(c, put) /\ Known(put, ref)
      <3> DEFINE bare == Task("ssm_outputs", outputRef[2], outputRef[3], {ref})
                 with == [name |-> Tail(outputRef), generating |-> ref,
                          status |-> task.status, execution |-> task.execution]
      <3>1. /\ DOMAIN bare = {"section", "account_id", "region", "deps", "status"}
            /\ bare.section = "ssm_outputs" /\ bare.deps = {ref}
        BY DEF Task
      <3>2. /\ DOMAIN with = {"name", "generating", "status", "execution"}
            /\ with.name = Tail(outputRef) /\ with.generating = ref /\ with.status = task.status
        OBVIOUS
      <3>3. made = Updated(bare, with)
        OBVIOUS
      <3> HIDE DEF bare, with, outputRef, made
      <3>4. /\ DOMAIN made = {"section", "account_id", "region", "deps", "status", "name",
                              "generating", "execution"}
            /\ made.section = "ssm_outputs" /\ made.deps = {ref}
            /\ made.name = Tail(outputRef) /\ made.generating = ref /\ made.status = task.status
        BY <3>1, <3>2, <3>3 DEF Updated
      <3>5. IsTask(made)
        BY <3>4 DEF IsTask, IsBare, TaskKeys, Consumed
      <3>6. DOMAIN made \cap (Gathered \cup {"depends_on"}) = {}
        BY <3>4 DEF Gathered, Consumed
      <3>7. ref[1] \in Provisioned
        BY <2>4 DEF Provisioned
      <3>8. \A k \in Consumed : k \notin DOMAIN made
        BY <3>4 DEF Consumed
      <3>9. IsEntry(outputRef, made)
        BY <2>3, <3>4, <3>6, <3>7, <3>8 DEF IsEntry, Provisioned
      <3>10. outputRef[1] \notin OfItems \cup Placed /\ IsOne(c.tasks, made.generating, made)
        <4>1. outputRef[1] \notin OfItems \cup Placed
          BY <2>3 DEF OfItems, Provisioned, Placed
        <4>2. ref[1] # "spoke-local-portfolios"
          BY <2>4
        <4> QED
          BY <3>4, <4>1, <4>2 DEF IsOne
      <3>11. AwaitsReferences(made) /\ AwaitsHub(outputRef, made) /\ IsPlaced(outputRef, made)
        <4>1. DOMAIN made \cap References = {}
          BY <3>4 DEF References
        <4> QED
          BY <2>3, <3>4, <3>10, <4>1 DEF AwaitsReferences, AwaitsHub, IsPlaced, OfItems
      <3>12. IsFilled(c, Put(t, outputRef, made))
        BY <2>1, <3>5, <3>9, <3>10, <3>11, FilledPut
      <3> QED
        BY <2>1, <3>12, PutMakesKnown DEF Known
    <2>5. AreOutputs(all)
      <3>1. AreOutputs(Get(t.task[ref], "ssm_outputs", {}))
        BY <2>1, FS_EmptySet DEF Get, Known, IsFilled, IsTable, IsTask, IsBare, AreOutputs
      <3> HIDE DEF outputRef
      <3> QED
        BY <2>3, <3>1, FS_AddElement DEF AreOutputs
    <2>6. \/ AddOutputStep(ref, task, 0, c, t, output) \in
               {t, Raise(t, "duplicate output"), Raise(t, "unknown section")}
          \/ /\ task.section \in {"launches", "stacks"}
             /\ AddOutputStep(ref, task, 0, c, t, output) = Set(put, ref, "ssm_outputs", all)
      BY DEF AddOutputStep
    <2>7. /\ "ssm_outputs" \notin Fixed \cup References \cup {"status", "portfolio"}
          /\ "ssm_outputs" \notin Consumed
      BY DEF Fixed, TaskKeys, Consumed, References
    <2>8. task.section \in {"launches", "stacks"} => ref[1] \notin Readers \cup {"ssm_outputs"}
      BY DEF Readers
    <2> HIDE DEF put, all
    <2>9. task.section \in {"launches", "stacks"} =>
            /\ IsFilled(c, Set(put, ref, "ssm_outputs", all))
            /\ Known(Set(put, ref, "ssm_outputs", all), ref)
      <3> SUFFICES ASSUME task.section \in {"launches", "stacks"}
                   PROVE  /\ IsFilled(c, Set(put, ref, "ssm_outputs", all))
                          /\ Known(Set(put, ref, "ssm_outputs", all), ref)
        OBVIOUS
      <3>1. IsFilled(c, put) /\ Known(put, ref) /\ ref[1] \notin Readers \cup {"ssm_outputs"}
        BY <2>4, <2>8
      <3>2. IsFilled(c, Set(put, ref, "ssm_outputs", all))
        BY <2>5, <2>7, <3>1, FilledSet
      <3> QED
        BY <3>1, <3>2, SetKeepsKnown DEF Known
    <2> DEFINE after == AddOutputStep(ref, task, 0, c, t, output)
    <2> HIDE DEF after
    <2>10. IsFilled(c, after) /\ Known(after, ref)
      <3>1. CASE after \in {t, Raise(t, "duplicate output"), Raise(t, "unknown section")}
        BY <2>1, <2>2, <3>1
      <3>2. CASE /\ task.section \in {"launches", "stacks"}
                 /\ after = Set(put, ref, "ssm_outputs", all)
        BY <2>9, <3>2
      <3> QED
        BY <2>6, <3>1, <3>2 DEF after
    <2> QED
      BY <2>10 DEF KnowsTask, after
  <1>4. ASSUME NEW j \in 0..n - 1, NEW t, KnowsTask(ref, task, 0, c, j, t)
        PROVE  KnowsTask(ref, task, 0, c, j + 1, AddOutputStep(ref, task, 0, c, t, seq[j + 1]))
    <2>1. j + 1 \in 1..n
      BY <1>2
    <2> QED
      BY <1>2, <1>3, <1>4, <2>1
  <1>5. KnowsTask(ref, task, 0, c, n, OutputsFold!Folded(ref, task, 0, c, table, seq))
    BY <1>2, <1>4, OutputsFold!FoldKeeps DEF KnowsTask
  <1> QED
    BY <1>1, <1>5 DEF KnowsTask

\* A consumer has one more parameter.
LEMMA ConsumesKeeps ==
  ASSUME NEW c, NEW table, IsFilled(c, table), NEW ref, ref[1] \notin Readers \cup {"ssm_outputs"},
         NEW kind \in Consumed, NEW key, NEW parameterRef, IsReader(kind, parameterRef)
  PROVE  IsFilled(c, Consumes(table, ref, kind, key, parameterRef))
  <1> DEFINE old == Get(table.task[ref], kind, Empty)
             new == Updated(old, [k \in {key} |-> parameterRef])
             more == AddDeps(table, ref, {parameterRef})
  <1>1. ASSUME Known(table, ref)
        PROVE  AreReaders(kind, new) /\ \A p \in DOMAIN new : new[p] \in more.task[ref].deps
    <2>1. IsTask(table.task[ref]) /\ IsEntry(ref, table.task[ref]) /\ ref \in DOMAIN table.task
      BY <1>1 DEF Known, IsFilled, IsTable
    <2>2. AreReaders(kind, old) /\ \A p \in DOMAIN old : old[p] \in table.task[ref].deps
      <3>1. AreReaders(kind, Empty)
        BY EmptyIs, FS_EmptySet DEF AreReaders
      <3>2. CASE kind \in DOMAIN table.task[ref]
        BY <2>1, <3>2 DEF Get, IsTask, IsBare, IsEntry
      <3>3. CASE kind \notin DOMAIN table.task[ref]
        BY <3>1, <3>3, EmptyIs DEF Get
      <3> QED
        BY <3>2, <3>3
    <2>3. /\ DOMAIN new = DOMAIN old \cup {key} /\ new[key] = parameterRef
          /\ \A p \in DOMAIN old : p # key => new[p] = old[p]
      BY DEF Updated
    <2>4. more.task[ref].deps = table.task[ref].deps \cup {parameterRef}
      BY <1>1, <2>1 DEF AddDeps, IsFilled, IsTable, IsTask
    <2> HIDE DEF new, old, more
    <2>5. IsFiniteSet(DOMAIN new)
      BY <2>2, <2>3, FS_AddElement DEF AreReaders
    <2> QED
      BY <2>2, <2>3, <2>4, <2>5 DEF AreReaders
  <1>2. Consumes(table, ref, kind, key, parameterRef) =
          IF Known(table, ref) THEN Set(more, ref, kind, new) ELSE table
    BY DEF Consumes
  <1>3. /\ kind \notin Fixed \cup References \cup {"status", "portfolio"} /\ kind # "ssm_outputs"
        /\ kind \in Gathered
    BY DEF Consumed, Fixed, TaskKeys, Gathered, References
  <1>5. IsFilled(c, more) /\ (Known(more, ref) => Known(table, ref))
    BY FilledAddDeps DEF AddDeps, Known, IsFilled, IsTable
  <1> HIDE DEF new, more
  <1>6. IsFilled(c, Set(more, ref, kind, new))
    BY <1>1, <1>3, <1>5, FilledSet
  <1> QED
    BY <1>2, <1>6

\* A task that reads a parameter or an object is named for what it reads.
LEMMA ReaderKeeps ==
  ASSUME NEW c, NEW table, IsFilled(c, table), NEW ref, ref[1] \in Readers,
         NEW section, section = ref[1], NEW account, NEW region, NEW with,
         DOMAIN with \subseteq {"name", "execution", "status", "reads"},
         ref[1] = "ssm_parameters" => "name" \in DOMAIN with /\ with.name = Tail(ref),
         ref[1] = "boto3_parameters" =>
            "reads" \in DOMAIN with /\ with.reads = ref /\ account = ref[4] /\ region = ref[5]
  PROVE  IsFilled(c, PutNew(table, ref, Updated(Task(section, account, region, {}), with)))
  <1> DEFINE bare == Task(section, account, region, {})
             made == Updated(bare, with)
  <1>1. /\ DOMAIN bare = {"section", "account_id", "region", "deps", "status"}
        /\ bare.section = ref[1] /\ bare.account_id = account /\ bare.region = region
    BY DEF Task
  <1>2. "ssm_outputs" # ref[1] /\ ref[1] \notin Provisioned
    BY DEF Readers, Provisioned
  <1> HIDE DEF bare, made
  <1>3. /\ DOMAIN made = {"section", "account_id", "region", "deps", "status"} \cup DOMAIN with
        /\ made.section = ref[1] /\ made.account_id = account /\ made.region = region
        /\ "name" \in DOMAIN with => made.name = with.name
        /\ "reads" \in DOMAIN with => made.reads = with.reads
    BY <1>1 DEF Updated, made
  <1>4. IsTask(made)
    BY <1>3 DEF IsTask, IsBare, TaskKeys, Consumed
  <1>5. DOMAIN made \cap (Gathered \cup {"depends_on"}) = {}
    BY <1>3 DEF Gathered, Consumed
  <1>6. \A k \in Consumed : k \notin DOMAIN made
    BY <1>3 DEF Consumed
  <1>7. IsEntry(ref, made)
    BY <1>2, <1>3, <1>5, <1>6 DEF IsEntry
  <1>8. /\ ref[1] \notin OfItems \cup Placed \cup {"ssm_outputs"}
        /\ made.section # "spoke-local-portfolios"
    BY <1>3 DEF Readers, OfItems, Provisioned, Placed
  <1>9. DOMAIN made \cap References = {}
    BY <1>3 DEF References
  <1> QED
    BY <1>4, <1>7, <1>8, <1>9, FilledPutOther DEF PutNew, made, bare

LEMMA HandlersKeep ==
  ASSUME NEW c, NEW table, IsFilled(c, table), NEW ref, ref[1] \notin Readers \cup {"ssm_outputs"},
         NEW task, NEW details, NEW name
  PROVE  /\ IsFilled(c, ssm_parameter_handler(table, ref, task, details))
         /\ IsFilled(c, boto3_parameter_handler(table, ref, task, name, details))
         /\ IsFilled(c, s3_parameter_handler(table, ref, task, details))
  <1>1. Consumed = {"ssm_parameters", "boto3_parameters", "s3_objects"}
    BY DEF Consumed
  <1>2. \A t, key, parameterRef : IsFilled(c, t) /\ IsReader("ssm_parameters", parameterRef) =>
          IsFilled(c, Consumes(t, ref, "ssm_parameters", key, parameterRef))
    BY <1>1, ConsumesKeeps
  <1>3. \A t, key, parameterRef : IsFilled(c, t) /\ IsReader("boto3_parameters", parameterRef) =>
          IsFilled(c, Consumes(t, ref, "boto3_parameters", key, parameterRef))
    BY <1>1, ConsumesKeeps
  <1>4. \A t, key, parameterRef : IsFilled(c, t) /\ IsReader("s3_objects", parameterRef) =>
          IsFilled(c, Consumes(t, ref, "s3_objects", key, parameterRef))
    BY <1>1, ConsumesKeeps
  <1>5. IsFilled(c, ssm_parameter_handler(table, ref, task, details))
    <2> DEFINE ssm == details.ssm
               account == Replaced(Get(ssm, "account_id", Puppet), {AccountId, PuppetAccountId}, task)
               region == Replaced(Get(ssm, "region", HomeRegion), {Region}, task)
               key == Filled(ssm.name, OfAll, task)
               parameterRef == SsmRef(account, region, ssm, key)
               execution == IF account # task.account_id /\ task.execution = "spoke"
                            THEN "hub" ELSE task.execution
               with == [name |-> Tail(parameterRef), execution |-> execution]
               put == PutNew(table, parameterRef,
                             Updated(Task(parameterRef[1], account, region, {}), with))
    <2>1. parameterRef[1] \in {"ssm_parameters", "ssm_parameters_with_a_path"}
      BY DEF SsmRef
    <2>2. ssm_parameter_handler(table, ref, task, details) =
            IF ~Known(table, parameterRef) /\ account \notin {task.account_id, Puppet}
            THEN Raise(table, "parameter of another account")
            ELSE Consumes(put, ref, "ssm_parameters", key, parameterRef)
      BY DEF ssm_parameter_handler
    <2> HIDE DEF parameterRef, account, region, key, execution
    <2>3. DOMAIN with = {"name", "execution"} /\ with.name = Tail(parameterRef)
      OBVIOUS
    <2> HIDE DEF with
    <2>4. IsFilled(c, put)
      <3>1. parameterRef[1] \in Readers
        BY <2>1 DEF Readers
      <3>2. DOMAIN with \subseteq {"name", "execution", "status", "reads"}
        BY <2>3
      <3>3. parameterRef[1] # "boto3_parameters"
        BY <2>1
      <3> QED
        BY <2>1, <2>3, <3>1, <3>2, <3>3, ReaderKeeps
    <2>5. IsReader("ssm_parameters", parameterRef)
      BY <2>1 DEF IsReader
    <2> HIDE DEF put
    <2> QED
      BY <1>2, <2>2, <2>4, <2>5, FilledRaise
  <1>6. IsFilled(c, boto3_parameter_handler(table, ref, task, name, details))
    <2> DEFINE boto3 == details.boto3
               account == Replaced(boto3.account_id, {AccountId, PuppetAccountId}, task)
               region == Replaced(boto3.region, {Region}, task)
               parameterRef == Boto3Ref(details, account, region)
               with == [name |-> Tail(parameterRef), execution |-> task.execution,
                        status |-> task.status, reads |-> parameterRef]
               put == PutNew(table, parameterRef, Updated(Task("boto3_parameters", account, region, {}), with))
    <2>1. parameterRef[1] = "boto3_parameters" /\ parameterRef[4] = account /\ parameterRef[5] = region
      BY DEF Boto3Ref
    <2>2. boto3_parameter_handler(table, ref, task, name, details) =
            IF DOMAIN details \cap OutputKinds = {} THEN Raise(table, "plain boto3 parameter")
            ELSE Consumes(put, ref, "boto3_parameters", name, parameterRef)
      BY DEF boto3_parameter_handler
    <2> HIDE DEF parameterRef, account, region
    <2>3. DOMAIN with = {"name", "execution", "status", "reads"} /\ with.reads = parameterRef
      OBVIOUS
    <2> HIDE DEF with
    <2>4. IsFilled(c, put)
      <3>1. parameterRef[1] \in Readers
        BY <2>1 DEF Readers
      <3>2. DOMAIN with \subseteq {"name", "execution", "status", "reads"}
        BY <2>3
      <3>3. parameterRef[1] # "ssm_parameters"
        BY <2>1
      <3> QED
        BY <2>1, <2>3, <3>1, <3>2, <3>3, ReaderKeeps
    <2>5. IsReader("boto3_parameters", parameterRef)
      BY <2>1 DEF IsReader
    <2> HIDE DEF put
    <2> QED
      BY <1>3, <2>2, <2>4, <2>5, FilledRaise
  <1>7. IsFilled(c, s3_parameter_handler(table, ref, task, details))
    <2> DEFINE key == Filled(details.s3.key, OfAll, task)
               parameterRef == <<"s3_get_object", key>>
               with == [name |-> key, execution |-> "hub"]
               put == PutNew(table, parameterRef, Updated(Task("s3_get_object", Puppet, HomeRegion, {}), with))
    <2>1. parameterRef[1] = "s3_get_object"
      OBVIOUS
    <2>2. s3_parameter_handler(table, ref, task, details) =
            Consumes(put, ref, "s3_objects", Filled(Get(details.s3, "name", <<"None">>), OfAll, task),
                     parameterRef)
      BY DEF s3_parameter_handler
    <2> HIDE DEF parameterRef, key
    <2>3. DOMAIN with = {"name", "execution"}
      OBVIOUS
    <2> HIDE DEF with
    <2>4. IsFilled(c, put)
      <3>1. parameterRef[1] \in Readers
        BY <2>1 DEF Readers
      <3>2. DOMAIN with \subseteq {"name", "execution", "status", "reads"}
        BY <2>3
      <3>3. parameterRef[1] # "ssm_parameters" /\ parameterRef[1] # "boto3_parameters"
        BY <2>1
      <3> QED
        BY <2>1, <2>3, <3>1, <3>2, <3>3, ReaderKeeps
    <2>5. IsReader("s3_objects", parameterRef)
      BY <2>1 DEF IsReader
    <2> HIDE DEF put
    <2> QED
      BY <1>4, <2>2, <2>4, <2>5
  <1> QED
    BY <1>5, <1>6, <1>7

ReadStep(merged, ref, task, p, table, source) ==
    IF table.raised = ""
    THEN IF source \notin DOMAIN merged[p] THEN table
         ELSE IF source = "ssm" THEN ssm_parameter_handler(table, ref, task, merged[p])
         ELSE IF source = "boto3" THEN boto3_parameter_handler(table, ref, task, p, merged[p])
         ELSE s3_parameter_handler(table, ref, task, merged[p])
    ELSE table

ReadFold == INSTANCE FoldTheorems WITH Op <- ReadStep, Good <- KeepsTable

HandleStep(merged, ref, task, t, table, p) ==
    IF table.raised = ""
    THEN FoldLeft(LAMBDA u, source : ReadStep(merged, ref, task, p, u, source), table,
                  <<"ssm", "boto3", "s3">>)
    ELSE table

HandleFold == INSTANCE FoldTheorems WITH Op <- HandleStep, Good <- KeepsTable

LEMMA HandleKeeps ==
  ASSUME NEW c, NEW table, IsFilled(c, table), NEW merged, NEW ref, ref[1] \notin Readers \cup {"ssm_outputs"},
         NEW task, NEW p
  PROVE  IsFilled(c, HandleStep(merged, ref, task, c, table, p))
  <1> DEFINE sources == <<"ssm", "boto3", "s3">>
             read == FoldLeft(LAMBDA u, source : ReadStep(merged, ref, task, p, u, source), table, sources)
  <1>1. read = ReadFold!Folded(merged, ref, task, p, table, sources)
    BY DEF FoldLeft, MapThenFoldSet, Max, ReadFold!Folded, ReadFold!IsFold, ReadFold!Largest
  <1>2. DOMAIN sources = 1..3 /\ 3 \in Nat
    OBVIOUS
  <1> HIDE DEF sources, read
  <1>3. \A t, source : IsFilled(c, t) => IsFilled(c, ReadStep(merged, ref, task, p, t, source))
    BY HandlersKeep DEF ReadStep
  <1>4. PICK f : ReadFold!AreSteps(merged, ref, task, p, table, sources, 3, f)
    BY <1>2, ReadFold!FoldSteps
  <1>5. /\ f[0] = table /\ read = f[3]
        /\ \A j \in 1..3 : f[j] = ReadStep(merged, ref, task, p, f[j - 1], sources[j])
    BY <1>1, <1>4 DEF ReadFold!AreSteps
  <1>6. /\ f[1] = ReadStep(merged, ref, task, p, f[0], sources[1])
        /\ f[2] = ReadStep(merged, ref, task, p, f[1], sources[2])
        /\ f[3] = ReadStep(merged, ref, task, p, f[2], sources[3])
    BY <1>5
  <1>7. IsFilled(c, f[0]) /\ IsFilled(c, f[1]) /\ IsFilled(c, f[2]) /\ IsFilled(c, f[3])
    BY <1>3, <1>5, <1>6
  <1> QED
    BY <1>5, <1>7 DEF HandleStep, read, sources

LEMMA ParametersKeep ==
  ASSUME NEW c, NEW table, IsFilled(c, table), NEW ref, ref[1] \notin Readers \cup {"ssm_outputs"},
         NEW task, NEW manifest, NEW accounts,
         IsFiniteSet(DOMAIN manifest.parameters),
         IsFiniteSet(DOMAIN ParametersForAccount(accounts, task.account_id))
  PROVE  IsFilled(c, AddParameters(table, ref, task, manifest, accounts))
  <1> DEFINE own == Get(table.parameters, ItemKey(task), Empty)
             account == ParametersForAccount(accounts, task.account_id)
             merged == Merged(Merged(manifest.parameters, own), account)
             after == [table EXCEPT !.parameters =
                        Updated(@, [k \in {ItemKey(task)} |-> Leaked(manifest.parameters, own, account)])]
             seq == SetToSeq(DOMAIN merged)
             n == Cardinality(DOMAIN merged)
  <1>1. AddParameters(table, ref, task, manifest, accounts) =
          IF task.status = "terminated" THEN after
          ELSE HandleFold!Folded(merged, ref, task, c, after, seq)
    BY DEF AddParameters, Steps, FoldLeft, MapThenFoldSet, Max, HandleStep, ReadStep,
           HandleFold!Folded, HandleFold!IsFold, HandleFold!Largest
  <1>2. IsFiniteSet(DOMAIN own)
    BY FS_EmptySet DEF Get, IsFilled, IsTable, Empty
  <1>3. IsFiniteSet(DOMAIN merged)
    <2>1. DOMAIN merged = (DOMAIN manifest.parameters \cup DOMAIN own) \cup DOMAIN account
      BY DEF Merged
    <2> QED
      BY <1>2, <2>1, FS_Union
  <1>4. n \in Nat /\ DOMAIN seq = 1..n
    BY <1>3, SetToSeqIs
  <1>5. IsFilled(c, after)
    <2> DEFINE leaked == Leaked(manifest.parameters, own, account)
               parameters == Updated(table.parameters, [k \in {ItemKey(task)} |-> leaked])
    <2>1. DOMAIN leaked = DOMAIN own
      BY DEF Leaked
    <2>3. after = [table EXCEPT !.parameters = parameters]
      OBVIOUS
    <2> HIDE DEF leaked, own, after
    <2>2. \A k \in DOMAIN parameters : IsFiniteSet(DOMAIN parameters[k])
      BY <1>2, <2>1 DEF Updated, IsFilled, IsTable
    <2> HIDE DEF parameters
    <2> QED
      BY <2>2, <2>3 DEF IsFilled, IsTable, AreOf, AreAwaited
  <1> HIDE DEF seq, n, after, merged
  <1>6. KeepsTable(merged, ref, task, c, n, HandleFold!Folded(merged, ref, task, c, after, seq))
    BY <1>4, <1>5, HandleKeeps, HandleFold!FoldKeeps DEF KeepsTable
  <1> QED
    BY <1>1, <1>5, <1>6 DEF KeepsTable

-----------------------------------------------------------------------------
(* The tasks that get_tasks_for makes of the items of a manifest *)

\* The sections whose items are applied to units.
PolicySections == {"service-control-policies", "tag-policies"}

\* What get_tasks_for makes of an item.
IsItemTask(manifest, task) ==
    /\ IsBare(task) /\ DOMAIN task \cap (Gathered \cup References) = {}
    /\ "name" \in DOMAIN task /\ task.section \in ToSet(SectionOrder)
    /\ "status" \in DOMAIN task
    /\ "ou_name" \in DOMAIN task => task.account_id = "" /\ task.section \in PolicySections
    /\ task.section = "spoke-local-portfolios" => "portfolio" \in DOMAIN task
    /\ "outputs" \in DOMAIN task /\ IsFiniteSet(task.outputs)
    /\ \A output \in task.outputs : IsList(output.param_name)
    /\ task.section = "organizational-units" => "path" \in DOMAIN task /\ Len(task.path) \in Nat
    /\ IsFiniteSet(DOMAIN ParametersForAccount(manifest.accounts, task.account_id))

\* What the first pass needs of a manifest that is to be deployed.
WellFormed(manifest) ==
    /\ IsFiniteSet(DOMAIN manifest.parameters)
    /\ \A item \in ToSet(manifest.items) : IsFiniteSet(DOMAIN Get(item, "parameters", Empty))
    /\ IsList(TasksOfItems(manifest))
    /\ \A task \in ToSet(TasksOfItems(manifest)) : IsItemTask(manifest, task)
    /\ \A task, other \in ToSet(TasksOfItems(manifest)) :
          RefOf(task) = RefOf(other) =>
             /\ task.status = other.status
             /\ task.section = "spoke-local-portfolios" => AreSame({other}, RefOf(task), task)

OwnStep(section, S, r, t, own, item) ==
    IF item.section = section THEN Append(own, item) ELSE own
OfSection(S, section) == {item \in S : item.section = section}
IsOwn(section, S, r, t, j, own) == own \in Seq(OfSection(S, section))

OwnFold == INSTANCE FoldTheorems WITH Op <- OwnStep, Good <- IsOwn

LEMMA ItemsOfIs ==
  ASSUME NEW S, NEW items \in Seq(S), NEW section
  PROVE  ItemsOf(items, section) \in Seq(OfSection(S, section))
  <1> DEFINE n == Len(items)
  <1>1. ItemsOf(items, section) = OwnFold!Folded(section, S, 0, 0, <<>>, items)
    BY DEF ItemsOf, FoldLeft, MapThenFoldSet, Max, OwnStep, OwnFold!Folded, OwnFold!IsFold,
           OwnFold!Largest
  <1>2. n \in Nat /\ DOMAIN items = 1..n /\ \A j \in 0..n - 1 : items[j + 1] \in S
    OBVIOUS
  <1> HIDE DEF n
  <1> DEFINE O == OfSection(S, section)
  <1>7. \A item \in S : item.section = section => item \in O
    BY DEF OfSection
  <1> HIDE DEF O
  <1>3. \A own, item : own \in Seq(O) /\ item \in S => OwnStep(section, S, 0, 0, own, item) \in Seq(O)
    BY <1>7 DEF OwnStep
  <1>5. <<>> \in Seq(O)
    OBVIOUS
  <1>6. \A j \in 0..n - 1 : \A own : own \in Seq(O)
            => OwnStep(section, S, 0, 0, own, items[j + 1]) \in Seq(O)
    BY <1>2, <1>3
  <1>4. IsOwn(section, S, 0, 0, n, OwnFold!Folded(section, S, 0, 0, <<>>, items))
    BY <1>2, <1>5, <1>6, OwnFold!FoldKeeps DEF IsOwn, O
  <1> QED
    BY <1>1, <1>4 DEF IsOwn

\* What FlattenSeq has of the first m lists.
IsFlat(seqs, m, f) ==
    f = [i \in 1..m |-> IF i = 1 THEN seqs[i] ELSE f[i - 1] \o seqs[i]]

\* All of a sequence of lists, one after the other.
LEMMA FlattenIs ==
  ASSUME NEW S, NEW seqs \in Seq(Seq(S))
  PROVE  FlattenSeq(seqs) \in Seq(S)
  <1> DEFINE n == Len(seqs)
             flat == CHOOSE f : IsFlat(seqs, n, f)
  <1>1. n \in Nat /\ DOMAIN seqs = 1..n /\ \A i \in 1..n : seqs[i] \in Seq(S)
    OBVIOUS
  <1>2. CASE n = 0
    BY <1>2 DEF FlattenSeq
  <1>3. CASE n # 0
    <2>1. FlattenSeq(seqs) = flat[n]
      BY <1>3 DEF FlattenSeq, IsFlat
    <2> HIDE DEF n
    <2>2. \E f : IsFlat(seqs, n, f)
      <3> DEFINE P == {m \in Nat : \E f : IsFlat(seqs, m, f)}
      <3>1. 0 \in P
        <4>1. IsFlat(seqs, 0, [i \in 1..0 |-> {}])
          BY DEF IsFlat
        <4> QED
          BY <4>1
      <3>2. ASSUME NEW m \in Nat, m \in P PROVE m + 1 \in P
        <4>1. PICK f : IsFlat(seqs, m, f)
          BY <3>2
        <4> DEFINE g == [i \in 1..m + 1 |-> IF i = m + 1
                            THEN IF i = 1 THEN seqs[i] ELSE f[m] \o seqs[i]
                            ELSE f[i]]
        <4>2. ASSUME NEW i \in 1..m + 1
              PROVE  g[i] = IF i = 1 THEN seqs[i] ELSE g[i - 1] \o seqs[i]
          <5>1. CASE i = m + 1
            <6>1. i # 1 => i - 1 = m /\ m \in 1..m + 1 /\ m # m + 1
              BY <5>1
            <6> QED
              BY <5>1, <6>1
          <5>2. CASE i # m + 1
            <6>1. i \in 1..m /\ (i # 1 => i - 1 \in 1..m + 1 /\ i - 1 # m + 1)
              BY <5>2
            <6>2. f[i] = IF i = 1 THEN seqs[i] ELSE f[i - 1] \o seqs[i]
              BY <4>1, <6>1 DEF IsFlat
            <6> QED
              BY <5>2, <6>1, <6>2
          <5> QED
            BY <5>1, <5>2
        <4>3. IsFlat(seqs, m + 1, g)
          <5>1. g = [i \in 1..m + 1 |-> g[i]]
            OBVIOUS
          <5> HIDE DEF g
          <5> QED
            BY <4>2, <5>1 DEF IsFlat
        <4> HIDE DEF g
        <4> QED
          BY <4>3
      <3> HIDE DEF P
      <3>3. n \in P
        BY <1>1, <3>1, <3>2, OwnFold!NatInductionOnSet
      <3> QED
        BY <3>3 DEF P
    <2>3. flat = [i \in 1..n |-> IF i = 1 THEN seqs[i] ELSE flat[i - 1] \o seqs[i]]
      BY <2>2 DEF IsFlat
    <2> DEFINE P == {m \in Nat : m \in 1..n => flat[m] \in Seq(S)}
    <2> HIDE DEF flat
    <2>4. 0 \in P
      OBVIOUS
    <2>5. ASSUME NEW m \in Nat, m \in P PROVE m + 1 \in P
      <3>1. ASSUME m + 1 \in 1..n PROVE flat[m + 1] \in Seq(S)
        <4>1. CASE m = 0
          BY <1>1, <2>3, <3>1, <4>1
        <4>2. CASE m # 0
          <5>1. m \in 1..n /\ m + 1 # 1 /\ (m + 1) - 1 = m
            BY <1>1, <3>1, <4>2
          <5>2. flat[m] \in Seq(S) /\ seqs[m + 1] \in Seq(S)
            BY <1>1, <2>5, <3>1, <5>1
          <5>3. flat[m + 1] = flat[m] \o seqs[m + 1]
            BY <2>3, <3>1, <5>1
          <5> QED
            BY <5>2, <5>3, ConcatProperties
        <4> QED
          BY <4>1, <4>2
      <3> QED
        BY <3>1
    <2> HIDE DEF P
    <2>6. n \in P
      BY <1>1, <2>4, <2>5, OwnFold!NatInductionOnSet
    <2> QED
      BY <1>1, <1>3, <2>1, <2>6 DEF P
  <1> QED
    BY <1>2, <1>3

LEMMA FlattenList ==
  ASSUME NEW n \in Nat, NEW seqs, seqs = [i \in 1..n |-> seqs[i]], \A i \in 1..n : IsList(seqs[i])
  PROVE  /\ IsList(FlattenSeq(seqs))
         /\ \A x \in ToSet(FlattenSeq(seqs)) : \E i \in 1..n : x \in ToSet(seqs[i])
  <1> DEFINE S == UNION {ToSet(seqs[i]) : i \in 1..n}
  <1>1. \A i \in 1..n : seqs[i] \in Seq(S)
    <2>1. ASSUME NEW i \in 1..n PROVE seqs[i] \in Seq(S)
      <3>1. seqs[i] \in Seq(ToSet(seqs[i])) /\ ToSet(seqs[i]) \subseteq S
        BY DEF IsList
      <3> HIDE DEF S
      <3> QED
        BY <3>1
    <2> QED
      BY <2>1
  <1>2. \A x \in S : \E i \in 1..n : x \in ToSet(seqs[i])
    OBVIOUS
  <1> HIDE DEF S
  <1>3. seqs \in Seq(Seq(S))
    BY <1>1
  <1>4. FlattenSeq(seqs) \in Seq(S)
    BY <1>3, FlattenIs
  <1> QED
    BY <1>2, <1>4, ListFrom

LEMMA ConcatList ==
  ASSUME NEW s, NEW u, IsList(s), IsList(u)
  PROVE  IsList(s \o u) /\ ToSet(s \o u) \subseteq ToSet(s) \cup ToSet(u)
  <1> DEFINE S == ToSet(s) \cup ToSet(u)
  <1>1. s \in Seq(ToSet(s)) /\ u \in Seq(ToSet(u)) /\ ToSet(s) \subseteq S /\ ToSet(u) \subseteq S
    BY DEF IsList
  <1> HIDE DEF S
  <1>2. s \in Seq(S) /\ u \in Seq(S)
    BY <1>1
  <1>3. s \o u \in Seq(S)
    BY <1>2, ConcatProperties
  <1> QED
    BY <1>3, ListFrom DEF S

\* A list of what each element of another is made into.
LEMMA MappedList ==
  ASSUME NEW n \in Nat, NEW f, f = [i \in 1..n |-> f[i]]
  PROVE  IsList(f) /\ \A x \in ToSet(f) : \E i \in 1..n : x = f[i]
  <1> DEFINE S == {f[i] : i \in 1..n}
  <1>1. \A i \in 1..n : f[i] \in S
    OBVIOUS
  <1> HIDE DEF S
  <1>2. f \in Seq(S)
    BY <1>1
  <1>3. IsList(f) /\ ToSet(f) \subseteq S
    BY <1>2, ListFrom
  <1> QED
    BY <1>3 DEF S

\* The account of an id that is in the manifest.
LEMMA AccountIs ==
  ASSUME NEW accounts, IsList(accounts), NEW id, \E a \in ToSet(accounts) : a.account_id = id
  PROVE  AccountOf(accounts, id) \in ToSet(accounts)
  <1> DEFINE n == Len(accounts)
             I == {i \in 1..n : accounts[i].account_id = id}
  <1>1. n \in Nat /\ DOMAIN accounts = 1..n /\ \A i \in 1..n : accounts[i] \in ToSet(accounts)
    BY ListIs
  <1>2. AccountOf(accounts, id) = accounts[IF I # {} THEN Min(I) ELSE 0]
    BY DEF AccountOf, SelectInSeq
  <1>3. I # {}
    BY <1>1 DEF ToSet
  <1>4. I \subseteq Nat /\ I \subseteq 1..n
    BY <1>1
  <1> HIDE DEF I, n
  <1>5. PICK i \in I : \A m \in I : i <= m
    BY <1>3, <1>4, OwnFold!LeastNat
  <1>6. Min(I) \in I
    BY <1>5 DEF Min
  <1> QED
    BY <1>1, <1>2, <1>3, <1>4, <1>6

LEMMA AccountParameters ==
  ASSUME NEW manifest, IsManifest(manifest), NEW id
  PROVE  IsFiniteSet(DOMAIN ParametersForAccount(manifest.accounts, id))
  <1>1. IsFiniteSet(DOMAIN Empty)
    BY FS_EmptySet, EmptyIs
  <1>2. CASE \E a \in ToSet(manifest.accounts) : a.account_id = id
    <2>1. AccountOf(manifest.accounts, id) \in ToSet(manifest.accounts)
      BY <1>2, AccountIs DEF IsManifest
    <2>2. IsDict(Get(AccountOf(manifest.accounts, id), "parameters", Empty))
      BY <2>1 DEF IsManifest, IsAccount
    <2> QED
      BY <1>2, <2>2 DEF ParametersForAccount, IsDict
  <1>3. CASE ~\E a \in ToSet(manifest.accounts) : a.account_id = id
    BY <1>1, <1>3 DEF ParametersForAccount
  <1> QED
    BY <1>2, <1>3

\* What all tasks of an item have of it.
IsCommon(item, task) ==
    /\ "section" \in DOMAIN task /\ task.section = item.section
    /\ "name" \in DOMAIN task /\ task.name = item.name
    /\ "status" \in DOMAIN task /\ task.status = Get(item, "status", "provisioned")
    /\ DOMAIN task \cap (Gathered \cup References) = {}
    /\ task.section = "spoke-local-portfolios" => "portfolio" \in DOMAIN task /\ task.portfolio = item.portfolio
    /\ "depends_on" \in DOMAIN task /\ IsList(task.depends_on)
    /\ "outputs" \in DOMAIN task /\ IsFiniteSet(task.outputs)
    /\ \A output \in task.outputs : IsList(output.param_name)
    /\ task.section = "organizational-units" => "path" \in DOMAIN task /\ Len(task.path) \in Nat

LEMMA CommonIs ==
  ASSUME NEW item, IsItem(item)
  PROVE  IsCommon(item, CommonParameters(item)) /\ "ou_name" \notin DOMAIN CommonParameters(item)
  <1> DEFINE defaults == [status |-> "provisioned", execution |-> "hub", depends_on |-> <<>>,
                          associations |-> {}, constraints |-> Empty, outputs |-> {},
                          sharing_mode |-> "ACCOUNT", product_generation_method |-> "copy"]
             key == TargetKey(item)
             own == Without(item, {key, "parameters"})
             task == Updated(defaults, own)
  <1>1. key \notin {"section", "name", "status", "depends_on", "outputs", "path", "portfolio"}
    BY DEF TargetKey, DEPLOY_TO_NAMES
  <1> HIDE DEF key
  <1>2. /\ DOMAIN own = DOMAIN item \ {key, "parameters"}
        /\ \A k \in DOMAIN own : own[k] = item[k]
    BY DEF Without
  <1>3. DOMAIN defaults = {"status", "execution", "depends_on", "associations", "constraints",
                           "outputs", "sharing_mode", "product_generation_method"}
        /\ defaults["depends_on"] = <<>> /\ defaults["outputs"] = {}
        /\ defaults["status"] = "provisioned"
    OBVIOUS
  <1> HIDE DEF own, defaults
  <1>4. /\ DOMAIN task = DOMAIN defaults \cup DOMAIN own
        /\ \A k \in DOMAIN own : task[k] = own[k]
        /\ \A k \in DOMAIN defaults \ DOMAIN own : task[k] = defaults[k]
    BY UpdatedIs
  <1> HIDE DEF task
  <1>5. /\ "section" \in DOMAIN task /\ task["section"] = item["section"]
        /\ "name" \in DOMAIN task /\ task["name"] = item["name"]
    BY <1>1, <1>2, <1>4 DEF IsItem
  <1>11. "status" \in DOMAIN task /\ task["status"] = Get(item, "status", "provisioned")
    BY <1>1, <1>2, <1>3, <1>4 DEF Get
  <1>12. "ou_name" \notin DOMAIN task
    BY <1>2, <1>3, <1>4 DEF IsItem
  <1>13. item.section = "spoke-local-portfolios" =>
            "portfolio" \in DOMAIN task /\ task["portfolio"] = item["portfolio"]
    BY <1>1, <1>2, <1>4 DEF IsItem
  <1>6. DOMAIN task \cap (Gathered \cup References) = {}
    <2>1. DOMAIN defaults \cap (Gathered \cup References) = {}
      BY <1>3 DEF Gathered, Consumed, References
    <2>2. DOMAIN item \cap (Gathered \cup References) = {}
      BY DEF IsItem, Gathered, Consumed
    <2> QED
      BY <1>2, <1>4, <2>1, <2>2
  <1>7. "depends_on" \in DOMAIN task /\ task["depends_on"] = Get(item, "depends_on", <<>>)
    BY <1>1, <1>2, <1>3, <1>4 DEF Get
  <1>8. "outputs" \in DOMAIN task /\ task["outputs"] = Get(item, "outputs", {})
    BY <1>1, <1>2, <1>3, <1>4 DEF Get
  <1>9. item.section = "organizational-units" => "path" \in DOMAIN task /\ Len(task["path"]) \in Nat
    BY <1>1, <1>2, <1>4, ListIs DEF IsItem
  <1>10. CommonParameters(item) = task
    BY DEF CommonParameters, task, own, key, defaults
  <1> QED
    BY <1>5, <1>6, <1>7, <1>8, <1>9, <1>10, <1>11, <1>12, <1>13 DEF IsCommon, IsItem

\* A task of an item in an account and a region.
LEMMA TaskOfItem ==
  ASSUME NEW manifest, IsManifest(manifest), NEW item, NEW common, IsCommon(item, common),
         "ou_name" \notin DOMAIN common, item.section \in ToSet(SectionOrder),
         NEW with, {"account_id", "region"} \subseteq DOMAIN with,
         DOMAIN with \subseteq {"account_id", "region", "ou_name", "ou"},
         "ou_name" \in DOMAIN with => with.account_id = "" /\ item.section \in PolicySections
  PROVE  IsItemTask(manifest, Updated(common, with)) /\ IsCommon(item, Updated(common, with))
  <1> DEFINE task == Updated(common, with)
  <1>1. /\ DOMAIN task = DOMAIN common \cup DOMAIN with
        /\ \A k \in DOMAIN common : k \notin {"account_id", "region", "ou_name", "ou"}
                => task[k] = common[k]
        /\ \A k \in DOMAIN with : task[k] = with[k]
    <2>1. /\ DOMAIN task = DOMAIN common \cup DOMAIN with
          /\ \A k \in DOMAIN with : task[k] = with[k]
          /\ \A k \in DOMAIN common \ DOMAIN with : task[k] = common[k]
      BY UpdatedIs DEF task
    <2> HIDE DEF task
    <2> QED
      BY <2>1
  <1> HIDE DEF task
  <1>2. IsCommon(item, task)
    BY <1>1 DEF IsCommon, Gathered, Consumed, References
  <1>5. "ou_name" \in DOMAIN task => task.account_id = "" /\ task.section \in PolicySections
    BY <1>1, <1>2 DEF IsCommon
  <1>3. IsBare(task)
    BY <1>1, <1>2 DEF IsCommon, IsBare, TaskKeys, Gathered
  <1>4. IsItemTask(manifest, task)
    BY <1>2, <1>3, <1>5, AccountParameters DEF IsCommon, IsItemTask
  <1> QED
    BY <1>2, <1>4 DEF task

\* Only a task that is found by a tag has the unit too.
LEMMA WithUnit ==
  ASSUME NEW manifest, NEW item, NEW task, IsItemTask(manifest, task), IsCommon(item, task), NEW ou
  PROVE  IsItemTask(manifest, Updated(task, [ou |-> ou])) /\ IsCommon(item, Updated(task, [ou |-> ou]))
  <1> DEFINE new == Updated(task, [ou |-> ou])
  <1>1. DOMAIN new = DOMAIN task \cup {"ou"} /\ \A k \in DOMAIN task : k # "ou" => new[k] = task[k]
    <2> DEFINE with == [ou |-> ou]
    <2>1. DOMAIN with = {"ou"}
      OBVIOUS
    <2> HIDE DEF with
    <2>2. /\ DOMAIN Updated(task, with) = DOMAIN task \cup {"ou"}
          /\ \A k \in DOMAIN task : k # "ou" => Updated(task, with)[k] = task[k]
      BY <2>1, UpdatedIs
    <2> QED
      BY <2>2 DEF with
  <1> HIDE DEF new
  <1>2. IsCommon(item, new)
    BY <1>1 DEF IsCommon, Gathered, Consumed, References
  <1>3. IsBare(new)
    BY <1>1, <1>2 DEF IsItemTask, IsCommon, IsBare, TaskKeys, Gathered
  <1>4. new.account_id = task.account_id /\ new.section = task.section /\ ("ou_name" \in DOMAIN new <=> "ou_name" \in DOMAIN task)
    BY <1>1 DEF IsItemTask, IsBare, TaskKeys
  <1> QED
    BY <1>2, <1>3, <1>4 DEF IsItemTask, IsCommon, new

\* What get_tasks_for makes of a target: a list of tasks.
AreTasks(manifest, item, tasks) ==
    /\ IsList(tasks)
    /\ \A task \in ToSet(tasks) : IsItemTask(manifest, task) /\ IsCommon(item, task)

LEMMA RegionsAre ==
  ASSUME NEW target, target.regions \in RegionWords \cup {"listed"},
         target.regions = "listed" => IsList(target.list), NEW account, IsAccount(account)
  PROVE  IsList(RegionsFor(target, account))
  <1>1. \A x : IsList(<<x>>)
    BY DEF IsList, ToSet
  <1> QED
    BY <1>1, RegionsAssumption DEF RegionsFor, RegionWords, IsAccount

LEMMA TasksAtAre ==
  ASSUME NEW manifest, IsManifest(manifest), NEW item, IsItem(item), NEW target,
         item.section \in ToSet(SectionOrder),
         target.regions \in RegionWords \cup {"listed"},
         target.regions = "listed" => IsList(target.list), NEW account, IsAccount(account)
  PROVE  AreTasks(manifest, item, TasksAt(item, target, account))
  <1> DEFINE regions == RegionsFor(target, account)
             n == Len(regions)
             Made(region) == Updated(CommonParameters(item),
                                     [account_id |-> account.account_id, region |-> region])
             f == [i \in 1..n |-> Made(regions[i])]
  <1>1. n \in Nat /\ DOMAIN regions = 1..n
    BY RegionsAre, ListIs
  <1>2. TasksAt(item, target, account) = f
    BY <1>1 DEF TasksAt
  <1>3. \A region : IsItemTask(manifest, Made(region)) /\ IsCommon(item, Made(region))
    BY CommonIs, TaskOfItem
  <1> HIDE DEF n, Made
  <1>4. IsList(f) /\ \A x \in ToSet(f) : \E i \in 1..n : x = f[i]
    BY <1>1, MappedList
  <1> QED
    BY <1>2, <1>3, <1>4 DEF AreTasks

\* The tasks of several targets, or of several accounts.
LEMMA TasksOfSeveral ==
  ASSUME NEW manifest, NEW item, NEW n \in Nat, NEW seqs, seqs = [i \in 1..n |-> seqs[i]],
         \A i \in 1..n : AreTasks(manifest, item, seqs[i])
  PROVE  AreTasks(manifest, item, FlattenSeq(seqs))
  BY FlattenList DEF AreTasks

LEMMA TasksByTagAre ==
  ASSUME NEW manifest, IsManifest(manifest), NEW item, IsItem(item), NEW target,
         item.section \in ToSet(SectionOrder),
         target.regions \in RegionWords \cup {"listed"},
         target.regions = "listed" => IsList(target.list)
  PROVE  AreTasks(manifest, item, TasksByTag(item, manifest.accounts, target))
  <1> DEFINE accounts == manifest.accounts
             n == Len(accounts)
             At(account) ==
                LET at == TasksAt(item, target, account) IN
                [m \in DOMAIN at |-> Updated(at[m], [ou |-> Get(account, "expanded_from", "")])]
             Of(account) == IF target.tag \notin account.tags THEN <<>> ELSE At(account)
             seqs == [i \in 1..n |-> Of(accounts[i])]
  <1>1. n \in Nat /\ DOMAIN accounts = 1..n /\ \A i \in 1..n : IsAccount(accounts[i])
    BY ListIs DEF IsManifest
  <1>2. TasksByTag(item, accounts, target) = FlattenSeq(seqs)
    BY <1>1 DEF TasksByTag
  <1>3. ASSUME NEW account, IsAccount(account) PROVE AreTasks(manifest, item, At(account))
    <2> DEFINE at == TasksAt(item, target, account)
               k == Len(at)
               f == [m \in 1..k |-> Updated(at[m], [ou |-> Get(account, "expanded_from", "")])]
    <2>1. AreTasks(manifest, item, at)
      BY <1>3, TasksAtAre
    <2>2. k \in Nat /\ DOMAIN at = 1..k /\ \A m \in 1..k : at[m] \in ToSet(at)
      BY <2>1, ListIs DEF AreTasks
    <2>3. At(account) = f
      BY <2>2
    <2> HIDE DEF at, k
    <2>4. \A m \in 1..k : IsItemTask(manifest, f[m]) /\ IsCommon(item, f[m])
      BY <2>1, <2>2, WithUnit DEF AreTasks
    <2>5. IsList(f) /\ \A x \in ToSet(f) : \E m \in 1..k : x = f[m]
      <3>1. f = [m \in 1..k |-> f[m]]
        OBVIOUS
      <3> HIDE DEF f
      <3> QED
        BY <2>2, <3>1, MappedList
    <2> HIDE DEF f
    <2> QED
      BY <2>3, <2>4, <2>5 DEF AreTasks
  <1>4. AreTasks(manifest, item, <<>>)
    BY DEF AreTasks, IsList, ToSet
  <1> HIDE DEF n, At
  <1>5. \A i \in 1..n : AreTasks(manifest, item, seqs[i])
    BY <1>1, <1>3, <1>4
  <1> HIDE DEF seqs
  <1>6. seqs = [i \in 1..n |-> seqs[i]]
    BY DEF seqs
  <1> QED
    BY <1>1, <1>2, <1>5, <1>6, TasksOfSeveral

LEMMA TasksForAre ==
  ASSUME NEW manifest, IsManifest(manifest), NEW item, IsItem(item),
         item.section \in ToSet(SectionOrder), ~TasksForRaises(item, manifest.accounts)
  PROVE  AreTasks(manifest, item, TasksFor(item, manifest.accounts))
  <1> DEFINE accounts == manifest.accounts
             byTag == Targets(item, "tags")
             byAccount == Targets(item, "accounts")
             byOu == Targets(item, "ous")
             tags == [i \in 1..Len(byTag) |-> TasksByTag(item, accounts, byTag[i])]
             own == [i \in 1..Len(byAccount) |->
                        TasksAt(item, byAccount[i], AccountOf(accounts, byAccount[i].account_id))]
             ous == [i \in 1..Len(byOu) |-> TasksByOu(item, byOu[i])]
  <1>1. /\ IsTargets(byTag) /\ IsTargets(byAccount) /\ IsTargets(byOu)
        /\ \A target \in ToSet(byTag) \cup ToSet(byAccount) : target.regions \in RegionWords \cup {"listed"}
        /\ \A target \in ToSet(byAccount) : \E a \in ToSet(accounts) : a.account_id = target.account_id
        /\ byOu # <<>> => item.section \in PolicySections
    BY DEF IsItem, TasksForRaises, PolicySections
  <1> HIDE DEF byTag, byAccount, byOu
  <1>2. /\ Len(byTag) \in Nat /\ DOMAIN byTag = 1..Len(byTag)
        /\ \A i \in 1..Len(byTag) : byTag[i] \in ToSet(byTag)
        /\ Len(byAccount) \in Nat /\ DOMAIN byAccount = 1..Len(byAccount)
        /\ \A i \in 1..Len(byAccount) : byAccount[i] \in ToSet(byAccount)
        /\ Len(byOu) \in Nat /\ DOMAIN byOu = 1..Len(byOu)
    BY <1>1, ListIs DEF IsTargets
  <1>3. TasksFor(item, accounts) = (FlattenSeq(tags) \o FlattenSeq(own)) \o FlattenSeq(ous)
    BY <1>2 DEF TasksFor, byTag, byAccount, byOu
  <1>4. AreTasks(manifest, item, FlattenSeq(tags))
    <2>1. \A i \in 1..Len(byTag) : AreTasks(manifest, item, tags[i])
      BY <1>1, <1>2, TasksByTagAre DEF IsTargets
    <2> QED
      BY <1>2, <2>1, TasksOfSeveral
  <1>5. AreTasks(manifest, item, FlattenSeq(own))
    <2>1. \A i \in 1..Len(byAccount) : IsAccount(AccountOf(accounts, byAccount[i].account_id))
      BY <1>1, <1>2, AccountIs DEF IsManifest
    <2>2. \A i \in 1..Len(byAccount) : AreTasks(manifest, item, own[i])
      BY <1>1, <1>2, <2>1, TasksAtAre DEF IsTargets
    <2> QED
      BY <1>2, <2>2, TasksOfSeveral
  <1>6. AreTasks(manifest, item, FlattenSeq(ous))
    <2>1. byOu # <<>> => \A target : AreTasks(manifest, item, TasksByOu(item, target))
      <3> SUFFICES ASSUME NEW target, byOu # <<>> PROVE AreTasks(manifest, item, TasksByOu(item, target))
        OBVIOUS
      <3> DEFINE task == Updated(CommonParameters(item),
                            [account_id |-> "", ou_name |-> target.ou, region |-> HomeRegion])
      <3>1. IsItemTask(manifest, task) /\ IsCommon(item, task)
        <4>1. item.section \in PolicySections
          BY <1>1
        <4> QED
          BY <4>1, CommonIs, TaskOfItem
      <3>2. TasksByOu(item, target) = <<task>>
        BY DEF TasksByOu
      <3> HIDE DEF task
      <3> QED
        BY <3>1, <3>2 DEF AreTasks, IsList, ToSet
    <2>2. \A i \in 1..Len(byOu) : AreTasks(manifest, item, ous[i])
      <3>1. \A i \in 1..Len(byOu) : byOu # <<>>
        OBVIOUS
      <3> QED
        BY <2>1, <3>1
    <2> QED
      BY <1>2, <2>2, TasksOfSeveral
  <1> HIDE DEF tags, own, ous
  <1>7. AreTasks(manifest, item, FlattenSeq(tags) \o FlattenSeq(own))
    BY <1>4, <1>5, ConcatList DEF AreTasks
  <1> QED
    BY <1>3, <1>6, <1>7, ConcatList DEF AreTasks

\* What get_tasks_for makes of all items of a manifest is what the first pass needs.
LEMMA ItemTasksAre ==
  ASSUME NEW manifest, IsManifest(manifest),
         \A item \in ToSet(manifest.items) : ~TasksForRaises(item, manifest.accounts)
  PROVE  WellFormed(manifest)
  <1> DEFINE S == ToSet(manifest.items)
             sections == [n \in 1..14 |-> ItemsOf(manifest.items, SectionOrder[n])]
             items == InSectionOrder(manifest.items)
             seqs == [n \in 1..Len(items) |-> TasksFor(items[n], manifest.accounts)]
  <1>1. manifest.items \in Seq(S)
    BY DEF IsManifest, IsList
  <1>2. items \in Seq(S) /\ \A x \in ToSet(items) : x.section \in ToSet(SectionOrder)
    <2> DEFINE Listed == {item \in S : item.section \in ToSet(SectionOrder)}
    <2>1. DOMAIN SectionOrder = 1..14 /\ \A n \in 1..14 : SectionOrder[n] \in ToSet(SectionOrder)
      <3>1. DOMAIN SectionOrder = 1..14
        BY DEF SectionOrder
      <3> QED
        BY <3>1 DEF ToSet
    <2>2. InSectionOrder(manifest.items) = FlattenSeq(sections)
      BY <2>1 DEF InSectionOrder
    <2>3. sections \in Seq(Seq(Listed))
      <3>1. \A n \in 1..14 : sections[n] \in Seq(Listed)
        <4>1. ASSUME NEW n \in 1..14 PROVE sections[n] \in Seq(Listed)
          <5> DEFINE O == OfSection(S, SectionOrder[n])
          <5>1. sections[n] \in Seq(O)
            BY <1>1, ItemsOfIs
          <5>2. O \subseteq Listed
            BY <2>1 DEF OfSection
          <5> HIDE DEF O, Listed, sections
          <5> QED
            BY <5>1, <5>2
        <4> QED
          BY <4>1
      <3>2. sections = [n \in 1..14 |-> sections[n]]
        OBVIOUS
      <3> HIDE DEF sections, Listed
      <3> QED
        BY <3>1, <3>2
    <2> HIDE DEF Listed
    <2>4. items \in Seq(Listed)
      BY <2>2, <2>3, FlattenIs
    <2>5. ToSet(items) \subseteq Listed
      <3> HIDE DEF items
      <3> QED
        BY <2>4, ListFrom
    <2>6. Listed \subseteq S /\ \A x \in Listed : x.section \in ToSet(SectionOrder)
      BY DEF Listed
    <2> HIDE DEF items, S
    <2> QED
      BY <2>4, <2>5, <2>6
  <1> HIDE DEF items
  <1>3. /\ Len(items) \in Nat /\ DOMAIN items = 1..Len(items)
        /\ \A n \in 1..Len(items) : items[n] \in S /\ items[n].section \in ToSet(SectionOrder)
    <2>1. Len(items) \in Nat /\ DOMAIN items = 1..Len(items) /\ \A n \in 1..Len(items) : items[n] \in S
      BY <1>2
    <2> QED
      BY <1>2, <2>1 DEF ToSet
  <1>4. TasksOfItems(manifest) = FlattenSeq(seqs)
    BY <1>3 DEF TasksOfItems, items
  <1>5. \A n \in 1..Len(items) : AreTasks(manifest, items[n], TasksFor(items[n], manifest.accounts))
    BY <1>3, TasksForAre DEF IsManifest
  <1>6. /\ \A n \in 1..Len(items) : IsList(seqs[n])
        /\ \A n \in 1..Len(items) : \A task \in ToSet(seqs[n]) :
              IsItemTask(manifest, task) /\ IsCommon(items[n], task)
    BY <1>5 DEF AreTasks
  <1>7. seqs = [n \in 1..Len(items) |-> seqs[n]]
    OBVIOUS
  <1> HIDE DEF seqs
  <1>8. /\ IsList(FlattenSeq(seqs))
        /\ \A x \in ToSet(FlattenSeq(seqs)) : \E n \in 1..Len(items) : x \in ToSet(seqs[n])
    BY <1>3, <1>6, <1>7, FlattenList
  <1>9. ASSUME NEW x \in ToSet(FlattenSeq(seqs)), NEW y \in ToSet(FlattenSeq(seqs)),
               RefOf(x) = RefOf(y)
        PROVE  /\ x.status = y.status
               /\ x.section = "spoke-local-portfolios" => AreSame({y}, RefOf(x), x)
    <2>1. PICK n \in 1..Len(items) : x \in ToSet(seqs[n])
      BY <1>8
    <2>2. PICK m \in 1..Len(items) : y \in ToSet(seqs[m])
      BY <1>8
    <2>3. IsCommon(items[n], x) /\ IsCommon(items[m], y)
      BY <1>6, <2>1, <2>2
    <2>4. x.section = y.section /\ x.name = y.name
      BY <1>9 DEF RefOf
    <2>5. Key(items[n]) = Key(items[m])
      BY <2>3, <2>4 DEF IsCommon, Key
    <2>6. items[n] = items[m]
      BY <1>3, <2>5 DEF IsManifest
    <2>7. x.status = y.status
      BY <2>3, <2>6 DEF IsCommon
    <2>8. ASSUME x.section = "spoke-local-portfolios"
          PROVE  AreSame({y}, RefOf(x), x)
      <3>1. IsItemTask(manifest, x) /\ IsItemTask(manifest, y)
        BY <1>6, <2>1, <2>2
      <3>2. "ou_name" \notin DOMAIN x /\ "ou_name" \notin DOMAIN y
        BY <2>4, <2>8, <3>1 DEF IsItemTask, PolicySections
      <3>3. x.account_id = y.account_id /\ x.region = y.region
        BY <1>9, <3>2 DEF RefOf, Get
      <3>4. x.portfolio = y.portfolio
        BY <2>3, <2>4, <2>6, <2>8 DEF IsCommon
      <3> QED
        BY <2>7, <3>3, <3>4 DEF AreSame
    <2> QED
      BY <2>7, <2>8
  <1> QED
    BY <1>4, <1>6, <1>8, <1>9 DEF WellFormed, IsManifest, IsItem, IsDict

-----------------------------------------------------------------------------
(* The first pass *)

\* The generators add the task of an item: it then waits for the portfolio of the hub.
LEMMA GeneratorsKeep ==
  ASSUME NEW c, NEW table, NEW ref, IsFilled(Open(c, ref), table), NEW task, IsTask(task),
         NEW accounts, ref[1] = task.section, DOMAIN task \cap (Gathered \cup References) = {},
         task.section \in {"spoke-local-portfolios", "imported-portfolios"} =>
             AccountIn(ref) = task.account_id,
         task.section = "spoke-local-portfolios" => AreSame(c.tasks, ref, task),
         task.section = "organizational-units" => Len(task.path) \in Nat
  PROVE  IsFilled(c, Generators(table, ref, task, accounts))
  <1> DEFINE section == task.section
  <1>2. CASE section = "spoke-local-portfolios"
    BY <1>2, SpokeLocalGenerated DEF Generators
  <1>10. ASSUME section # "spoke-local-portfolios" PROVE IsFilled(c, table)
    BY <1>10, FilledClose DEF AwaitsHub
  <1>1. CASE section = "launches"
    BY <1>1, <1>10, LaunchesKeep DEF Generators, ReadBefore
  <1>3. CASE section = "imported-portfolios"
    BY <1>3, <1>10, ImportedKeep DEF Generators, Placed
  <1>4. CASE section = "workspaces"
    BY <1>4, <1>10, StacksGenerated DEF Generators
  <1>5. CASE section = "stacks"
    BY <1>5, <1>10, StacksGenerated DEF Generators
  <1>6. CASE section \in {"service-control-policies", "tag-policies"}
    BY <1>6, <1>10, StacksGenerated DEF Generators
  <1>7. CASE section = "organizational-units"
    BY <1>7, <1>10, UnitsKeep DEF Generators
  <1>8. CASE section = "c7n-aws-lambdas"
    BY <1>8, <1>10, CustodianKeeps DEF Generators
  <1>9. CASE section \notin {"launches", "spoke-local-portfolios", "imported-portfolios", "workspaces",
                             "stacks", "service-control-policies", "tag-policies",
                             "organizational-units", "c7n-aws-lambdas"}
    BY <1>9, <1>10 DEF Generators
  <1> QED
    BY <1>1, <1>2, <1>3, <1>4, <1>5, <1>6, <1>7, <1>8, <1>9

FillStep(ref, new, manifest, t, table, part) ==
    IF table.raised = ""
    THEN CASE part = "outputs" -> ssm_outputs_handler(Put(table, ref, new), ref, new)
           [] part = "generators" -> Generators(table, ref, new, manifest.accounts)
           [] part = "parameters" -> AddParameters(table, ref, new, manifest, manifest.accounts)
    ELSE table

\* After its outputs were written the task is in the table and need not wait yet.
FilledAt(ref, new, manifest, c, j, table) == IsFilled(IF j = 1 THEN Open(c, ref) ELSE c, table)

FillFold == INSTANCE FoldTheorems WITH Op <- FillStep, Good <- FilledAt

AddTaskStep(manifest, q, r, t, table, task) ==
    IF table.raised = ""
    THEN FoldLeft(LAMBDA u, part : FillStep(RefOf(task), Updated(task, [deps |-> {CREATE_POLICIES}]),
                                            manifest, t, u, part),
                  table, <<"outputs", "generators", "parameters">>)
    ELSE table

AddTaskFold == INSTANCE FoldTheorems WITH Op <- AddTaskStep, Good <- KeepsTable

LEMMA AddTaskKeeps ==
  ASSUME NEW c, NEW table, IsFilled(c, table), NEW manifest, NEW task \in c.tasks,
         IsItemTask(manifest, task), IsFiniteSet(DOMAIN manifest.parameters),
         task.section = "spoke-local-portfolios" => AreSame(c.tasks, RefOf(task), task)
  PROVE  IsFilled(c, AddTaskStep(manifest, 0, 0, c, table, task))
  <1> DEFINE ref == RefOf(task)
             new == Updated(task, [deps |-> {CREATE_POLICIES}])
             parts == <<"outputs", "generators", "parameters">>
             filled == FoldLeft(LAMBDA u, part : FillStep(ref, new, manifest, c, u, part), table, parts)
  <1>1. filled = FillFold!Folded(ref, new, manifest, c, table, parts)
    BY DEF FoldLeft, MapThenFoldSet, Max, FillFold!Folded, FillFold!IsFold, FillFold!Largest
  <1>2. /\ DOMAIN parts = 1..3 /\ 3 \in Nat
        /\ parts[1] = "outputs" /\ parts[2] = "generators" /\ parts[3] = "parameters"
    OBVIOUS
  <1>3. AddTaskStep(manifest, 0, 0, c, table, task) = IF table.raised = "" THEN filled ELSE table
    BY DEF AddTaskStep
  <1>8. ref[1] = task.section /\ ref[1] \notin Readers \cup {"ssm_outputs"}
    <2>1. ref[1] = task.section
      BY DEF RefOf
    <2>2. ToSet(SectionOrder) \cap (Readers \cup {"ssm_outputs"}) = {}
      BY DEF ToSet, SectionOrder, Readers
    <2> QED
      BY <2>1, <2>2 DEF IsItemTask
  <1>10. /\ DOMAIN new = DOMAIN task \cup {"deps"}
         /\ \A k \in DOMAIN task : k # "deps" => new[k] = task[k]
    <2> DEFINE with == [deps |-> {CREATE_POLICIES}]
    <2>1. DOMAIN with = {"deps"}
      OBVIOUS
    <2> HIDE DEF with
    <2>2. /\ DOMAIN Updated(task, with) = DOMAIN task \cup {"deps"}
          /\ \A k \in DOMAIN task : k # "deps" => Updated(task, with)[k] = task[k]
      BY <2>1, UpdatedIs
    <2> QED
      BY <2>2 DEF with
  <1> HIDE DEF new
  <1>4. /\ IsTask(new) /\ new.outputs = task.outputs /\ new.account_id = task.account_id
        /\ new.region = task.region /\ new.status = task.status
        /\ new.section = task.section /\ DOMAIN new \cap (Gathered \cup References) = {}
        /\ "name" \in DOMAIN new
        /\ "ou_name" \in DOMAIN new => new.account_id = ""
        /\ task.section = "organizational-units" => new.path = task.path
    BY <1>10 DEF IsItemTask, IsTask, IsBare, TaskKeys, Gathered, Consumed, References
  <1>11. RefOf(new) = ref
    BY <1>10 DEF RefOf, Get, IsItemTask, IsBare, TaskKeys
  <1>12. IsOne(c.tasks, ref, new)
    <2>1. "status" \in DOMAIN new
      BY <1>10 DEF IsItemTask
    <2>2. task.section = "spoke-local-portfolios" =>
              "portfolio" \in DOMAIN new /\ task.portfolio = new.portfolio
      BY <1>10 DEF IsItemTask
    <2> HIDE DEF ref
    <2>3. RefOf(task) = ref
      BY DEF ref
    <2> QED
      BY <1>4, <1>8, <2>1, <2>2, <2>3 DEF IsOne
  <1>13. task.section \in {"spoke-local-portfolios", "imported-portfolios"} => AccountIn(ref) = task.account_id
    <2>1. ASSUME task.section \in {"spoke-local-portfolios", "imported-portfolios"}
          PROVE  ref[3] = task.account_id
      <3>1. "ou_name" \notin DOMAIN task
        BY <2>1 DEF IsItemTask, PolicySections
      <3> QED
        BY <3>1 DEF RefOf, Get
    <2> QED
      BY <1>8, <2>1 DEF AccountIn
  <1>14. IsPlaced(ref, new)
    <2>1. ToSet(SectionOrder) \cap Placed \subseteq {"spoke-local-portfolios", "imported-portfolios"}
      BY DEF ToSet, SectionOrder, Placed
    <2>2. ref[1] \in ToSet(SectionOrder)
      BY <1>8 DEF IsItemTask
    <2> QED
      BY <1>4, <1>8, <1>13, <2>1, <2>2 DEF IsPlaced, ReadBefore, Readers
  <1>15. AwaitsReferences(new)
    BY <1>4 DEF AwaitsReferences
  <1>16. /\ task.section = "spoke-local-portfolios" => AreSame(c.tasks, ref, new)
         /\ IsFiniteSet(new.outputs) /\ \A output \in new.outputs : IsList(output.param_name)
         /\ IsFiniteSet(DOMAIN ParametersForAccount(manifest.accounts, new.account_id))
         /\ task.section = "organizational-units" => Len(new.path) \in Nat
    <2>1. task.section = "spoke-local-portfolios" => new.portfolio = task.portfolio
      BY <1>10 DEF IsItemTask
    <2>2. task.section = "spoke-local-portfolios" => AreSame(c.tasks, ref, task)
      BY DEF ref
    <2> HIDE DEF ref
    <2>3. task.section = "spoke-local-portfolios" => AreSame(c.tasks, ref, new)
      BY <1>4, <2>1, <2>2 DEF AreSame
    <2> QED
      BY <1>4, <2>3 DEF IsItemTask
  <1> HIDE DEF ref
  <1>9. IsEntry(ref, new)
    <2>1. ref[1] \notin {"ssm_outputs", "ssm_parameters", "boto3_parameters"}
      BY <1>8 DEF Readers
    <2>2. \A k \in Consumed : k \notin DOMAIN new
      BY <1>4 DEF Gathered
    <2> QED
      BY <1>4, <1>8, <1>11, <2>1, <2>2 DEF IsEntry
  <1> HIDE DEF parts, filled
  <1>20. ASSUME NEW t, IsFilled(c, t)
         PROVE  IsFilled(Open(c, ref), FillStep(ref, new, manifest, c, t, "outputs"))
    <2>1. IsFilled(Open(c, ref), t)
      BY <1>20, FilledOpen
    <2>2. ref \in Open(c, ref).open /\ Open(c, ref).tasks = c.tasks
      BY DEF Open
    <2>3. IsFilled(Open(c, ref), Put(t, ref, new))
      BY <1>4, <1>8, <1>9, <1>12, <1>14, <1>15, <2>1, <2>2, FilledPut
    <2>4. Known(Put(t, ref, new), ref)
      BY <1>20, PutMakesKnown DEF Known, IsFilled
    <2>5. IsOne(Open(c, ref).tasks, ref, new)
      BY <1>12, <2>2
    <2>6. IsFilled(Open(c, ref), ssm_outputs_handler(Put(t, ref, new), ref, new))
      BY <1>4, <1>8, <1>16, <2>3, <2>4, <2>5, OutputsKeep
    <2> QED
      BY <2>1, <2>6 DEF FillStep
  <1>21. ASSUME NEW t, IsFilled(Open(c, ref), t)
         PROVE  IsFilled(c, FillStep(ref, new, manifest, c, t, "generators"))
    <2>1. t.raised # "" => IsFilled(c, t)
      BY <1>21, FilledClose
    <2>2. IsFilled(c, Generators(t, ref, new, manifest.accounts))
      BY <1>4, <1>8, <1>13, <1>16, <1>21, GeneratorsKeep
    <2> QED
      BY <2>1, <2>2 DEF FillStep
  <1>22. ASSUME NEW t, IsFilled(c, t)
         PROVE  IsFilled(c, FillStep(ref, new, manifest, c, t, "parameters"))
    <2>1. IsFilled(c, AddParameters(t, ref, new, manifest, manifest.accounts))
      BY <1>8, <1>16, <1>22, ParametersKeep
    <2> QED
      BY <1>22, <2>1 DEF FillStep
  <1>7. ASSUME NEW j \in 0..3 - 1, NEW t, FilledAt(ref, new, manifest, c, j, t)
        PROVE  FilledAt(ref, new, manifest, c, j + 1, FillStep(ref, new, manifest, c, t, parts[j + 1]))
    <2>1. CASE j = 0
      <3>1. parts[j + 1] = "outputs" /\ j # 1 /\ j + 1 = 1
        BY <1>2, <2>1
      <3> QED
        BY <1>7, <1>20, <3>1 DEF FilledAt
    <2>2. CASE j = 1
      <3>1. parts[j + 1] = "generators" /\ j = 1 /\ j + 1 # 1
        BY <1>2, <2>2
      <3> QED
        BY <1>7, <1>21, <3>1 DEF FilledAt
    <2>3. CASE j = 2
      <3>1. parts[j + 1] = "parameters" /\ j # 1 /\ j + 1 # 1
        BY <1>2, <2>3
      <3> QED
        BY <1>7, <1>22, <3>1 DEF FilledAt
    <2> QED
      BY <2>1, <2>2, <2>3
  <1>6. FilledAt(ref, new, manifest, c, 3, FillFold!Folded(ref, new, manifest, c, table, parts))
    <2>1. FilledAt(ref, new, manifest, c, 0, table)
      BY DEF FilledAt
    <2> QED
      BY <1>2, <1>7, <2>1, FillFold!FoldKeeps
  <1>17. IsFilled(c, filled)
    BY <1>1, <1>6 DEF FilledAt
  <1> QED
    BY <1>3, <1>17

\* The context of the first pass: the tasks of the items, of which none is being added.
ItemsAsked(manifest) == [tasks |-> ToSet(TasksOfItems(manifest)), open |-> {}]

LEMMA FirstTable ==
  ASSUME NEW c, NEW manifest, WellFormed(manifest)
  PROVE  IsFilled(c, EmptyTable(manifest)) /\ IsFilled(c, WithPolicyTask(EmptyTable(manifest)))
  <1> DEFINE table == EmptyTable(manifest)
             task == Task("create-policies", Puppet, HomeRegion, {})
             new == Updated(task, [execution |-> "hub"])
  <1>1. /\ DOMAIN table = {"order", "task", "raised", "parameters"}
        /\ table.order = <<>> /\ DOMAIN table.task = {}
    BY DEF EmptyTable, Empty
  <1>2. IsList(table.order) /\ ToSet(table.order) = DOMAIN table.task
    BY <1>1 DEF IsList, ToSet
  <1>3. \A k \in DOMAIN table.parameters : IsFiniteSet(DOMAIN table.parameters[k])
    BY DEF EmptyTable, WellFormed
  <1>4. IsFilled(c, table)
    BY <1>1, <1>2, <1>3, FS_EmptySet DEF IsFilled, IsTable, AreOf, AreAwaited
  <1>6. CREATE_POLICIES[1] \notin Taken \cup Placed /\ "create-policies" \notin Taken
    BY DEF CREATE_POLICIES, Taken, OfItems, Kinds, Readers, Provisioned, Placed
  <1>7. IsMadeAs(CREATE_POLICIES, task, Puppet, {})
    BY <1>6, MadeIs
  <1> HIDE DEF task
  <1>5. IsMadeAs(CREATE_POLICIES, new, Puppet, {})
    BY <1>7, MadeIs
  <1>8. WithPolicyTask(table) = Put(table, CREATE_POLICIES, new)
    BY DEF WithPolicyTask, task
  <1> HIDE DEF table, new
  <1>9. IsFilled(c, Put(table, CREATE_POLICIES, new))
    BY <1>4, <1>5, <1>6, FilledPutMade
  <1> QED
    BY <1>4, <1>8, <1>9 DEF table

LEMMA FirstPassIs ==
  ASSUME NEW manifest, WellFormed(manifest)
  PROVE  IsFilled(ItemsAsked(manifest), FirstPass(manifest))
  <1> DEFINE seq == TasksOfItems(manifest)
             c == ItemsAsked(manifest)
             n == Len(seq)
             first == WithPolicyTask(EmptyTable(manifest))
  <1>1. FirstPass(manifest) = AddTaskFold!Folded(manifest, 0, 0, c, first, seq)
    BY DEF FirstPass, Steps, FoldLeft, MapThenFoldSet, Max, AddTaskStep, FillStep,
           AddTaskFold!Folded, AddTaskFold!IsFold, AddTaskFold!Largest
  <1>2. /\ n \in Nat /\ DOMAIN seq = 1..n /\ \A j \in 1..n : seq[j] \in c.tasks
        /\ \A task \in c.tasks : IsItemTask(manifest, task)
    BY ListIs DEF WellFormed, ItemsAsked
  <1>6. \A task \in c.tasks : task.section = "spoke-local-portfolios" => AreSame(c.tasks, RefOf(task), task)
    BY DEF WellFormed, ItemsAsked, AreSame
  <1>3. IsFilled(c, first)
    BY FirstTable
  <1> HIDE DEF seq, n, first, c
  <1>4. \A j \in 0..n - 1 : \A t : IsFilled(c, t) => IsFilled(c, AddTaskStep(manifest, 0, 0, c, t, seq[j + 1]))
    <2>1. \A j \in 0..n - 1 : j + 1 \in 1..n
      BY <1>2
    <2> QED
      BY <1>2, <1>6, <2>1, AddTaskKeeps DEF WellFormed
  <1>5. KeepsTable(manifest, 0, 0, c, n, AddTaskFold!Folded(manifest, 0, 0, c, first, seq))
    BY <1>2, <1>3, <1>4, AddTaskFold!FoldKeeps DEF KeepsTable
  <1> QED
    BY <1>1, <1>5 DEF KeepsTable, c

-----------------------------------------------------------------------------
(* The later passes: a table is the same but for the dependencies of its tasks *)

\* Which tasks read a parameter or an object for a task, and for which tasks one of them reads.
ReadBy(task, kind) == LET read == Get(task, kind, Empty) IN {read[p] : p \in DOMAIN read}
Consumers(T, r) ==
    {c \in DOMAIN T.task :
        r \in ReadBy(T.task[c], "boto3_parameters") \cup ReadBy(T.task[c], "s3_objects")}

\* Of the dependencies only the consumers of a task that reads may be taken out.
SameBut(T, table) ==
    /\ {"order", "task", "raised", "parameters"} \subseteq DOMAIN table
    /\ table.order = T.order /\ table.parameters = T.parameters
    /\ T.raised # "" => table.raised # ""
    /\ DOMAIN table.task = DOMAIN T.task
    /\ \A r \in DOMAIN T.task :
          /\ DOMAIN table.task[r] = DOMAIN T.task[r] /\ "deps" \in DOMAIN T.task[r]
          /\ \A k \in DOMAIN T.task[r] \ {"deps"} : table.task[r][k] = T.task[r][k]
          /\ T.task[r].deps \ Consumers(T, r) \subseteq table.task[r].deps

LEMMA NoConsumers ==
  ASSUME NEW T, IsTable(T), NEW r, r[1] \notin ReadBefore
  PROVE  Consumers(T, r) = {}
  <1> SUFFICES ASSUME NEW c \in DOMAIN T.task, NEW kind \in {"boto3_parameters", "s3_objects"},
                      r \in ReadBy(T.task[c], kind)
               PROVE  FALSE
    BY DEF Consumers
  <1>1. PICK p \in DOMAIN Get(T.task[c], kind, Empty) : r = Get(T.task[c], kind, Empty)[p]
    BY DEF ReadBy
  <1>2. kind \in DOMAIN T.task[c] /\ p \in DOMAIN T.task[c][kind] /\ r = T.task[c][kind][p]
    BY <1>1, EmptyIs DEF Get
  <1>3. IsReader(kind, r)
    BY <1>2 DEF IsTable, IsTask, IsBare, Consumed, AreReaders
  <1> QED
    BY <1>3 DEF IsReader, ReadBefore

LEMMA SameConsumers ==
  ASSUME NEW T, NEW table, SameBut(T, table), NEW r
  PROVE  Consumers(table, r) = Consumers(T, r)
  <1>1. ASSUME NEW c \in DOMAIN T.task, NEW kind \in {"boto3_parameters", "s3_objects"}
        PROVE  ReadBy(table.task[c], kind) = ReadBy(T.task[c], kind)
    <2>1. Get(table.task[c], kind, Empty) = Get(T.task[c], kind, Empty)
      BY DEF SameBut, Get
    <2> QED
      BY <2>1 DEF ReadBy
  <1>2. DOMAIN table.task = DOMAIN T.task
    BY DEF SameBut
  <1> QED
    BY <1>1, <1>2 DEF Consumers

LEMMA SameButItself ==
  ASSUME NEW T, IsTable(T)
  PROVE  SameBut(T, T)
  BY DEF SameBut, IsTable, IsTask

LEMMA SameButDeps ==
  ASSUME NEW T, NEW table, SameBut(T, table), NEW ref, NEW deps,
         table.task[ref].deps \ Consumers(T, ref) \subseteq deps
  PROVE  SameBut(T, [table EXCEPT !.task[ref].deps = deps])
  <1> DEFINE new == [table EXCEPT !.task[ref].deps = deps]
  <1>1. /\ DOMAIN new = DOMAIN table /\ new.raised = table.raised /\ new.order = table.order
        /\ new.parameters = table.parameters
        /\ DOMAIN new.task = DOMAIN table.task
        /\ \A r \in DOMAIN table.task :
              new.task[r] = IF r = ref THEN [table.task[ref] EXCEPT !.deps = deps] ELSE table.task[r]
    BY DEF SameBut
  <1> HIDE DEF new
  <1>2. \A r \in DOMAIN T.task :
          /\ DOMAIN new.task[r] = DOMAIN table.task[r]
          /\ \A k \in DOMAIN table.task[r] \ {"deps"} : new.task[r][k] = table.task[r][k]
    BY <1>1 DEF SameBut
  <1>4. ASSUME NEW r \in DOMAIN T.task
        PROVE  T.task[r].deps \ Consumers(T, r) \subseteq new.task[r].deps
    <2>1. /\ T.task[r].deps \ Consumers(T, r) \subseteq table.task[r].deps /\ "deps" \in DOMAIN table.task[r]
          /\ r \in DOMAIN table.task
      BY DEF SameBut
    <2>2. CASE r = ref
      <3>1. new.task[r].deps = deps
        BY <1>1, <2>1, <2>2
      <3> QED
        BY <2>1, <2>2, <3>1
    <2>3. CASE r # ref
      BY <1>1, <2>1, <2>3
    <2> QED
      BY <2>2, <2>3
  <1>3. SameBut(T, new)
    BY <1>1, <1>2, <1>4 DEF SameBut
  <1> QED
    BY <1>3 DEF new

LEMMA DepsAreAll ==
  ASSUME NEW T, NEW table, SameBut(T, table), NEW ref, NEW refs
  PROVE  /\ SameBut(T, AddDeps(table, ref, refs))
         /\ refs \subseteq Consumers(T, ref) => SameBut(T, RemoveDeps(table, ref, refs))
         /\ SameBut(T, Raise(table, "not deployed"))
         /\ SameBut(T, Raise(table, "dependency without a task"))
  <1>1. SameBut(T, AddDeps(table, ref, refs))
    <2> DEFINE deps == table.task[ref].deps \cup refs
    <2>1. table.task[ref].deps \subseteq deps
      OBVIOUS
    <2>2. AddDeps(table, ref, refs) = table \/ AddDeps(table, ref, refs) = [table EXCEPT !.task[ref].deps = deps]
      BY DEF AddDeps
    <2> HIDE DEF deps
    <2>3. SameBut(T, [table EXCEPT !.task[ref].deps = deps])
      BY <2>1, SameButDeps
    <2> QED
      BY <2>2, <2>3
  <1>2. ASSUME refs \subseteq Consumers(T, ref) PROVE SameBut(T, RemoveDeps(table, ref, refs))
    <2> DEFINE deps == table.task[ref].deps \ refs
    <2>1. RemoveDeps(table, ref, refs) = [table EXCEPT !.task[ref].deps = deps]
      BY DEF RemoveDeps
    <2>3. table.task[ref].deps \ Consumers(T, ref) \subseteq deps
      BY <1>2
    <2> HIDE DEF deps
    <2>2. SameBut(T, [table EXCEPT !.task[ref].deps = deps])
      BY <2>3, SameButDeps
    <2> QED
      BY <2>1, <2>2
  <1>3. \A why : why # "" => SameBut(T, Raise(table, why))
    BY DEF SameBut, Raise
  <1>4. "not deployed" # "" /\ "dependency without a task" # ""
    OBVIOUS
  <1> QED
    BY <1>1, <1>2, <1>3, <1>4

\* What the later passes go through is what it was.
LEMMA SameRead ==
  ASSUME NEW T, IsTable(T), NEW table, SameBut(T, table), NEW ref \in DOMAIN T.task
  PROVE  /\ IsTask(table.task[ref]) /\ IsFiniteSet(DOMAIN table.task)
         /\ \A kind \in {"boto3_parameters", "s3_objects"} :
                LET parameters == Get(table.task[ref], kind, Empty)
                IN \A name \in DOMAIN parameters : ref \in Consumers(T, parameters[name])
         /\ IsList(Get(table.task[ref], "depends_on", <<>>))
         /\ \A kind \in Consumed : IsFiniteSet(DOMAIN Get(table.task[ref], kind, Empty))
         /\ IsFiniteSet(Get(table.task[ref], "ssm_outputs", {}))
  <1> DEFINE old == T.task[ref]
             new == table.task[ref]
  <1>1. /\ IsTask(old) /\ DOMAIN new = DOMAIN old
        /\ \A k \in DOMAIN old : k # "deps" => new[k] = old[k]
    BY DEF IsTable, SameBut
  <1> HIDE DEF old, new
  <1>2. IsTask(new)
    <2>1. \A k \in TaskKeys \cup Gathered \cup {"depends_on"} : k # "deps"
      BY DEF TaskKeys, Consumed, Gathered
    <2> QED
      BY <1>1, <2>1 DEF IsTask, IsBare, Gathered
  <1>3. IsList(<<>>) /\ IsFiniteSet(DOMAIN Empty) /\ IsFiniteSet({})
    BY FS_EmptySet DEF IsList, ToSet, Empty
  <1>4. /\ IsList(Get(new, "depends_on", <<>>)) /\ IsFiniteSet(Get(new, "ssm_outputs", {}))
        /\ \A kind \in Consumed : IsFiniteSet(DOMAIN Get(new, kind, Empty))
    BY <1>2, <1>3 DEF Get, IsTask, IsBare, AreReaders, AreOutputs
  <1>6. ASSUME NEW kind \in {"boto3_parameters", "s3_objects"}
        PROVE  \A name \in DOMAIN Get(new, kind, Empty) :
                   ref \in Consumers(T, Get(new, kind, Empty)[name])
    <2>1. Get(new, kind, Empty) = Get(old, kind, Empty)
      BY <1>1 DEF Get
    <2>2. \A name \in DOMAIN Get(old, kind, Empty) : Get(old, kind, Empty)[name] \in ReadBy(old, kind)
      BY DEF ReadBy
    <2> QED
      BY <2>1, <2>2 DEF Consumers, old
  <1>5. IsFiniteSet(DOMAIN table.task)
    BY DEF IsTable, SameBut
  <1> QED
    BY <1>2, <1>4, <1>5, <1>6 DEF new

\* A table that is the same but for dependencies is one too.
LEMMA SameIsTable ==
  ASSUME NEW T, IsTable(T), NEW table, SameBut(T, table)
  PROVE  IsTable(table)
  <1>1. ASSUME NEW r \in DOMAIN table.task
        PROVE  IsTask(table.task[r]) /\ IsEntry(r, table.task[r])
    <2> DEFINE old == T.task[r]
               new == table.task[r]
    <2>1. /\ r \in DOMAIN T.task /\ IsTask(old) /\ IsEntry(r, old)
          /\ DOMAIN new = DOMAIN old /\ \A k \in DOMAIN old \ {"deps"} : new[k] = old[k]
          /\ old.deps \ Consumers(T, r) \subseteq new.deps
      BY DEF IsTable, SameBut
    <2>2. IsTask(new)
      BY <2>1, SameRead
    <2>3. r[1] \notin ReadBefore => Consumers(T, r) = {}
      BY NoConsumers
    <2> HIDE DEF old, new
    <2>4. \A x \in old.deps : x \in new.deps \/ r[1] \in ReadBefore
      BY <2>1, <2>3
    <2>5. \A k \in Gathered : k # "deps"
      BY DEF Gathered, Consumed
    <2>6. IsEntry(r, new)
      BY <2>1, <2>2, <2>4, <2>5, EntryStays
    <2> QED
      BY <2>2, <2>6 DEF new
  <1> QED
    BY <1>1 DEF SameBut, IsTable

\* What a filled table says of its tasks is not of the dependencies that are taken out.
LEMMA FilledSame ==
  ASSUME NEW c, NEW T, IsFilled(c, T), NEW table, SameBut(T, table), IsTable(table)
  PROVE  IsFilled(c, table)
  <1>1. ASSUME NEW r \in DOMAIN table.task PROVE SaysTheSame(r, T.task[r], table.task[r])
    <2> DEFINE old == T.task[r]
               new == table.task[r]
    <2>1. /\ DOMAIN new = DOMAIN old /\ "deps" \in DOMAIN old
          /\ \A k \in DOMAIN old \ {"deps"} : new[k] = old[k]
          /\ old.deps \ Consumers(T, r) \subseteq new.deps
      BY DEF SameBut
    <2>2. r[1] \notin ReadBefore => Consumers(T, r) = {}
      BY NoConsumers DEF IsFilled
    <2>3. "account_id" \in DOMAIN old
      BY DEF SameBut, IsFilled, IsTable, IsTask, IsBare, TaskKeys
    <2>4. r[1] \in ReadBefore => DOMAIN old \cap References = {}
      BY DEF SameBut, IsFilled, AreAwaited, IsPlaced
    <2> HIDE DEF old, new
    <2>5. "deps" \notin References
      BY DEF References
    <2>6. AwaitsReferences(old) => AwaitsReferences(new)
      <3>1. CASE r[1] \in ReadBefore
        BY <2>1, <2>4, <3>1 DEF AwaitsReferences
      <3>2. CASE r[1] \notin ReadBefore
        <4>1. old.deps \subseteq new.deps
          BY <2>1, <2>2, <3>2
        <4> QED
          BY <2>1, <2>3, <2>5, <4>1 DEF AwaitsReferences
      <3> QED
        BY <3>1, <3>2
    <2>7. r[1] = "spoke-local-portfolios" => old.deps \subseteq new.deps
      BY <2>1, <2>2 DEF ReadBefore
    <2>8. SaysTheSame(r, old, new)
      BY <2>1, <2>6, <2>7 DEF SaysTheSame
    <2> QED
      BY <2>8 DEF old, new
  <1>2. DOMAIN table.task = DOMAIN T.task /\ (table.raised = "" => T.raised = "")
    BY DEF SameBut
  <1> QED
    BY <1>1, <1>2, FilledStays

LEMMA SameButBoth ==
  ASSUME NEW T, NEW second, SameBut(T, second), NEW table, SameBut(second, table)
  PROVE  SameBut(T, table)
  <1>1. \A r : Consumers(second, r) = Consumers(T, r)
    BY SameConsumers
  <1> QED
    BY <1>1 DEF SameBut

LEMMA RangeIsFinite ==
  ASSUME NEW f, IsFiniteSet(DOMAIN f)
  PROVE  IsFiniteSet({f[x] : x \in DOMAIN f})
  <1> DEFINE g == [x \in DOMAIN f |-> f[x]]
             R == {f[x] : x \in DOMAIN f}
  <1>1. g \in Surjection(DOMAIN f, R)
    BY DEF Surjection
  <1> QED
    BY <1>1, FS_Surjection

\* A task that waits for every task that one of its depends_on asks for.
RefsBy(tasks, task, d) == {RefOf(other) : other \in TasksBy(d.affinity, tasks, d, task)}
IsAwaited(tasks, task, d) ==
    d.affinity \in Affinities(d) => RefsBy(tasks, task, d) # {} /\ RefsBy(tasks, task, d) \subseteq task.deps
WaitsFor(tasks, task) == \A d \in ToSet(Get(task, "depends_on", <<>>)) : IsAwaited(tasks, task, d)

LEMMA AwaitedStays ==
  ASSUME NEW tasks, NEW task, NEW new, NEW d, IsAwaited(tasks, task, d),
         new.region = task.region, new.account_id = task.account_id, task.deps \subseteq new.deps
  PROVE  IsAwaited(tasks, new, d)
  <1>1. TasksBy(d.affinity, tasks, d, new) = TasksBy(d.affinity, tasks, d, task)
    BY DEF TasksBy
  <1>2. RefsBy(tasks, new, d) = RefsBy(tasks, task, d)
    BY <1>1 DEF RefsBy
  <1> QED
    BY <1>2 DEF IsAwaited

\* The keys of a task that the second pass reads are what they were.
LEMMA ReadKeys ==
  ASSUME NEW T, IsTable(T), NEW table, SameBut(T, table), NEW ref \in DOMAIN T.task
  PROVE  /\ table.task[ref].region = T.task[ref].region
         /\ table.task[ref].account_id = T.task[ref].account_id
         /\ Get(table.task[ref], "depends_on", <<>>) = Get(T.task[ref], "depends_on", <<>>)
         /\ Get(T.task[ref], "depends_on", <<>>) # <<>> => T.task[ref].deps \subseteq table.task[ref].deps
  <1>1. /\ IsTask(T.task[ref]) /\ DOMAIN table.task[ref] = DOMAIN T.task[ref]
        /\ \A k \in DOMAIN T.task[ref] \ {"deps"} : table.task[ref][k] = T.task[ref][k]
    BY DEF IsTable, SameBut
  <1>2. {"region", "account_id"} \subseteq DOMAIN T.task[ref]
    BY <1>1 DEF IsTask, IsBare, TaskKeys
  <1>3. ASSUME Get(T.task[ref], "depends_on", <<>>) # <<>>
        PROVE  T.task[ref].deps \subseteq table.task[ref].deps
    <2>1. "depends_on" \in DOMAIN T.task[ref]
      BY <1>3 DEF Get
    <2>2. ref[1] \notin ReadBefore
      BY <2>1 DEF IsTable, IsEntry, Readers, ReadBefore
    <2>3. Consumers(T, ref) = {}
      BY <2>2, NoConsumers
    <2> QED
      BY <2>3 DEF SameBut
  <1>4. Get(table.task[ref], "depends_on", <<>>) = Get(T.task[ref], "depends_on", <<>>)
    BY <1>1 DEF Get
  <1> QED
    BY <1>1, <1>2, <1>3, <1>4

LEMMA WaitsStill ==
  ASSUME NEW T, IsTable(T), NEW table, SameBut(T, table), NEW ref \in DOMAIN T.task,
         NEW tasks, WaitsFor(tasks, T.task[ref])
  PROVE  WaitsFor(tasks, table.task[ref])
  <1> DEFINE old == T.task[ref]
             new == table.task[ref]
             asked == Get(old, "depends_on", <<>>)
  <1>1. /\ new.region = old.region /\ new.account_id = old.account_id
        /\ Get(new, "depends_on", <<>>) = asked
        /\ asked # <<>> => old.deps \subseteq new.deps
    BY ReadKeys
  <1>2. ToSet(asked) # {} => asked # <<>>
    BY DEF ToSet
  <1>3. \A d \in ToSet(asked) : IsAwaited(tasks, old, d)
    BY DEF WaitsFor
  <1> HIDE DEF old, new, asked
  <1>4. \A d \in ToSet(asked) : IsAwaited(tasks, new, d)
    BY <1>1, <1>2, <1>3, AwaitedStays
  <1> QED
    BY <1>1, <1>4 DEF WaitsFor, new

DependOnceStep(T, tasks, ref, task, table, d) ==
    IF table.raised = ""
    THEN LET found == TasksBy(d.affinity, tasks, d, task) IN
         IF d.affinity \notin Affinities(d) THEN table
         ELSE IF found = {} THEN Raise(table, "not deployed")
         ELSE AddDeps(table, ref, {RefOf(other) : other \in found})
    ELSE table

\* The task waits for what the first j of its depends_on ask for.
Depended(T, tasks, ref, task, j, table) ==
    /\ SameBut(T, table)
    /\ table.raised = "" => \A i \in 1..j : IsAwaited(tasks, table.task[ref], task.depends_on[i])

DependOnceFold == INSTANCE FoldTheorems WITH Op <- DependOnceStep, Good <- Depended

DependOnStep(T, tasks, r, t, table, ref) ==
    IF table.raised = ""
    THEN FoldLeft(LAMBDA u, d : DependOnceStep(table, tasks, ref, table.task[ref], u, d), table,
                  Get(table.task[ref], "depends_on", <<>>))
    ELSE table

\* The first j tasks wait for all that they are to wait for.
AllDepended(T, tasks, r, t, j, table) ==
    /\ SameBut(T, table)
    /\ table.raised = "" => \A i \in 1..j : WaitsFor(tasks, table.task[T.order[i]])

DependOnFold == INSTANCE FoldTheorems WITH Op <- DependOnStep, Good <- AllDepended

\* One more of the depends_on of a task.
LEMMA DependOnceKeeps ==
  ASSUME NEW T, IsTable(T), NEW tasks, NEW ref \in DOMAIN T.task, NEW task, task = T.task[ref],
         NEW j \in Nat, NEW table, Depended(T, tasks, ref, task, j, table), NEW d,
         d = task.depends_on[j + 1]
  PROVE  Depended(T, tasks, ref, task, j + 1, DependOnceStep(T, tasks, ref, task, table, d))
  <1> DEFINE refs == RefsBy(tasks, task, d)
             added == AddDeps(table, ref, refs)
             new == DependOnceStep(T, tasks, ref, task, table, d)
  <1>1. SameBut(T, table)
    BY DEF Depended
  <1>2. CASE table.raised # ""
    BY <1>1, <1>2 DEF Depended, DependOnceStep
  <1>3. CASE table.raised = "" /\ d.affinity \notin Affinities(d)
    <2>1. new = table
      BY <1>3 DEF DependOnceStep
    <2>2. IsAwaited(tasks, table.task[ref], d)
      BY <1>3 DEF IsAwaited
    <2> HIDE DEF new
    <2>3. \A i \in 1..j + 1 : i \in 1..j \/ i = j + 1
      OBVIOUS
    <2>4. \A i \in 1..j + 1 : IsAwaited(tasks, table.task[ref], task.depends_on[i])
      BY <1>3, <2>2, <2>3 DEF Depended
    <2> QED
      BY <1>1, <2>1, <2>4 DEF Depended, new
  <1>4. CASE table.raised = "" /\ d.affinity \in Affinities(d) /\ refs = {}
    <2>1. TasksBy(d.affinity, tasks, d, task) = {}
      BY <1>4 DEF RefsBy
    <2>2. new = Raise(table, "not deployed")
      BY <1>4, <2>1 DEF DependOnceStep
    <2> HIDE DEF new
    <2>3. SameBut(T, new)
      BY <1>1, <2>2, DepsAreAll
    <2>4. "raised" \in DOMAIN table
      BY <1>1 DEF SameBut
    <2>5. new.raised # ""
      BY <2>2, <2>4 DEF Raise
    <2> QED
      BY <2>3, <2>5 DEF Depended, new
  <1>5. CASE table.raised = "" /\ d.affinity \in Affinities(d) /\ refs # {}
    <2>1. TasksBy(d.affinity, tasks, d, task) # {}
      BY <1>5 DEF RefsBy
    <2>2. new = added
      BY <1>5, <2>1 DEF DependOnceStep, RefsBy
    <2>3. SameBut(T, added)
      BY <1>1, DepsAreAll
    <2> HIDE DEF refs, new
    <2>4. /\ ref \in DOMAIN table.task /\ "deps" \in DOMAIN table.task[ref]
          /\ {"region", "account_id"} \subseteq DOMAIN table.task[ref]
          /\ table.task[ref].region = task.region /\ table.task[ref].account_id = task.account_id
      <3>1. IsTask(table.task[ref])
        BY <1>1, SameRead
      <3>2. ref \in DOMAIN table.task
        BY <1>1 DEF SameBut
      <3> QED
        BY <1>1, <3>1, <3>2, ReadKeys DEF IsTask, IsBare, TaskKeys
    <2>5. /\ "task" \in DOMAIN table
          /\ added.task[ref] = [table.task[ref] EXCEPT !.deps = table.task[ref].deps \cup refs]
      BY <1>1, <2>4 DEF AddDeps, Known, SameBut
    <2> HIDE DEF added
    <2>6. /\ added.task[ref].deps = table.task[ref].deps \cup refs
          /\ added.task[ref].region = table.task[ref].region
          /\ added.task[ref].account_id = table.task[ref].account_id
      BY <2>4, <2>5
    <2>7. IsAwaited(tasks, added.task[ref], d)
      <3>1. TasksBy(d.affinity, tasks, d, added.task[ref]) = TasksBy(d.affinity, tasks, d, task)
        BY <2>4, <2>6 DEF TasksBy
      <3>2. RefsBy(tasks, added.task[ref], d) = refs
        BY <3>1 DEF RefsBy, refs
      <3> QED
        BY <1>5, <2>6, <3>2 DEF IsAwaited
    <2>8. \A i \in 1..j : IsAwaited(tasks, added.task[ref], task.depends_on[i])
      <3>1. table.task[ref].deps \subseteq added.task[ref].deps
        BY <2>6
      <3>2. \A i \in 1..j : IsAwaited(tasks, table.task[ref], task.depends_on[i])
        BY <1>5 DEF Depended
      <3> QED
        BY <2>6, <3>1, <3>2, AwaitedStays
    <2>9. \A i \in 1..j + 1 : i \in 1..j \/ i = j + 1
      OBVIOUS
    <2> QED
      BY <2>2, <2>3, <2>7, <2>8, <2>9 DEF Depended, new
  <1> QED
    BY <1>2, <1>3, <1>4, <1>5

\* All of the depends_on of a task.
LEMMA DependOnKeeps ==
  ASSUME NEW T, NEW table, IsTable(table), NEW tasks, NEW ref \in DOMAIN table.task
  PROVE  LET new == DependOnStep(T, tasks, 0, 0, table, ref)
         IN SameBut(table, new) /\ (new.raised = "" => WaitsFor(tasks, new.task[ref]))
  <1> DEFINE task == table.task[ref]
             seq == Get(task, "depends_on", <<>>)
             n == Len(seq)
             new == FoldLeft(LAMBDA u, d : DependOnceStep(table, tasks, ref, task, u, d), table, seq)
  <1>1. new = DependOnceFold!Folded(table, tasks, ref, task, table, seq)
    BY DEF FoldLeft, MapThenFoldSet, Max, DependOnceFold!Folded, DependOnceFold!IsFold,
           DependOnceFold!Largest
  <1>2. /\ n \in Nat /\ DOMAIN seq = 1..n
        /\ n # 0 => seq = task.depends_on
    <2>1. IsList(seq)
      BY SameButItself, SameRead
    <2>2. n \in Nat /\ DOMAIN seq = 1..n
      BY <2>1, ListIs
    <2>3. n # 0 => seq = task.depends_on
      BY DEF Get
    <2> QED
      BY <2>2, <2>3
  <1>3. DependOnStep(T, tasks, 0, 0, table, ref) = IF table.raised = "" THEN new ELSE table
    BY DEF DependOnStep
  <1>4. SameBut(table, table)
    BY SameButItself
  <1>5. Depended(table, tasks, ref, task, 0, table)
    BY <1>4 DEF Depended
  <1> HIDE DEF new, n, seq, task
  <1>6. ASSUME NEW j \in 0..n - 1, NEW t, Depended(table, tasks, ref, task, j, t)
        PROVE  Depended(table, tasks, ref, task, j + 1,
                        DependOnceStep(table, tasks, ref, task, t, seq[j + 1]))
    <2>1. j \in Nat /\ seq[j + 1] = task.depends_on[j + 1]
      BY <1>2
    <2>2. task = table.task[ref]
      BY DEF task
    <2> QED
      BY <1>6, <2>1, <2>2, DependOnceKeeps
  <1>7. Depended(table, tasks, ref, task, n, new)
    BY <1>1, <1>2, <1>5, <1>6, DependOnceFold!FoldKeeps
  <1>8. SameBut(table, new)
    BY <1>7 DEF Depended
  <1>9. ASSUME new.raised = "" PROVE WaitsFor(tasks, new.task[ref])
    <2>1. Get(new.task[ref], "depends_on", <<>>) = seq
      BY <1>8, ReadKeys DEF seq, task
    <2>2. \A d \in ToSet(seq) : \E i \in 1..n : d = task.depends_on[i]
      BY <1>2 DEF ToSet
    <2> QED
      BY <1>7, <1>9, <2>1, <2>2 DEF Depended, WaitsFor
  <1> QED
    BY <1>3, <1>4, <1>8, <1>9

LEMMA SecondPassKeeps ==
  ASSUME NEW T, IsTable(T), NEW manifest
  PROVE  LET table == SecondPass(T, manifest)
         IN /\ SameBut(T, table)
            /\ table.raised = "" => \A r \in DOMAIN table.task :
                   WaitsFor(ToSet(TasksOfItems(manifest)), table.task[r])
  <1> DEFINE tasks == ToSet(TasksOfItems(manifest))
             n == Len(T.order)
             table == SecondPass(T, manifest)
  <1>1. table = DependOnFold!Folded(T, tasks, 0, 0, T, T.order)
    BY DEF SecondPass, Steps, FoldLeft, MapThenFoldSet, Max, DependOnStep, DependOnceStep,
           DependOnFold!Folded, DependOnFold!IsFold, DependOnFold!Largest
  <1>2. /\ n \in Nat /\ DOMAIN T.order = 1..n /\ ToSet(T.order) = DOMAIN T.task
        /\ \A j \in 1..n : T.order[j] \in DOMAIN T.task
    BY ListIs DEF IsTable
  <1>3. SameBut(T, T)
    BY SameButItself
  <1> HIDE DEF n, tasks, table
  <1>4. ASSUME NEW j \in 0..n - 1, NEW t, AllDepended(T, tasks, 0, 0, j, t)
        PROVE  AllDepended(T, tasks, 0, 0, j + 1, DependOnStep(T, tasks, 0, 0, t, T.order[j + 1]))
    <2> DEFINE ref == T.order[j + 1]
               new == DependOnStep(T, tasks, 0, 0, t, ref)
    <2>1. SameBut(T, t) /\ IsTable(t)
      BY <1>4, SameIsTable DEF AllDepended
    <2> HIDE DEF ref
    <2>2. DOMAIN t.task = DOMAIN T.task
      BY <2>1 DEF SameBut
    <2>3. \A i \in 1..j + 1 : i \in 1..n
      BY <1>2
    <2>4. \A i \in 1..j + 1 : i \in 1..n /\ T.order[i] \in DOMAIN t.task
      BY <1>2, <2>2, <2>3
    <2>5. ref \in DOMAIN t.task
      BY <1>2, <2>4 DEF ref
    <2>6. SameBut(t, new) /\ (new.raised = "" => WaitsFor(tasks, new.task[ref]))
      BY <2>1, <2>5, DependOnKeeps
    <2> HIDE DEF new
    <2>7. SameBut(T, new)
      BY <2>1, <2>6, SameButBoth
    <2>8. ASSUME new.raised = "", NEW i \in 1..j + 1 PROVE WaitsFor(tasks, new.task[T.order[i]])
      <3>1. CASE i = j + 1
        BY <2>6, <2>8, <3>1 DEF ref
      <3>2. CASE i # j + 1
        <4>1. i \in 1..j
          BY <3>2
        <4>2. t.raised = ""
          BY <2>6, <2>8 DEF SameBut
        <4>3. WaitsFor(tasks, t.task[T.order[i]])
          BY <1>4, <4>1, <4>2 DEF AllDepended
        <4> QED
          BY <2>1, <2>4, <2>6, <4>3, WaitsStill
      <3> QED
        BY <3>1, <3>2
    <2>9. AllDepended(T, tasks, 0, 0, j + 1, new)
      BY <2>7, <2>8 DEF AllDepended
    <2> QED
      BY <2>9 DEF new, ref
  <1>5. AllDepended(T, tasks, 0, 0, 0, T)
    BY <1>3 DEF AllDepended
  <1>6. AllDepended(T, tasks, 0, 0, n, table)
    BY <1>1, <1>2, <1>4, <1>5, DependOnFold!FoldKeeps
  <1>7. SameBut(T, table)
    BY <1>6 DEF AllDepended
  <1>8. ASSUME table.raised = "", NEW r \in DOMAIN table.task PROVE WaitsFor(tasks, table.task[r])
    <2>1. r \in ToSet(T.order)
      BY <1>2, <1>7 DEF SameBut
    <2>2. PICK i \in 1..n : r = T.order[i]
      BY <1>2, <2>1 DEF ToSet
    <2> QED
      BY <1>6, <1>8, <2>2 DEF AllDepended
  <1> QED
    BY <1>7, <1>8 DEF table, tasks

-----------------------------------------------------------------------------
(* The third and the fourth pass *)

\* What a task that reads nothing for others waits for more, once it waits for all that its item
\* depends on, are outputs.
OnlyOutputs(T, table) ==
    \A r \in DOMAIN T.task : r[1] \notin Readers =>
        \A x \in table.task[r].deps : x \in T.task[r].deps \/ x[1] = "ssm_outputs"

Later(T, table) == SameBut(T, table) /\ OnlyOutputs(T, table)

LEMMA LaterDeps ==
  ASSUME NEW T, NEW table, Later(T, table), NEW ref, NEW deps,
         table.task[ref].deps \ Consumers(T, ref) \subseteq deps,
         ref[1] \in Readers \/ \A x \in deps : x \in table.task[ref].deps \/ x[1] = "ssm_outputs"
  PROVE  Later(T, [table EXCEPT !.task[ref].deps = deps])
  <1> DEFINE new == [table EXCEPT !.task[ref].deps = deps]
  <1>1. SameBut(T, new)
    BY SameButDeps DEF Later
  <1>2. /\ DOMAIN table.task = DOMAIN T.task
        /\ \A r \in DOMAIN table.task :
              new.task[r] = IF r = ref THEN [table.task[ref] EXCEPT !.deps = deps] ELSE table.task[r]
        /\ \A r \in DOMAIN T.task : "deps" \in DOMAIN table.task[r]
    BY DEF Later, SameBut
  <1> HIDE DEF new
  <1>3. \A r \in DOMAIN T.task : new.task[r].deps = IF r = ref THEN deps ELSE table.task[r].deps
    BY <1>2
  <1>4. OnlyOutputs(T, new)
    BY <1>3 DEF Later, OnlyOutputs
  <1> QED
    BY <1>1, <1>4 DEF Later, new

LEMMA LaterAre ==
  ASSUME NEW T, NEW table, Later(T, table), NEW ref, NEW refs
  PROVE  /\ ref[1] \in Readers => Later(T, AddDeps(table, ref, refs))
         /\ (\A x \in refs : x[1] = "ssm_outputs") => Later(T, AddDeps(table, ref, refs))
         /\ refs \subseteq Consumers(T, ref) => Later(T, RemoveDeps(table, ref, refs))
         /\ Later(T, Raise(table, "dependency without a task"))
  <1> DEFINE more == table.task[ref].deps \cup refs
             fewer == table.task[ref].deps \ refs
  <1>1. AddDeps(table, ref, refs) \in {table, [table EXCEPT !.task[ref].deps = more]}
    BY DEF AddDeps
  <1>2. RemoveDeps(table, ref, refs) = [table EXCEPT !.task[ref].deps = fewer]
    BY DEF RemoveDeps
  <1>3. ASSUME ref[1] \in Readers \/ \A x \in refs : x[1] = "ssm_outputs"
        PROVE  Later(T, AddDeps(table, ref, refs))
    <2>1. /\ table.task[ref].deps \ Consumers(T, ref) \subseteq more
          /\ ref[1] \in Readers \/ \A x \in more : x \in table.task[ref].deps \/ x[1] = "ssm_outputs"
      BY <1>3
    <2> HIDE DEF more
    <2>2. Later(T, [table EXCEPT !.task[ref].deps = more])
      BY <2>1, LaterDeps
    <2> QED
      BY <1>1, <2>2
  <1>4. ASSUME refs \subseteq Consumers(T, ref) PROVE Later(T, RemoveDeps(table, ref, refs))
    <2>1. /\ table.task[ref].deps \ Consumers(T, ref) \subseteq fewer
          /\ \A x \in fewer : x \in table.task[ref].deps
      BY <1>4
    <2> HIDE DEF fewer
    <2>2. Later(T, [table EXCEPT !.task[ref].deps = fewer])
      BY <2>1, LaterDeps
    <2> QED
      BY <1>2, <2>2
  <1>5. Later(T, Raise(table, "dependency without a task"))
    <2>1. SameBut(T, Raise(table, "dependency without a task"))
      BY DepsAreAll DEF Later
    <2>2. Raise(table, "dependency without a task").task = table.task
      BY DEF Raise, Later, SameBut
    <2> QED
      BY <2>1, <2>2 DEF Later, OnlyOutputs
  <1> QED
    BY <1>3, <1>4, <1>5

\* A task that reads a parameter waits for those who make it before one of its consumers: for an
\* output that is the parameter, or for any item if it is not a parameter of the store. It does
\* not wait for another consumer.
AfterOutputs(T, ref, table) ==
    \A p \in ReadBy(T.task[ref], "ssm_parameters") \cap DOMAIN T.task :
        \A d \in T.task[ref].deps \cap DOMAIN T.task :
            \A o \in Get(T.task[d], "ssm_outputs", {}) : p = ParameterOf(o) => o \in table.task[p].deps

ReadAfter(T, ref, p, table) ==
    \A d \in T.task[ref].deps \cap DOMAIN T.task : T.task[d].section \in ALL_SECTION_NAMES =>
        d \in table.task[p].deps \cup Consumers(T, p)

AfterItems(T, ref, kind, table) ==
    \A p \in ReadBy(T.task[ref], kind) \cap DOMAIN T.task : ReadAfter(T, ref, p, table)

IsWired(T, ref, table) ==
    /\ AfterOutputs(T, ref, table)
    /\ AfterItems(T, ref, "boto3_parameters", table) /\ AfterItems(T, ref, "s3_objects", table)

\* Who reads something is an entry that others do not read for, and nobody's consumer.
LEMMA ConsumerIs ==
  ASSUME NEW T, IsTable(T), NEW ref \in DOMAIN T.task, NEW kind \in Consumed,
         NEW p \in ReadBy(T.task[ref], kind)
  PROVE  /\ IsReader(kind, p) /\ p \in T.task[ref].deps
         /\ ref[1] \notin Readers \cup {"ssm_outputs"} /\ Consumers(T, ref) = {}
  <1>1. PICK name \in DOMAIN Get(T.task[ref], kind, Empty) : p = Get(T.task[ref], kind, Empty)[name]
    BY DEF ReadBy
  <1>2. kind \in DOMAIN T.task[ref] /\ name \in DOMAIN T.task[ref][kind] /\ p = T.task[ref][kind][name]
    BY <1>1, EmptyIs DEF Get
  <1>3. IsTask(T.task[ref]) /\ IsEntry(ref, T.task[ref])
    BY DEF IsTable
  <1>4. IsReader(kind, p)
    BY <1>2, <1>3 DEF IsTask, IsBare, AreReaders
  <1>5. p \in T.task[ref].deps /\ ref[1] \notin Readers \cup {"ssm_outputs"}
    BY <1>2, <1>3 DEF IsEntry, Gathered
  <1>6. Consumers(T, ref) = {}
    BY <1>5, NoConsumers DEF Readers, ReadBefore
  <1> QED
    BY <1>4, <1>5, <1>6

LEMMA WiredStays ==
  ASSUME NEW T, IsTable(T), NEW table, SameBut(T, table), NEW new, SameBut(table, new),
         NEW ref \in DOMAIN T.task
  PROVE  /\ AfterOutputs(T, ref, table) => AfterOutputs(T, ref, new)
         /\ \A p \in DOMAIN T.task : ReadAfter(T, ref, p, table) => ReadAfter(T, ref, p, new)
         /\ \A kind : AfterItems(T, ref, kind, table) => AfterItems(T, ref, kind, new)
  <1>1. ASSUME NEW p \in DOMAIN T.task
        PROVE  table.task[p].deps \ Consumers(T, p) \subseteq new.task[p].deps
    <2>1. Consumers(table, p) = Consumers(T, p)
      BY SameConsumers
    <2> QED
      BY <1>1, <2>1 DEF SameBut
  <1>2. ASSUME AfterOutputs(T, ref, table) PROVE AfterOutputs(T, ref, new)
    <2>1. ASSUME NEW p \in ReadBy(T.task[ref], "ssm_parameters") PROVE Consumers(T, p) = {}
      <3>1. IsReader("ssm_parameters", p)
        BY ConsumerIs DEF Consumed
      <3>2. p[1] \notin ReadBefore
        BY <3>1 DEF IsReader, ReadBefore
      <3> QED
        BY <3>2, NoConsumers
    <2> QED
      BY <1>1, <1>2, <2>1 DEF AfterOutputs
  <1>3. \A p \in DOMAIN T.task : ReadAfter(T, ref, p, table) => ReadAfter(T, ref, p, new)
    BY <1>1 DEF ReadAfter
  <1> QED
    BY <1>2, <1>3 DEF AfterItems

LEMMA IsWiredStays ==
  ASSUME NEW T, IsTable(T), NEW table, SameBut(T, table), NEW new, SameBut(table, new),
         NEW ref \in DOMAIN T.task, IsWired(T, ref, table)
  PROVE  IsWired(T, ref, new)
  BY WiredStays DEF IsWired

WireStep(T, outputs, q, r, table, o) == AddDeps(table, ParameterOf(o), {o})

\* The parameters of the first j outputs are read after them.
WiredSoFar(T, outputs, q, r, j, table) ==
    /\ Later(T, table)
    /\ \A i \in 1..j : ParameterOf(outputs[i]) \in DOMAIN T.task =>
          outputs[i] \in table.task[ParameterOf(outputs[i])].deps

WiredFold == INSTANCE FoldTheorems WITH Op <- WireStep, Good <- WiredSoFar

LEMMA WireOne ==
  ASSUME NEW T, NEW outputs, NEW j \in Nat, NEW table, WiredSoFar(T, outputs, 0, 0, j, table),
         NEW o, o[1] = "ssm_outputs", o = outputs[j + 1]
  PROVE  WiredSoFar(T, outputs, 0, 0, j + 1, WireStep(T, outputs, 0, 0, table, o))
  <1> DEFINE p == ParameterOf(o)
             new == AddDeps(table, p, {o})
  <1>1. Later(T, new)
    BY LaterAre DEF WiredSoFar
  <1>2. /\ DOMAIN table.task = DOMAIN T.task
        /\ \A r \in DOMAIN T.task : "deps" \in DOMAIN table.task[r]
    BY DEF WiredSoFar, Later, SameBut
  <1>3. \A r \in DOMAIN T.task :
           new.task[r].deps = IF r = p THEN table.task[r].deps \cup {o} ELSE table.task[r].deps
    <2>1. CASE p \in DOMAIN T.task
      <3>1. new = [table EXCEPT !.task[p].deps = @ \cup {o}] /\ "task" \in DOMAIN table
        BY <1>2, <2>1 DEF AddDeps, Known, WiredSoFar, Later, SameBut
      <3> HIDE DEF new, p
      <3>2. new.task = [table.task EXCEPT ![p].deps = @ \cup {o}]
        BY <3>1
      <3>3. \A r \in DOMAIN T.task :
              new.task[r] = IF r = p THEN [table.task[r] EXCEPT !.deps = @ \cup {o}] ELSE table.task[r]
        BY <1>2, <3>2
      <3> QED
        BY <1>2, <3>3
    <2>2. CASE p \notin DOMAIN T.task
      BY <1>2, <2>2 DEF AddDeps, Known
    <2> QED
      BY <2>1, <2>2
  <1> HIDE DEF new
  <1>4. \A i \in 1..j + 1 : i \in 1..j \/ i = j + 1
    OBVIOUS
  <1>5. \A i \in 1..j + 1 : ParameterOf(outputs[i]) \in DOMAIN T.task =>
           outputs[i] \in new.task[ParameterOf(outputs[i])].deps
    BY <1>3, <1>4 DEF WiredSoFar
  <1> QED
    BY <1>1, <1>5 DEF WiredSoFar, WireStep, new

LEMMA WiredKeeps ==
  ASSUME NEW T, IsTable(T), NEW table, Later(T, table), NEW ref \in DOMAIN T.task,
         NEW outputs, IsFiniteSet(outputs), \A o \in outputs : o[1] = "ssm_outputs"
  PROVE  /\ Later(T, Wired(table, ref, outputs))
         /\ \A o \in outputs : ParameterOf(o) \in DOMAIN T.task /\ ParameterOf(o)[1] \notin ReadBefore =>
               o \in Wired(table, ref, outputs).task[ParameterOf(o)].deps
  <1> DEFINE seq == SetToSeq(outputs)
             n == Cardinality(outputs)
             folded == WiredFold!Folded(T, seq, 0, 0, table, seq)
             new == AddDeps(folded, ref, outputs)
  <1>1. Wired(table, ref, outputs) = new
    BY DEF Wired, FoldLeft, MapThenFoldSet, Max, WireStep, WiredFold!Folded, WiredFold!IsFold,
           WiredFold!Largest
  <1>2. /\ n \in Nat /\ DOMAIN seq = 1..n /\ \A i \in 1..n : seq[i] \in outputs
        /\ \A o \in outputs : \E i \in 1..n : seq[i] = o
    BY SetToSeqIs
  <1> HIDE DEF seq, n
  <1>3. ASSUME NEW j \in 0..n - 1, NEW t, WiredSoFar(T, seq, 0, 0, j, t)
        PROVE  WiredSoFar(T, seq, 0, 0, j + 1, WireStep(T, seq, 0, 0, t, seq[j + 1]))
    <2>1. j \in Nat /\ seq[j + 1] \in outputs
      BY <1>2
    <2>2. seq[j + 1][1] = "ssm_outputs"
      BY <2>1
    <2> QED
      BY <1>3, <2>1, <2>2, WireOne
  <1>4. WiredSoFar(T, seq, 0, 0, 0, table)
    BY DEF WiredSoFar
  <1>5. WiredSoFar(T, seq, 0, 0, n, folded)
    BY <1>2, <1>3, <1>4, WiredFold!FoldKeeps
  <1> HIDE DEF folded
  <1>6. Later(T, new) /\ SameBut(folded, new)
    <2>1. Later(T, folded)
      BY <1>5 DEF WiredSoFar
    <2>2. IsTable(folded)
      BY <2>1, SameIsTable DEF Later
    <2>3. SameBut(folded, folded)
      BY <2>2, SameButItself
    <2> QED
      BY <2>1, <2>3, LaterAre, DepsAreAll
  <1>7. ASSUME NEW o \in outputs, ParameterOf(o) \in DOMAIN T.task, ParameterOf(o)[1] \notin ReadBefore
        PROVE  o \in new.task[ParameterOf(o)].deps
    <2>1. o \in folded.task[ParameterOf(o)].deps
      <3>1. PICK i \in 1..n : seq[i] = o
        BY <1>2
      <3> QED
        BY <1>5, <1>7, <3>1 DEF WiredSoFar
    <2>2. Consumers(folded, ParameterOf(o)) = {} /\ ParameterOf(o) \in DOMAIN folded.task
      <3>1. Consumers(T, ParameterOf(o)) = {}
        BY <1>7, NoConsumers
      <3>2. SameBut(T, folded)
        BY <1>5 DEF WiredSoFar, Later
      <3>3. Consumers(folded, ParameterOf(o)) = {}
        BY <3>1, <3>2, SameConsumers
      <3> QED
        BY <1>7, <3>2, <3>3 DEF SameBut
    <2> QED
      BY <1>6, <2>1, <2>2 DEF SameBut
  <1> QED
    BY <1>1, <1>6, <1>7

\* Those who read for others are no items.
LEMMA ReadersAreNoItems ==
  /\ \A k \in ReadBefore : k \in Kinds /\ k \notin ALL_SECTION_NAMES
  /\ Provisioned \subseteq ALL_SECTION_NAMES /\ "ssm_outputs" \notin ALL_SECTION_NAMES
  <1>1. /\ ToSet(SectionOrder) =
              {"launches", "stacks", "spoke-local-portfolios", "imported-portfolios",
               "lambda-invocations", "code-build-runs", "assertions", "apps", "workspaces",
               "service-control-policies", "simulate-policies", "tag-policies",
               "organizational-units", "c7n-aws-lambdas"}
    BY DEF SectionOrder, ToSet
  <1> QED
    BY <1>1 DEF ALL_SECTION_NAMES, ReadBefore, Kinds, Readers, Provisioned

LEMMA WithOutputsKeeps ==
  ASSUME NEW T, IsTable(T), NEW table, Later(T, table), NEW ref \in DOMAIN T.task
  PROVE  LET new == WithOutputs(table, ref)
         IN Later(T, new) /\ (new.raised = "" => AfterOutputs(T, ref, new))
  <1> DEFINE task == table.task[ref]
             known == task.deps \cap DOMAIN table.task
             of == [d \in known |-> Get(table.task[d], "ssm_outputs", {})]
             written == UNION {Get(table.task[d], "ssm_outputs", {}) : d \in known}
             read == ReadBy(task, "ssm_parameters")
             outputs == {o \in written : ParameterOf(o) \in read}
             new == WithOutputs(table, ref)
  <1>1. IsFiniteSet(outputs) /\ \A o \in outputs : o[1] = "ssm_outputs"
    <2>1. known \subseteq DOMAIN T.task /\ IsFiniteSet(DOMAIN T.task)
      BY DEF Later, SameBut, IsTable
    <2>2. \A d \in known : IsFiniteSet(of[d]) /\ \A o \in of[d] : o[1] = "ssm_outputs"
      <3>1. \A d \in known : IsTask(table.task[d])
        BY <2>1, SameRead DEF Later
      <3>2. \A d \in known : AreOutputs(Get(table.task[d], "ssm_outputs", {}))
        BY <3>1, FS_EmptySet DEF IsTask, IsBare, Get, AreOutputs
      <3> QED
        BY <3>2 DEF AreOutputs
    <2>3. IsFiniteSet(DOMAIN of)
      BY <2>1, FS_Subset
    <2>4. {of[d] : d \in DOMAIN of} = {Get(table.task[d], "ssm_outputs", {}) : d \in known}
      OBVIOUS
    <2> HIDE DEF of, known
    <2>5. IsFiniteSet({of[d] : d \in DOMAIN of})
      BY <2>3, RangeIsFinite
    <2>6. \A S \in {of[d] : d \in DOMAIN of} : IsFiniteSet(S)
      BY <2>2 DEF of
    <2>7. IsFiniteSet(written)
      BY <2>4, <2>5, <2>6, FS_UNION
    <2>8. IsFiniteSet(outputs)
      BY <2>7, FS_Subset
    <2>9. \A o \in written : o[1] = "ssm_outputs"
      BY <2>2, <2>4 DEF of
    <2> QED
      BY <2>8, <2>9
  <1>2. read = ReadBy(T.task[ref], "ssm_parameters")
    <2>1. Get(task, "ssm_parameters", Empty) = Get(T.task[ref], "ssm_parameters", Empty)
      BY DEF Later, SameBut, Get
    <2> QED
      BY <2>1 DEF ReadBy
  <1>3. CASE read = {}
    <2>1. new = table
      BY <1>3 DEF WithOutputs, ReadBy
    <2> QED
      BY <1>2, <1>3, <2>1 DEF AfterOutputs
  <1>4. CASE read # {} /\ \E d \in task.deps : ~Known(table, d)
    <2>1. new = Raise(table, "dependency without a task")
      BY <1>4 DEF WithOutputs, ReadBy
    <2> HIDE DEF new
    <2>2. new.raised # ""
      BY <2>1 DEF Raise, Later, SameBut
    <2> QED
      BY <2>1, <2>2, LaterAre DEF new
  <1>5. CASE read # {} /\ ~(\E d \in task.deps : ~Known(table, d))
    <2>1. new = Wired(table, ref, outputs)
      BY <1>5 DEF WithOutputs, ReadBy
    <2> HIDE DEF new
    <2>2. /\ Later(T, new)
          /\ \A o \in outputs : ParameterOf(o) \in DOMAIN T.task /\ ParameterOf(o)[1] \notin ReadBefore =>
                o \in new.task[ParameterOf(o)].deps
      <3> HIDE DEF outputs
      <3> QED
        BY <1>1, <2>1, WiredKeeps
    <2>3. ASSUME NEW p \in read \cap DOMAIN T.task, NEW d \in T.task[ref].deps \cap DOMAIN T.task,
                 NEW o \in Get(T.task[d], "ssm_outputs", {}), p = ParameterOf(o)
          PROVE  o \in new.task[p].deps
      <3>1. IsReader("ssm_parameters", p) /\ Consumers(T, ref) = {}
        BY <1>2, ConsumerIs DEF Consumed
      <3>2. p[1] \notin ReadBefore
        BY <3>1 DEF IsReader, ReadBefore
      <3>3. d \in known
        BY <3>1 DEF Later, SameBut
      <3>4. Get(table.task[d], "ssm_outputs", {}) = Get(T.task[d], "ssm_outputs", {})
        BY DEF Later, SameBut, Get
      <3>5. o \in written
        BY <3>3, <3>4
      <3>6. o \in outputs
        BY <2>3, <3>5
      <3> QED
        BY <2>2, <2>3, <3>2, <3>6
    <2> QED
      BY <1>2, <2>2, <2>3 DEF AfterOutputs, new
  <1> QED
    BY <1>3, <1>4, <1>5

\* Another one that reads for the consumer.
BringStep(T, ref, r, t, table, parameterRef) ==
    IF table.raised = ""
    THEN LET new == (table.task[ref].deps \ table.task[parameterRef].deps) \ {parameterRef}
             items == {d \in new \cap DOMAIN table.task : table.task[d].section \in ALL_SECTION_NAMES}
         IN IF \E d \in new : ~Known(table, d) THEN Raise(table, "dependency without a task")
            ELSE RemoveDeps(AddDeps(table, parameterRef, items), parameterRef, {ref})
    ELSE table

Brought(T, ref, read, t, j, table) ==
    /\ Later(T, table)
    /\ table.raised = "" => \A i \in 1..j : read[i] \in DOMAIN T.task => ReadAfter(T, ref, read[i], table)

BringFold == INSTANCE FoldTheorems WITH Op <- BringStep, Good <- Brought

LEMMA UpTo ==
  /\ \A n \in Nat : \A j \in 0..n - 1 :
        j \in Nat /\ j + 1 \in 1..n /\ \A i \in 1..j + 1 : i \in 1..j \/ i = j + 1
  /\ 1..0 = {}
  OBVIOUS

LEMMA BringOne ==
  ASSUME NEW T, IsTable(T), NEW table, Later(T, table), NEW ref \in DOMAIN T.task, NEW q, NEW s,
         NEW x, x[1] \in ReadBefore, ref \in Consumers(T, x), Consumers(T, ref) = {},
         table.raised = ""
  PROVE  LET new == BringStep(T, ref, q, s, table, x)
         IN /\ Later(T, new) /\ SameBut(table, new)
            /\ new.raised = "" /\ x \in DOMAIN T.task => ReadAfter(T, ref, x, new)
  <1> DEFINE extra == (table.task[ref].deps \ table.task[x].deps) \ {x}
             items == {d \in extra \cap DOMAIN table.task : table.task[d].section \in ALL_SECTION_NAMES}
             added == AddDeps(table, x, items)
             removed == RemoveDeps(added, x, {ref})
             new == BringStep(T, ref, q, s, table, x)
  <1>0. IsTable(table) /\ SameBut(table, table) /\ \A r : Consumers(table, r) = Consumers(T, r)
    BY SameIsTable, SameButItself, SameConsumers DEF Later
  <1>1. CASE \E d \in extra : ~Known(table, d)
    <2>1. new = Raise(table, "dependency without a task")
      BY <1>1 DEF BringStep
    <2> HIDE DEF new
    <2>2. new.raised # ""
      BY <2>1 DEF Raise, Later, SameBut
    <2> QED
      BY <1>0, <2>1, <2>2, LaterAre, DepsAreAll DEF new
  <1>2. CASE ~(\E d \in extra : ~Known(table, d))
    <2>1. new = removed
      BY <1>2 DEF BringStep
    <2> HIDE DEF new
    <2>2. Later(T, added) /\ SameBut(table, added)
      <3> HIDE DEF items
      <3> QED
        BY <1>0, LaterAre, DepsAreAll DEF Readers, ReadBefore
    <2>3. Later(T, removed) /\ SameBut(table, removed)
      <3> HIDE DEF added
      <3>1. {ref} \subseteq Consumers(T, x) /\ {ref} \subseteq Consumers(table, x)
        BY <1>0
      <3> QED
        BY <2>2, <3>1, LaterAre, DepsAreAll
    <2>4. ASSUME x \in DOMAIN T.task, NEW d \in T.task[ref].deps \cap DOMAIN T.task,
                 T.task[d].section \in ALL_SECTION_NAMES
          PROVE  d \in removed.task[x].deps \cup Consumers(T, x)
      <3>1. /\ d \in table.task[ref].deps /\ d \in DOMAIN table.task /\ x \in DOMAIN table.task
            /\ "deps" \in DOMAIN table.task[x] /\ "task" \in DOMAIN table
        BY <2>4 DEF Later, SameBut
      <3>2. table.task[d].section = T.task[d].section
        BY DEF Later, SameBut, IsTable, IsTask, IsBare, TaskKeys
      <3>3. d # x
        <4>1. IsEntry(d, T.task[d])
          BY DEF IsTable
        <4>2. d[1] \in Kinds => T.task[d].section = d[1]
          BY <4>1 DEF IsEntry
        <4>3. \A k \in ReadBefore : k \in Kinds /\ k \notin ALL_SECTION_NAMES
          BY ReadersAreNoItems
        <4> QED
          BY <2>4, <4>2, <4>3
      <3>4. d \in table.task[x].deps \cup items
        BY <2>4, <3>1, <3>2, <3>3
      <3> HIDE DEF items
      <3>5. added.task[x].deps = table.task[x].deps \cup items
        BY <3>1 DEF AddDeps, Known
      <3>6. /\ x \in DOMAIN added.task /\ "deps" \in DOMAIN added.task[x] /\ "task" \in DOMAIN added
        BY <2>2, <2>4 DEF Later, SameBut
      <3> HIDE DEF added
      <3>7. removed.task[x].deps = added.task[x].deps \ {ref}
        BY <3>6 DEF RemoveDeps
      <3> QED
        BY <3>4, <3>5, <3>7
    <2> QED
      BY <2>1, <2>3, <2>4 DEF ReadAfter, new
  <1> QED
    BY <1>1, <1>2

LEMMA WithDependenciesKeeps ==
  ASSUME NEW T, IsTable(T), NEW table, Later(T, table), NEW ref \in DOMAIN T.task,
         NEW kind \in {"boto3_parameters", "s3_objects"}, table.raised = ""
  PROVE  LET new == WithDependencies(kind, table, ref)
         IN Later(T, new) /\ (new.raised = "" => AfterItems(T, ref, kind, new))
  <1> DEFINE parameters == Get(table.task[ref], kind, Empty)
             read == {parameters[name] : name \in DOMAIN parameters}
             seq == SetToSeq(read)
             n == Cardinality(read)
             new == WithDependencies(kind, table, ref)
  <1>1. new = BringFold!Folded(T, ref, seq, 0, table, seq)
    BY DEF WithDependencies, Steps, FoldLeft, MapThenFoldSet, Max, BringStep,
           BringFold!Folded, BringFold!IsFold, BringFold!Largest
  <1>2. IsFiniteSet(read)
    <2>1. IsFiniteSet(DOMAIN parameters)
      BY SameRead DEF Consumed, Later
    <2> HIDE DEF parameters
    <2> QED
      BY <2>1, RangeIsFinite
  <1>3. read = ReadBy(T.task[ref], kind)
    <2>1. parameters = Get(T.task[ref], kind, Empty)
      BY DEF Later, SameBut, Get
    <2> QED
      BY <2>1 DEF ReadBy
  <1>4. \A x \in read : x[1] \in ReadBefore /\ ref \in Consumers(T, x) /\ Consumers(T, ref) = {}
    <2>1. kind \in Consumed
      BY DEF Consumed
    <2>2. \A x \in read : IsReader(kind, x) /\ Consumers(T, ref) = {}
      <3> HIDE DEF read
      <3> QED
        BY <1>3, <2>1, ConsumerIs
    <2> QED
      BY <1>3, <2>2 DEF IsReader, ReadBefore, Consumers
  <1>5. /\ n \in Nat /\ DOMAIN seq = 1..n /\ \A i \in 1..n : seq[i] \in read
        /\ \A x \in read : \E i \in 1..n : seq[i] = x
    BY <1>2, SetToSeqIs
  <1> HIDE DEF seq, n, read, new
  <1>6. ASSUME NEW j \in 0..n - 1, NEW t, Brought(T, ref, seq, 0, j, t)
        PROVE  Brought(T, ref, seq, 0, j + 1, BringStep(T, ref, seq, 0, t, seq[j + 1]))
    <2> DEFINE next == BringStep(T, ref, seq, 0, t, seq[j + 1])
    <2>1. j + 1 \in 1..n /\ \A i \in 1..j + 1 : i \in 1..j \/ i = j + 1
      BY <1>5, UpTo
    <2>2. CASE t.raised # ""
      BY <1>6, <2>2 DEF Brought, BringStep
    <2>3. CASE t.raised = ""
      <3>1. seq[j + 1] \in read
        BY <1>5, <2>1
      <3>2. /\ Later(T, next) /\ SameBut(t, next)
            /\ next.raised = "" /\ seq[j + 1] \in DOMAIN T.task => ReadAfter(T, ref, seq[j + 1], next)
        BY <1>4, <1>6, <2>3, <3>1, BringOne DEF Brought
      <3> HIDE DEF next
      <3>3. ASSUME NEW i \in 1..j, seq[i] \in DOMAIN T.task PROVE ReadAfter(T, ref, seq[i], next)
        <4>1. SameBut(T, t) /\ ReadAfter(T, ref, seq[i], t)
          BY <1>6, <2>3, <3>3 DEF Brought, Later
        <4> QED
          BY <3>2, <3>3, <4>1, WiredStays
      <3> QED
        BY <2>1, <3>2, <3>3 DEF Brought, next
    <2> QED
      BY <2>2, <2>3
  <1>7. Brought(T, ref, seq, 0, 0, table)
    BY UpTo DEF Brought
  <1>8. Brought(T, ref, seq, 0, n, new)
    BY <1>1, <1>5, <1>6, <1>7, BringFold!FoldKeeps
  <1>9. ASSUME new.raised = "", NEW p \in read \cap DOMAIN T.task PROVE ReadAfter(T, ref, p, new)
    <2>1. PICK i \in 1..n : seq[i] = p
      BY <1>5
    <2> QED
      BY <1>8, <1>9, <2>1 DEF Brought
  <1> QED
    BY <1>3, <1>8, <1>9 DEF Brought, AfterItems, new

ReadKindStep(T, ref, r, t, table, kind) ==
    IF table.raised = ""
    THEN IF kind = "ssm_parameters" THEN WithOutputs(table, ref)
         ELSE WithDependencies(kind, table, ref)
    ELSE table

\* One kind of what the task reads.
LEMMA ReadKindOne ==
  ASSUME NEW T, IsTable(T), NEW table, Later(T, table), NEW ref \in DOMAIN T.task,
         NEW kind \in Consumed
  PROVE  LET new == ReadKindStep(T, ref, 0, 0, table, kind)
         IN /\ Later(T, new) /\ SameBut(table, new)
            /\ new.raised = "" =>
                  /\ table.raised = ""
                  /\ IF kind = "ssm_parameters" THEN AfterOutputs(T, ref, new)
                     ELSE AfterItems(T, ref, kind, new)
  <1> DEFINE new == ReadKindStep(T, ref, 0, 0, table, kind)
  <1>1. IsTable(table) /\ Later(table, table) /\ ref \in DOMAIN table.task
    <2>1. IsTable(table) /\ ref \in DOMAIN table.task
      BY SameIsTable DEF Later, SameBut
    <2> QED
      BY <2>1, SameButItself DEF Later, OnlyOutputs
  <1>2. CASE table.raised # ""
    <2>1. new = table
      BY <1>2 DEF ReadKindStep
    <2> QED
      BY <1>1, <1>2, <2>1 DEF Later
  <1>3. CASE table.raised = "" /\ kind = "ssm_parameters"
    <2>1. new = WithOutputs(table, ref)
      BY <1>3 DEF ReadKindStep
    <2>2. Later(T, WithOutputs(table, ref)) /\ Later(table, WithOutputs(table, ref))
      BY <1>1, WithOutputsKeeps
    <2>3. WithOutputs(table, ref).raised = "" => AfterOutputs(T, ref, WithOutputs(table, ref))
      BY WithOutputsKeeps
    <2> HIDE DEF new
    <2> QED
      BY <1>3, <2>1, <2>2, <2>3 DEF Later, new
  <1>4. CASE table.raised = "" /\ kind # "ssm_parameters"
    <2>0. kind \in {"boto3_parameters", "s3_objects"}
      BY <1>4 DEF Consumed
    <2>1. new = WithDependencies(kind, table, ref)
      BY <1>4 DEF ReadKindStep
    <2>2. /\ Later(T, WithDependencies(kind, table, ref))
          /\ Later(table, WithDependencies(kind, table, ref))
      BY <1>1, <1>4, <2>0, WithDependenciesKeeps
    <2>3. WithDependencies(kind, table, ref).raised = "" =>
              AfterItems(T, ref, kind, WithDependencies(kind, table, ref))
      BY <1>4, <2>0, WithDependenciesKeeps
    <2> HIDE DEF new
    <2> QED
      BY <1>4, <2>1, <2>2, <2>3 DEF Later, new
  <1> QED
    BY <1>2, <1>3, <1>4

\* The first j of the three kinds.
ReadKinds(T, ref, r, t, j, table) ==
    /\ Later(T, table)
    /\ table.raised = "" =>
          /\ j \in {1, 2, 3} => AfterOutputs(T, ref, table)
          /\ j \in {2, 3} => AfterItems(T, ref, "boto3_parameters", table)
          /\ j \in {3} => AfterItems(T, ref, "s3_objects", table)

ReadKindFold == INSTANCE FoldTheorems WITH Op <- ReadKindStep, Good <- ReadKinds

WireTaskStep(T, q, r, t, table, ref) ==
    IF table.raised = ""
    THEN FoldLeft(LAMBDA u, kind : ReadKindStep(T, ref, 0, 0, u, kind), table,
                  <<"ssm_parameters", "boto3_parameters", "s3_objects">>)
    ELSE table

\* The first j tasks of the table have been wired.
AllWired(T, q, r, t, j, table) ==
    Later(T, table) /\ (table.raised = "" => \A i \in 1..j : IsWired(T, T.order[i], table))

WireTaskFold == INSTANCE FoldTheorems WITH Op <- WireTaskStep, Good <- AllWired

LEMMA WireTaskKeeps ==
  ASSUME NEW T, IsTable(T), NEW table, Later(T, table), NEW ref \in DOMAIN T.task
  PROVE  LET new == WireTaskStep(T, 0, 0, 0, table, ref)
         IN Later(T, new) /\ (new.raised = "" => table.raised = "" /\ IsWired(T, ref, new))
  <1> DEFINE kinds == <<"ssm_parameters", "boto3_parameters", "s3_objects">>
             new == FoldLeft(LAMBDA u, kind : ReadKindStep(T, ref, 0, 0, u, kind), table, kinds)
  <1>1. new = ReadKindFold!Folded(T, ref, 0, 0, table, kinds)
    BY DEF FoldLeft, MapThenFoldSet, Max, ReadKindFold!Folded, ReadKindFold!IsFold, ReadKindFold!Largest
  <1>2. /\ DOMAIN kinds = 1..3 /\ 3 \in Nat
        /\ kinds[1] = "ssm_parameters" /\ kinds[2] = "boto3_parameters" /\ kinds[3] = "s3_objects"
    OBVIOUS
  <1>3. WireTaskStep(T, 0, 0, 0, table, ref) = IF table.raised = "" THEN new ELSE table
    BY DEF WireTaskStep
  <1> HIDE DEF new, kinds
  <1>4. ASSUME NEW j \in 0..3 - 1, NEW s, ReadKinds(T, ref, 0, 0, j, s)
        PROVE  ReadKinds(T, ref, 0, 0, j + 1, ReadKindStep(T, ref, 0, 0, s, kinds[j + 1]))
    <2> DEFINE next == ReadKindStep(T, ref, 0, 0, s, kinds[j + 1])
    <2>1. \/ j = 0 /\ j + 1 = 1 /\ kinds[j + 1] = "ssm_parameters"
          \/ j = 1 /\ j + 1 = 2 /\ kinds[j + 1] = "boto3_parameters"
          \/ j = 2 /\ j + 1 = 3 /\ kinds[j + 1] = "s3_objects"
      <3>1. j = 0 \/ j = 1 \/ j = 2
        OBVIOUS
      <3> QED
        BY <1>2, <3>1
    <2>2. kinds[j + 1] \in Consumed /\ Later(T, s)
      BY <1>4, <2>1 DEF Consumed, ReadKinds
    <2>3. /\ Later(T, next) /\ SameBut(s, next)
          /\ next.raised = "" =>
                /\ s.raised = ""
                /\ IF kinds[j + 1] = "ssm_parameters" THEN AfterOutputs(T, ref, next)
                   ELSE AfterItems(T, ref, kinds[j + 1], next)
      BY <2>2, ReadKindOne
    <2> HIDE DEF next
    <2>4. /\ AfterOutputs(T, ref, s) => AfterOutputs(T, ref, next)
          /\ \A kind : AfterItems(T, ref, kind, s) => AfterItems(T, ref, kind, next)
      BY <2>2, <2>3, WiredStays DEF Later
    <2>5. /\ j + 1 \in {1, 2, 3} => j \in {1, 2, 3} \/ kinds[j + 1] = "ssm_parameters"
          /\ j + 1 \in {2, 3} =>
                \/ j \in {2, 3}
                \/ kinds[j + 1] # "ssm_parameters" /\ kinds[j + 1] = "boto3_parameters"
          /\ j + 1 \in {3} => kinds[j + 1] # "ssm_parameters" /\ kinds[j + 1] = "s3_objects"
      BY <2>1
    <2>6. ReadKinds(T, ref, 0, 0, j + 1, next)
      <3>1. ASSUME next.raised = "", j + 1 \in {1, 2, 3} PROVE AfterOutputs(T, ref, next)
        <4>1. CASE j \in {1, 2, 3}
          BY <1>4, <2>3, <2>4, <3>1, <4>1, Zenon DEF ReadKinds
        <4>2. CASE kinds[j + 1] = "ssm_parameters"
          BY <2>3, <3>1, <4>2, Zenon
        <4> QED
          BY <2>5, <3>1, <4>1, <4>2, Zenon
      <3>2. ASSUME next.raised = "", j + 1 \in {2, 3}
            PROVE  AfterItems(T, ref, "boto3_parameters", next)
        <4>1. CASE j \in {2, 3}
          BY <1>4, <2>3, <2>4, <3>2, <4>1, Zenon DEF ReadKinds
        <4>2. CASE kinds[j + 1] # "ssm_parameters" /\ kinds[j + 1] = "boto3_parameters"
          BY <2>3, <3>2, <4>2, Zenon
        <4> QED
          BY <2>5, <3>2, <4>1, <4>2, Zenon
      <3>3. ASSUME next.raised = "", j + 1 \in {3} PROVE AfterItems(T, ref, "s3_objects", next)
        <4>1. kinds[j + 1] # "ssm_parameters" /\ kinds[j + 1] = "s3_objects"
          BY <2>5, <3>3, Zenon
        <4> QED
          BY <2>3, <3>3, <4>1, Zenon
      <3> QED
        BY <2>3, <3>1, <3>2, <3>3, Zenon DEF ReadKinds
    <2> QED
      BY <2>6 DEF next
  <1>5. ReadKinds(T, ref, 0, 0, 0, table)
    BY DEF ReadKinds
  <1>6. ReadKinds(T, ref, 0, 0, 3, new)
    BY <1>1, <1>2, <1>4, <1>5, ReadKindFold!FoldKeeps
  <1> QED
    BY <1>3, <1>6 DEF ReadKinds, IsWired

LEMMA ThirdPassKeeps ==
  ASSUME NEW T, IsTable(T)
  PROVE  /\ Later(T, ThirdPass(T))
         /\ ThirdPass(T).raised = "" => \A ref \in DOMAIN T.task : IsWired(T, ref, ThirdPass(T))
  <1> DEFINE n == Len(T.order)
             table == ThirdPass(T)
  <1>1. table = WireTaskFold!Folded(T, 0, 0, 0, T, T.order)
    BY DEF ThirdPass, Steps, FoldLeft, MapThenFoldSet, Max, WireTaskStep, ReadKindStep,
           WireTaskFold!Folded, WireTaskFold!IsFold, WireTaskFold!Largest
  <1>2. n \in Nat /\ DOMAIN T.order = 1..n /\ \A j \in 0..n - 1 : T.order[j + 1] \in DOMAIN T.task
    BY ListIs DEF IsTable
  <1>3. ToSet(T.order) = DOMAIN T.task
    BY DEF IsTable
  <1> HIDE DEF n, table
  <1>4. ASSUME NEW j \in 0..n - 1, NEW s, AllWired(T, 0, 0, 0, j, s)
        PROVE  AllWired(T, 0, 0, 0, j + 1, WireTaskStep(T, 0, 0, 0, s, T.order[j + 1]))
    <2> DEFINE next == WireTaskStep(T, 0, 0, 0, s, T.order[j + 1])
    <2>1. Later(T, s) /\ T.order[j + 1] \in DOMAIN T.task
      BY <1>2, <1>4 DEF AllWired
    <2>2. /\ Later(T, next)
          /\ next.raised = "" => s.raised = "" /\ IsWired(T, T.order[j + 1], next)
      BY <2>1, WireTaskKeeps
    <2>3. IsTable(s) /\ Later(s, s) /\ T.order[j + 1] \in DOMAIN s.task
      <3>1. IsTable(s) /\ T.order[j + 1] \in DOMAIN s.task
        BY <2>1, SameIsTable DEF Later, SameBut
      <3> QED
        BY <3>1, SameButItself DEF Later, OnlyOutputs
    <2>4. SameBut(s, next)
      <3>1. Later(s, WireTaskStep(s, 0, 0, 0, s, T.order[j + 1]))
        BY <2>3, WireTaskKeeps
      <3>2. WireTaskStep(s, 0, 0, 0, s, T.order[j + 1]) = next
        BY DEF WireTaskStep, ReadKindStep
      <3> QED
        BY <3>1, <3>2 DEF Later
    <2> HIDE DEF next
    <2>5. ASSUME next.raised = "", NEW i \in 1..j + 1 PROVE IsWired(T, T.order[i], next)
      <3>1. CASE i \in 1..j
        <4>1. IsWired(T, T.order[i], s)
          BY <1>4, <2>2, <2>5, <3>1 DEF AllWired
        <4>2. T.order[i] \in DOMAIN T.task
          <5>1. i - 1 \in 0..n - 1 /\ (i - 1) + 1 = i
            BY <1>2, <3>1
          <5> QED
            BY <1>2, <5>1
        <4> QED
          BY <2>1, <2>4, <4>1, <4>2, IsWiredStays DEF Later
      <3>2. CASE i = j + 1
        BY <2>2, <2>5, <3>2
      <3> QED
        BY <1>2, <3>1, <3>2, UpTo
    <2>6. AllWired(T, 0, 0, 0, j + 1, next)
      BY <2>2, <2>5 DEF AllWired
    <2> QED
      BY <2>6 DEF next
  <1>5. AllWired(T, 0, 0, 0, 0, T)
    <2>1. Later(T, T)
      BY SameButItself DEF Later, OnlyOutputs
    <2> QED
      BY <2>1, UpTo DEF AllWired
  <1>6. AllWired(T, 0, 0, 0, n, table)
    BY <1>1, <1>2, <1>4, <1>5, WireTaskFold!FoldKeeps
  <1>7. ASSUME table.raised = "", NEW ref \in DOMAIN T.task PROVE IsWired(T, ref, table)
    <2>1. PICK i \in 1..n : ref = T.order[i]
      BY <1>2, <1>3 DEF ToSet
    <2> QED
      BY <1>6, <1>7, <2>1 DEF AllWired
  <1> QED
    BY <1>6, <1>7 DEF AllWired, table

\* The fourth pass.
AreLater(T, ref, S, t, j, table) == Later(T, table) /\ SameBut(S, table)

TakeOutStep(T, ref, S, t, table, p) == RemoveDeps(table, p, {ref})

TakeOutFold == INSTANCE FoldTheorems WITH Op <- TakeOutStep, Good <- AreLater

TakeOutAllStep(T, q, S, t, table, ref) ==
    IF table.raised = ""
    THEN LET parameters == Get(table.task[ref], "boto3_parameters", Empty) IN
         FoldLeft(LAMBDA u, p : RemoveDeps(u, p, {ref}), table,
                  SetToSeq({parameters[name] : name \in DOMAIN parameters}))
    ELSE table

TakeOutAllFold == INSTANCE FoldTheorems WITH Op <- TakeOutAllStep, Good <- AreLater

LEMMA TakeOutKeeps ==
  ASSUME NEW T, IsTable(T), NEW S, \A r : Consumers(S, r) = Consumers(T, r),
         NEW table, AreLater(T, 0, S, 0, 0, table), NEW ref \in DOMAIN T.task
  PROVE  AreLater(T, 0, S, 0, 0, TakeOutAllStep(T, 0, S, 0, table, ref))
  <1> DEFINE parameters == Get(table.task[ref], "boto3_parameters", Empty)
             read == {parameters[name] : name \in DOMAIN parameters}
             seq == SetToSeq(read)
             n == Cardinality(read)
             folded == TakeOutFold!Folded(T, ref, S, 0, table, seq)
  <1>1. TakeOutAllStep(T, 0, S, 0, table, ref) = IF table.raised = "" THEN folded ELSE table
    BY DEF TakeOutAllStep, FoldLeft, MapThenFoldSet, Max, TakeOutStep, TakeOutFold!Folded,
           TakeOutFold!IsFold, TakeOutFold!Largest
  <1>2. SameBut(T, table)
    BY DEF AreLater, Later
  <1>3. IsFiniteSet(read)
    <2>1. IsFiniteSet(DOMAIN parameters)
      BY <1>2, SameRead DEF Consumed
    <2> HIDE DEF parameters
    <2> QED
      BY <2>1, RangeIsFinite
  <1>4. \A x \in read : ref \in Consumers(T, x)
    <2>1. \A name \in DOMAIN parameters : ref \in Consumers(T, parameters[name])
      <3>1. \A kind \in {"boto3_parameters", "s3_objects"} :
               LET asked == Get(table.task[ref], kind, Empty)
               IN \A name \in DOMAIN asked : ref \in Consumers(T, asked[name])
        BY <1>2, SameRead, Zenon
      <3> QED
        BY <3>1
    <2> HIDE DEF parameters
    <2> QED
      BY <2>1
  <1>5. n \in Nat /\ DOMAIN seq = 1..n /\ \A i \in 1..n : seq[i] \in read
    BY <1>3, SetToSeqIs
  <1> HIDE DEF seq, n, read
  <1>6. \A j \in 0..n - 1 : ref \in Consumers(T, seq[j + 1])
    BY <1>4, <1>5, UpTo
  <1>7. ASSUME NEW s, NEW p, AreLater(T, 0, S, 0, 0, s), ref \in Consumers(T, p)
        PROVE  AreLater(T, 0, S, 0, 0, TakeOutStep(T, ref, S, 0, s, p))
    <2>1. {ref} \subseteq Consumers(T, p) /\ {ref} \subseteq Consumers(S, p)
      BY <1>7
    <2> QED
      BY <1>7, <2>1, LaterAre, DepsAreAll DEF AreLater, TakeOutStep
  <1>8. AreLater(T, ref, S, 0, n, folded)
    <2>1. \A j \in 0..n - 1 : \A s : AreLater(T, ref, S, 0, j, s) =>
             AreLater(T, ref, S, 0, j + 1, TakeOutStep(T, ref, S, 0, s, seq[j + 1]))
      BY <1>6, <1>7 DEF AreLater
    <2>2. AreLater(T, ref, S, 0, 0, table)
      BY DEF AreLater
    <2> QED
      BY <1>5, <2>1, <2>2, TakeOutFold!FoldKeeps
  <1> HIDE DEF folded
  <1> QED
    BY <1>1, <1>8 DEF AreLater

LEMMA FourthPassKeeps ==
  ASSUME NEW T, IsTable(T), NEW table, Later(T, table)
  PROVE  Later(T, FourthPass(table)) /\ SameBut(table, FourthPass(table))
  <1> DEFINE n == Len(T.order)
  <1>1. FourthPass(table) = TakeOutAllFold!Folded(T, 0, table, 0, table, table.order)
    BY DEF FourthPass, Steps, FoldLeft, MapThenFoldSet, Max, TakeOutAllStep,
           TakeOutAllFold!Folded, TakeOutAllFold!IsFold, TakeOutAllFold!Largest
  <1>2. n \in Nat /\ DOMAIN T.order = 1..n /\ \A j \in 0..n - 1 : T.order[j + 1] \in DOMAIN T.task
    BY ListIs DEF IsTable
  <1>3. table.order = T.order /\ \A r : Consumers(table, r) = Consumers(T, r)
    BY SameConsumers DEF Later, SameBut
  <1>4. AreLater(T, 0, table, 0, 0, table)
    BY SameIsTable, SameButItself DEF Later, AreLater
  <1> HIDE DEF n
  <1>5. \A j \in 0..n - 1 : \A s : AreLater(T, 0, table, 0, j, s) =>
           AreLater(T, 0, table, 0, j + 1, TakeOutAllStep(T, 0, table, 0, s, T.order[j + 1]))
    BY <1>2, <1>3, TakeOutKeeps DEF AreLater
  <1>6. AreLater(T, 0, table, 0, n, TakeOutAllFold!Folded(T, 0, table, 0, table, T.order))
    BY <1>2, <1>4, <1>5, TakeOutAllFold!FoldKeeps
  <1> QED
    BY <1>1, <1>3, <1>6 DEF AreLater

-----------------------------------------------------------------------------
(* The resources *)

\* Two tasks that may create the same portfolio require the same call.
ListPortfolios(task) == <<"SERVICE_CATALOG_LIST_PORTFOLIOS", task.region, task.account_id>>
LocksPortfolios(task) ==
    task.section = "spoke-local-portfolios" => ListPortfolios(task) \in task.resources_required

LEMMA CreateLocks ==
  ASSUME NEW task, task.section = "spoke-local-portfolios"
  PROVE  ListPortfolios(task) \in create(task)
  <1>1. "SERVICE_CATALOG_LIST_PORTFOLIOS" \in OfPortfolios(task)
    BY DEF OfPortfolios
  <1>2. NamesOf(task) = OfParametersAndActions(task) \cup OfPortfolios(task) \cup OfProducts(task)
                        \cup OfToolStacks(task)
    BY DEF NamesOf
  <1> QED
    BY <1>1, <1>2 DEF create, PerRegionOfAccount, ListPortfolios

\* Every task of the table has the resources that it requires, or there is no table to use.
HasResources(table) ==
    table.raised = "" =>
        \A r \in DOMAIN table.task :
            /\ "resources_required" \in DOMAIN table.task[r]
            /\ LocksPortfolios(table.task[r])

LEMMA WithResourcesHas ==
  ASSUME NEW c, NEW table, IsFilled(c, table)
  PROVE  IsFilled(c, WithResources(table)) /\ HasResources(WithResources(table))
  <1> DEFINE new == [table EXCEPT !.task = [r \in DOMAIN @ |->
                        Updated(@[r], [resources_required |-> create(@[r])])]]
  <1>1. ASSUME NEW r \in DOMAIN table.task
        PROVE  /\ r \in DOMAIN new.task /\ IsTask(new.task[r]) /\ IsEntry(r, new.task[r])
               /\ "resources_required" \in DOMAIN new.task[r] /\ LocksPortfolios(new.task[r])
    <2> DEFINE old == table.task[r]
    <2>1. IsTask(old) /\ IsEntry(r, old)
      BY <1>1 DEF IsFilled, IsTable
    <2>2. r \in DOMAIN new.task /\ new.task[r] = Updated(old, [resources_required |-> create(old)])
      BY <1>1 DEF IsTable
    <2> HIDE DEF old, new
    <2>6. "resources_required" \notin KeysRead
      BY DEF KeysRead, Fixed, TaskKeys, Gathered, Consumed
    <2>3. IsTask(new.task[r])
      BY <2>1, <2>2, <2>6, UpdateKeeps
    <2>7. \A k \in KeysRead : (k \in DOMAIN new.task[r] <=> k \in DOMAIN old)
                            /\ (k \in DOMAIN old => new.task[r][k] = old[k])
      BY <2>2, <2>6 DEF Updated
    <2>8. new.task[r].deps = old.deps
      BY <2>1, <2>7 DEF IsTask, KeysRead, Fixed
    <2>5. IsEntry(r, new.task[r])
      BY <2>1, <2>3, <2>7, <2>8, EntryStays DEF KeysRead
    <2>4. /\ "resources_required" \in DOMAIN new.task[r]
          /\ new.task[r].resources_required = create(old)
          /\ new.task[r].section = old.section /\ new.task[r].region = old.region
          /\ new.task[r].account_id = old.account_id
      BY <2>1, <2>2 DEF IsTask, IsBare, TaskKeys, Updated
    <2> QED
      BY <2>2, <2>3, <2>4, <2>5, CreateLocks DEF LocksPortfolios, ListPortfolios, old
  <1>2. /\ DOMAIN new = DOMAIN table /\ new.order = table.order /\ new.parameters = table.parameters
        /\ DOMAIN new.task = DOMAIN table.task /\ new.raised = table.raised
    BY DEF IsFilled, IsTable
  <1>5. ASSUME NEW r \in DOMAIN new.task PROVE SaysTheSame(r, table.task[r], new.task[r])
    <2> DEFINE old == table.task[r]
               more == new.task[r]
    <2>1. IsTask(old) /\ more = Updated(old, [resources_required |-> create(old)])
      BY <1>2 DEF IsFilled, IsTable
    <2>2. /\ DOMAIN more = DOMAIN old \cup {"resources_required"}
          /\ \A k \in DOMAIN old \ {"resources_required"} : more[k] = old[k]
      BY <2>1 DEF Updated
    <2>3. {"deps", "account_id"} \subseteq DOMAIN old
      BY <2>1 DEF IsTask, IsBare, TaskKeys
    <2> HIDE DEF old, more
    <2>4. "resources_required" \notin References
      BY DEF References
    <2>5. AwaitsReferences(old) => AwaitsReferences(more)
      BY <2>2, <2>3, <2>4 DEF AwaitsReferences
    <2>6. SaysTheSame(r, old, more)
      BY <2>2, <2>3, <2>4, <2>5 DEF SaysTheSame
    <2> QED
      BY <2>6 DEF old, more
  <1>3. IsFilled(c, new) /\ HasResources(new)
    <2> HIDE DEF new
    <2>1. IsTable(new) /\ HasResources(new)
      BY <1>1, <1>2 DEF IsFilled, IsTable, HasResources
    <2>2. DOMAIN new.task \subseteq DOMAIN table.task /\ (new.raised = "" => table.raised = "")
      BY <1>2
    <2> QED
      BY <1>5, <2>1, <2>2, FilledStays
  <1>4. \/ table.raised # "" /\ WithResources(table) = table
        \/ WithResources(table) \in {Raise(table, "not supported"), new}
    BY DEF WithResources
  <1>6. Raise(table, "not supported").raised # ""
    BY DEF Raise, IsFilled, IsTable
  <1> HIDE DEF new
  <1> QED
    BY <1>3, <1>4, <1>6, FilledRaise DEF HasResources

-----------------------------------------------------------------------------
(* What is left of a table that is used *)

LeaveOutStep(deps, C, r, t, left, n) == {x \in left : deps[x] \cap left # {}}
Holds(deps, C, r, t, j, left) == C \subseteq left

CircularFold == INSTANCE FoldTheorems WITH Op <- LeaveOutStep, Good <- Holds

\* Tasks each of which waits for another of them are never taken away.
LEMMA CircularHolds ==
  ASSUME NEW deps, IsFiniteSet(DOMAIN deps), NEW C \in SUBSET DOMAIN deps,
         \A x \in C : deps[x] \cap C # {}
  PROVE  C \subseteq Circular(deps)
  <1> DEFINE n == Cardinality(DOMAIN deps)
             count == [j \in 1..n |-> j]
  <1>1. Circular(deps) = CircularFold!Folded(deps, C, 0, 0, DOMAIN deps, count)
    BY DEF Circular, FoldLeft, MapThenFoldSet, Max, LeaveOutStep, CircularFold!Folded,
           CircularFold!IsFold, CircularFold!Largest
  <1>2. n \in Nat /\ DOMAIN count = 1..n
    BY FS_CardinalityType
  <1> HIDE DEF n, count
  <1>3. \A left, x : C \subseteq left => C \subseteq LeaveOutStep(deps, C, 0, 0, left, x)
    BY DEF LeaveOutStep
  <1>4. Holds(deps, C, 0, 0, n, CircularFold!Folded(deps, C, 0, 0, DOMAIN deps, count))
    BY <1>2, <1>3, CircularFold!FoldKeeps DEF Holds
  <1> QED
    BY <1>1, <1>4 DEF Holds

\* Of any of the tasks one waits for none of them.
Acyclic(task) ==
    \A C \in SUBSET DOMAIN task : C # {} => \E t \in C : task[t].deps \cap C = {}

\* What a deployment can rely on when it runs the tasks of a reference.
IsReference(task) ==
    /\ IsFiniteSet(DOMAIN task)
    /\ \A t \in DOMAIN task :
          /\ {"section", "account_id", "region", "resources_required"} \subseteq DOMAIN task[t]
          /\ task[t].deps \subseteq DOMAIN task
          /\ LocksPortfolios(task[t])
    /\ Acyclic(task)

LEMMA UsableIs ==
  ASSUME NEW table, IsFiniteSet(DOMAIN table.task), "raised" \in DOMAIN table,
         Usable(table).raised = ""
  PROVE  /\ Usable(table) = table /\ table.raised = "" /\ Acyclic(table.task)
         /\ \A t \in DOMAIN table.task : table.task[t].deps \subseteq DOMAIN table.task
  <1>1. \A why : why # "" => Raise(table, why).raised # ""
    BY DEF Raise
  <1>2. table.raised = ""
    BY DEF Usable
  <1>3. Circular(DepsOf(table)) = {}
    BY <1>1, <1>2 DEF Usable
  <1>4. ~HasUnlisted(table)
    BY <1>1, <1>2, <1>3 DEF Usable
  <1>5. ASSUME NEW C \in SUBSET DOMAIN table.task, C # {},
               \A t \in C : table.task[t].deps \cap C # {}
        PROVE  FALSE
    <2> DEFINE deps == DepsOf(table)
    <2>1. DOMAIN deps = DOMAIN table.task /\ \A t \in C : deps[t] = table.task[t].deps
      BY DEF DepsOf
    <2> HIDE DEF deps
    <2>2. C \subseteq Circular(deps)
      BY <1>5, <2>1, CircularHolds
    <2> QED
      BY <1>3, <1>5, <2>2 DEF deps
  <1> QED
    BY <1>2, <1>3, <1>4, <1>5 DEF Usable, Acyclic, HasUnlisted

\* Where a reference comes from: the table of the second pass, to which the passes after it have
\* added the outputs that a task waits for and what those who read for it wait for.
ComesFrom(manifest, second) ==
    /\ IsFilled(ItemsAsked(manifest), second) /\ HasResources(second) /\ second.raised = ""
    /\ \A r \in DOMAIN second.task : WaitsFor(ToSet(TasksOfItems(manifest)), second.task[r])
    /\ Later(second, generate(manifest))
    /\ \A r \in DOMAIN second.task : IsWired(second, r, generate(manifest))

LEMMA GeneratedComesFrom ==
  ASSUME NEW manifest, IsManifest(manifest), generate(manifest).raised = ""
  PROVE  /\ \E second : ComesFrom(manifest, second)
         /\ WellFormed(manifest) /\ Acyclic(generate(manifest).task)
         /\ \A t \in DOMAIN generate(manifest).task :
               generate(manifest).task[t].deps \subseteq DOMAIN generate(manifest).task
  <1> DEFINE T == WithResources(FirstPass(manifest))
             second == SecondPass(T, manifest)
             third == ThirdPass(second)
             table == FourthPass(third)
             tasks == ToSet(TasksOfItems(manifest))
  <1>1. \A item \in ToSet(manifest.items) : ~TasksForRaises(item, manifest.accounts)
    <2>1. Raise(EmptyTable(manifest), "targets").raised # ""
      BY DEF Raise, EmptyTable
    <2> QED
      BY <2>1 DEF generate
  <1>2. generate(manifest) = Usable(table) /\ WellFormed(manifest)
    BY <1>1, ItemTasksAre DEF generate
  <1>3. IsTable(T) /\ HasResources(T) /\ IsFilled(ItemsAsked(manifest), T)
    BY <1>1, ItemTasksAre, FirstPassIs, WithResourcesHas DEF IsFilled
  <1> HIDE DEF T, tasks
  <1>4. /\ SameBut(T, second)
        /\ second.raised = "" => \A r \in DOMAIN second.task : WaitsFor(tasks, second.task[r])
    BY <1>3, SecondPassKeeps DEF tasks
  <1>5. IsTable(second) /\ IsFilled(ItemsAsked(manifest), second)
    <2>1. IsTable(second)
      BY <1>3, <1>4, SameIsTable
    <2> QED
      BY <1>3, <1>4, <2>1, FilledSame
  <1> HIDE DEF second
  <1>6. /\ Later(second, third)
        /\ third.raised = "" => \A r \in DOMAIN second.task : IsWired(second, r, third)
    BY <1>5, ThirdPassKeeps
  <1> HIDE DEF third
  <1>7. Later(second, table) /\ SameBut(third, table)
    BY <1>5, <1>6, FourthPassKeeps
  <1> HIDE DEF table
  <1>8. IsFiniteSet(DOMAIN table.task) /\ "raised" \in DOMAIN table
    BY <1>5, <1>7 DEF Later, SameBut, IsTable
  <1>9. /\ Usable(table) = table /\ table.raised = "" /\ Acyclic(table.task)
        /\ \A t \in DOMAIN table.task : table.task[t].deps \subseteq DOMAIN table.task
    BY <1>2, <1>8, UsableIs
  <1>10. third.raised = "" /\ second.raised = "" /\ T.raised = ""
    BY <1>4, <1>6, <1>7, <1>9 DEF Later, SameBut
  <1>11. \A r \in DOMAIN second.task : IsWired(second, r, table)
    BY <1>5, <1>6, <1>7, <1>10, IsWiredStays DEF Later
  <1>12. HasResources(second)
    <2> SUFFICES ASSUME NEW t \in DOMAIN second.task
                 PROVE  /\ "resources_required" \in DOMAIN second.task[t]
                        /\ LocksPortfolios(second.task[t])
      BY DEF HasResources
    <2>1. t \in DOMAIN T.task
      BY <1>4 DEF SameBut
    <2>2. /\ {"section", "account_id", "region", "resources_required"} \subseteq DOMAIN T.task[t]
          /\ LocksPortfolios(T.task[t])
      BY <1>3, <1>10, <2>1 DEF IsTable, IsTask, IsBare, TaskKeys, HasResources
    <2>3. /\ DOMAIN second.task[t] = DOMAIN T.task[t]
          /\ \A k \in DOMAIN T.task[t] \ {"deps"} : second.task[t][k] = T.task[t][k]
      BY <1>4, <2>1 DEF SameBut
    <2> QED
      BY <2>2, <2>3 DEF LocksPortfolios, ListPortfolios
  <1>13. ComesFrom(manifest, second)
    BY <1>2, <1>4, <1>5, <1>7, <1>9, <1>10, <1>11, <1>12 DEF ComesFrom, tasks
  <1> QED
    BY <1>2, <1>9, <1>13

\* What the first pass says of its tasks is still so in the reference.
LEMMA GeneratedIsFilled ==
  ASSUME NEW manifest, IsManifest(manifest), generate(manifest).raised = ""
  PROVE  IsFilled(ItemsAsked(manifest), generate(manifest))
  <1>1. PICK T : ComesFrom(manifest, T)
    BY GeneratedComesFrom
  <1>2. IsFilled(ItemsAsked(manifest), T) /\ IsTable(T) /\ SameBut(T, generate(manifest))
    BY <1>1 DEF ComesFrom, Later, IsFilled
  <1>3. IsTable(generate(manifest))
    BY <1>2, SameIsTable
  <1> QED
    BY <1>2, <1>3, FilledSame

\* A manifest for which the generation does not raise has such a reference.
THEOREM GeneratedIsReference ==
  ASSUME NEW manifest, IsManifest(manifest),
         generate(manifest).raised = ""
  PROVE  IsReference(generate(manifest).task)
  <1> DEFINE table == generate(manifest)
  <1>1. PICK T : ComesFrom(manifest, T)
    BY GeneratedComesFrom
  <1>2. Acyclic(table.task) /\ \A t \in DOMAIN table.task : table.task[t].deps \subseteq DOMAIN table.task
    BY GeneratedComesFrom
  <1> HIDE DEF table
  <1>3. IsTable(T) /\ HasResources(T) /\ SameBut(T, table) /\ T.raised = ""
    BY <1>1 DEF ComesFrom, Later, IsFilled, table
  <1>4. ASSUME NEW t \in DOMAIN table.task
        PROVE  /\ {"section", "account_id", "region", "resources_required"} \subseteq DOMAIN table.task[t]
               /\ LocksPortfolios(table.task[t])
    <2>1. t \in DOMAIN T.task
      BY <1>3 DEF SameBut
    <2>2. /\ {"section", "account_id", "region", "resources_required"} \subseteq DOMAIN T.task[t]
          /\ LocksPortfolios(T.task[t])
      BY <1>3, <2>1 DEF IsTable, IsTask, IsBare, TaskKeys, HasResources
    <2>3. /\ DOMAIN table.task[t] = DOMAIN T.task[t]
          /\ \A k \in DOMAIN T.task[t] \ {"deps"} : table.task[t][k] = T.task[t][k]
      BY <1>3, <2>1 DEF SameBut
    <2> QED
      BY <2>2, <2>3 DEF LocksPortfolios, ListPortfolios
  <1>5. IsFiniteSet(DOMAIN table.task)
    BY <1>3 DEF SameBut, IsTable
  <1> QED
    BY <1>2, <1>4, <1>5 DEF IsReference, table

\* depends_on is honoured: of every depends_on of every task of a reference there are tasks
\* that it names, and the task waits for each of them (the second pass of the generation adds
\* them, and what the passes after it take out is nothing that a task with a depends_on waits
\* for).
THEOREM DependsOnIsHonoured ==
  ASSUME NEW manifest, IsManifest(manifest),
         generate(manifest).raised = ""
  PROVE  \A ref \in DOMAIN generate(manifest).task :
             WaitsFor(ToSet(TasksOfItems(manifest)), generate(manifest).task[ref])
  <1> DEFINE tasks == ToSet(TasksOfItems(manifest))
             table == generate(manifest)
  <1>1. PICK T : ComesFrom(manifest, T)
    BY GeneratedComesFrom
  <1> HIDE DEF tasks, table
  <1>2. /\ IsTable(T) /\ SameBut(T, table)
        /\ \A r \in DOMAIN T.task : WaitsFor(tasks, T.task[r])
    BY <1>1 DEF ComesFrom, Later, IsFilled, tasks, table
  <1>3. SameBut(T, T)
    BY <1>2, SameButItself
  <1>4. \A r \in DOMAIN T.task : WaitsFor(tasks, table.task[r])
    BY <1>2, <1>3, WaitsStill
  <1> QED
    BY <1>2, <1>4 DEF SameBut, tasks, table

\* Of what a task t reads, the outputs of what it depends on are written first, and the items
\* that it depends on are made first unless they read the same.
OutputsFirst(task, t) ==
    \A p \in ReadBy(task[t], "ssm_parameters") : \A d \in task[t].deps :
        \A o \in Get(task[d], "ssm_outputs", {}) : p = ParameterOf(o) => o \in task[p].deps
ItemsFirst(task, t, kind) ==
    \A r \in ReadBy(task[t], kind) : \A d \in task[t].deps :
        task[d].section \in ALL_SECTION_NAMES /\ r \notin ReadBy(task[d], kind) => d \in task[r].deps

\* The tasks of a reference are what their names say and wait for those that read their
\* parameters, which wait for those that write them: the one task that reads a parameter for all
\* its consumers comes after the outputs and the items that any of them depends on (the third
\* pass of the generation; what the fourth takes out are consumers).
THEOREM ParametersAreReadLate ==
  ASSUME NEW manifest, IsManifest(manifest),
         generate(manifest).raised = ""
  PROVE  LET task == generate(manifest).task
         IN \A t \in DOMAIN task :
               /\ IsTask(task[t]) /\ IsEntry(t, task[t])
               /\ OutputsFirst(task, t)
               /\ ItemsFirst(task, t, "boto3_parameters") /\ ItemsFirst(task, t, "s3_objects")
  <1> DEFINE table == generate(manifest)
             task == table.task
  <1>1. PICK T : ComesFrom(manifest, T)
    BY GeneratedComesFrom
  <1>2. \A t \in DOMAIN task : task[t].deps \subseteq DOMAIN task
    BY GeneratedComesFrom
  <1> HIDE DEF table
  <1>3. /\ IsTable(T) /\ SameBut(T, table) /\ OnlyOutputs(T, table)
        /\ \A r \in DOMAIN T.task : IsWired(T, r, table)
    BY <1>1 DEF ComesFrom, Later, IsFilled, table
  <1>4. IsTable(table) /\ \A r : Consumers(table, r) = Consumers(T, r)
    BY <1>3, SameIsTable, SameConsumers
  <1>5. ASSUME NEW t \in DOMAIN task
        PROVE  /\ t \in DOMAIN T.task /\ task[t].section = T.task[t].section
               /\ Get(task[t], "ssm_outputs", {}) = Get(T.task[t], "ssm_outputs", {})
               /\ \A kind \in Consumed : ReadBy(task[t], kind) = ReadBy(T.task[t], kind)
    <2>1. /\ t \in DOMAIN T.task /\ DOMAIN task[t] = DOMAIN T.task[t]
          /\ \A k \in DOMAIN T.task[t] \ {"deps"} : task[t][k] = T.task[t][k]
      BY <1>3 DEF SameBut
    <2>2. "section" \in DOMAIN T.task[t]
      BY <1>3, <2>1 DEF IsTable, IsTask, IsBare, TaskKeys
    <2> QED
      BY <2>1, <2>2 DEF Get, ReadBy, Consumed
  \* What a consumer waits for it waited for in T, or it is an output.
  <1>6. ASSUME NEW t \in DOMAIN task, NEW kind \in Consumed, NEW p \in ReadBy(task[t], kind)
        PROVE  /\ IsReader(kind, p) /\ p \in DOMAIN T.task
               /\ \A d \in task[t].deps : d \in DOMAIN T.task
                     /\ (d \in T.task[t].deps \/ d[1] = "ssm_outputs")
    <2>1. p \in ReadBy(T.task[t], kind) /\ t \in DOMAIN T.task
      BY <1>5
    <2>2. /\ IsReader(kind, p) /\ p \in T.task[t].deps
          /\ t[1] \notin Readers /\ Consumers(T, t) = {}
      BY <1>3, <2>1, ConsumerIs
    <2>3. p \in task[t].deps
      BY <1>3, <2>1, <2>2 DEF SameBut
    <2> QED
      BY <1>2, <1>3, <1>5, <2>1, <2>2, <2>3 DEF OnlyOutputs
  <1>7. ASSUME NEW t \in DOMAIN task, NEW p \in ReadBy(task[t], "ssm_parameters"),
               NEW d \in task[t].deps, NEW o \in Get(task[d], "ssm_outputs", {}), p = ParameterOf(o)
        PROVE  o \in task[p].deps
    <2>1. /\ p \in DOMAIN T.task /\ d \in DOMAIN T.task
          /\ d \in T.task[t].deps \/ d[1] = "ssm_outputs"
      BY <1>6, <1>7 DEF Consumed
    <2>2. d[1] # "ssm_outputs"
      <3>1. IsEntry(d, task[d]) /\ "ssm_outputs" \in DOMAIN task[d]
        BY <1>2, <1>4, <1>7 DEF IsTable, Get
      <3> QED
        BY <3>1 DEF IsEntry, Gathered
    <2>3. /\ p \in ReadBy(T.task[t], "ssm_parameters") /\ t \in DOMAIN T.task
          /\ o \in Get(T.task[d], "ssm_outputs", {})
      BY <1>2, <1>5, <1>7 DEF Consumed
    <2>4. AfterOutputs(T, t, table)
      BY <1>3, <2>3 DEF IsWired
    <2> QED
      BY <1>7, <2>1, <2>2, <2>3, <2>4 DEF AfterOutputs
  <1>8. ASSUME NEW t \in DOMAIN task, NEW kind \in {"boto3_parameters", "s3_objects"},
               NEW r \in ReadBy(task[t], kind), NEW d \in task[t].deps,
               task[d].section \in ALL_SECTION_NAMES, r \notin ReadBy(task[d], kind)
        PROVE  d \in task[r].deps
    <2>0. kind \in Consumed
      BY DEF Consumed
    <2>1. /\ IsReader(kind, r) /\ r \in DOMAIN T.task /\ d \in DOMAIN T.task
          /\ d \in T.task[t].deps \/ d[1] = "ssm_outputs"
      BY <1>6, <1>8, <2>0
    <2>2. d \in DOMAIN task /\ IsEntry(d, task[d])
      BY <1>2, <1>4, <1>8 DEF IsTable
    <2>3. d[1] # "ssm_outputs"
      <3>1. d[1] = "ssm_outputs" => task[d].section = "ssm_outputs"
        BY <2>2 DEF IsEntry, Kinds
      <3> QED
        BY <1>8, <3>1, ReadersAreNoItems
    <2>4. /\ r \in ReadBy(T.task[t], kind) /\ t \in DOMAIN T.task
          /\ T.task[d].section \in ALL_SECTION_NAMES
      BY <1>5, <1>8, <2>0, <2>2
    <2>5. AfterItems(T, t, kind, table)
      BY <1>3, <2>4 DEF IsWired
    <2>6. d \in task[r].deps \cup Consumers(T, r)
      BY <2>1, <2>3, <2>4, <2>5 DEF AfterItems, ReadAfter
    <2>7. d \notin Consumers(table, r)
      <3> SUFFICES ASSUME NEW other \in {"boto3_parameters", "s3_objects"}, r \in ReadBy(task[d], other)
                   PROVE  FALSE
        BY DEF Consumers
      <3>1. IsReader(other, r)
        BY <1>6, <2>2 DEF Consumed
      <3>2. other = kind
        BY <2>1, <3>1 DEF IsReader
      <3> QED
        BY <1>8, <3>2
    <2> QED
      BY <1>4, <2>6, <2>7
  <1>9. \A t \in DOMAIN task : IsTask(task[t]) /\ IsEntry(t, task[t])
    BY <1>4 DEF IsTable
  <1>10. \A t \in DOMAIN task : OutputsFirst(task, t)
    BY <1>7 DEF OutputsFirst
  <1>11. \A t \in DOMAIN task :
           ItemsFirst(task, t, "boto3_parameters") /\ ItemsFirst(task, t, "s3_objects")
    BY <1>8 DEF ItemsFirst
  <1> QED
    BY <1>9, <1>10, <1>11 DEF table

\* A task that reads the output of a task of a portfolio waits for that task: whatever its
\* reference says is read (portfolio_task_reference, portfolio_get_all_products_ref and the like)
\* is among its dependencies, and is in the hub or in the account of the task, so that no other
\* spoke is asked for it. A spoke local portfolio that is not terminated waits for the portfolio
\* of the hub, although the generator adds that only after it has put the task into the table.
THEOREM ReferencesAreAwaited ==
  ASSUME NEW manifest, IsManifest(manifest),
         generate(manifest).raised = ""
  PROVE  LET task == generate(manifest).task
         IN \A r \in DOMAIN task : Awaits(r, task[r]) /\ IsPlaced(r, task[r])
  <1> DEFINE table == generate(manifest)
  <1>1. AreAwaited({}, table) /\ table.raised = ""
    BY GeneratedIsFilled DEF IsFilled, ItemsAsked
  <1> HIDE DEF table
  <1>2. \A r \in DOMAIN table.task : Awaits(r, table.task[r]) /\ IsPlaced(r, table.task[r])
    BY <1>1 DEF AreAwaited, Awaits
  <1> QED
    BY <1>2 DEF table

\* An output is written if its item is provisioned and deleted if it is terminated: the one that
\* it is of is in the reference, with the same status, whichever items have outputs and however
\* often an account is a target of them (ssm_outputs_handler of complete_generator.py).
FollowsItsItem(task, o) ==
    task[o].generating \in DOMAIN task /\ task[o].status = task[task[o].generating].status

THEOREM OutputsFollowTheirItems ==
  ASSUME NEW manifest, IsManifest(manifest),
         generate(manifest).raised = ""
  PROVE  LET task == generate(manifest).task
         IN \A o \in DOMAIN task : o[1] = "ssm_outputs" => FollowsItsItem(task, o)
  <1> DEFINE table == generate(manifest)
             task == table.task
             M == ToSet(TasksOfItems(manifest))
  <1>2. \A t \in DOMAIN task : task[t].deps \subseteq DOMAIN task
    BY GeneratedComesFrom
  <1>3. \A one, other \in M : RefOf(one) = RefOf(other) => one.status = other.status
    BY GeneratedComesFrom DEF WellFormed
  <1>4. IsFilled(ItemsAsked(manifest), table) /\ ItemsAsked(manifest).tasks = M
    BY GeneratedIsFilled DEF ItemsAsked
  <1> HIDE DEF table, M
  <1>5. IsTable(table) /\ AreOf(M, table)
    BY <1>4 DEF IsFilled
  <1>6. ASSUME NEW o \in DOMAIN task, o[1] = "ssm_outputs"
        PROVE  FollowsItsItem(task, o)
    <2> DEFINE item == task[o].generating
    <2>1. item \in task[o].deps /\ item[1] \in Provisioned
      BY <1>5, <1>6 DEF IsTable, IsEntry
    <2>2. item \in DOMAIN task
      BY <1>2, <2>1
    <2>3. IsOne(M, item, task[item]) /\ IsOne(M, item, task[o])
      BY <1>5, <1>6, <2>1, <2>2 DEF AreOf, OfItems
    <2> QED
      BY <1>3, <2>2, <2>3 DEF FollowsItsItem, IsOne
  <1> QED
    BY <1>6 DEF table
=============================================================================
