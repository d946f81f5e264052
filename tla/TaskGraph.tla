------------------------------ MODULE TaskGraph ------------------------------
(***************************************************************************)
(* The static data of one run of the task engine (servicecatalog_puppet/   *)
(* waluigi): the task reference that deploy_from_task_reference hands to   *)
(* runner.run, with the dependencies and the resources of every task, and  *)
(* the graph questions the two scheduling algorithms ask about it.         *)
(***************************************************************************)
EXTENDS Naturals, Sequences, FiniteSets

CONSTANTS
    Tasks,      \* the references of the tasks in the task reference
    Absent,     \* references some task depends on that are not in it
    Deps,       \* dependencies_by_reference of every task, in list order
    Resources,  \* every resource some task requires
    Needs,      \* resources_required of every task, as a set
    Generations,\* what networkx.topological_generations answers for a set of tasks
    NoTask      \* no reference: what a free resource or an idle worker holds

ASSUME TasksAssumption == IsFiniteSet(Tasks) /\ Tasks \cap Absent = {} /\ NoTask \notin Tasks
ASSUME DepsAssumption  == Deps \in [Tasks -> Seq(Tasks \cup Absent)]
ASSUME NeedsAssumption == Needs \in [Tasks -> SUBSET Resources]

NOT_SET     == "NOT_SET"
IN_PROGRESS == "IN_PROGRESS"
COMPLETED   == "COMPLETED"
ERRORED     == "ERRORED"
BLOCKED     == "BLOCKED"

-----------------------------------------------------------------------------
\* The dependencies of t that are in the reference: the others are skipped, as
\* they ran in the hub before the spoke that now runs t.
DepsOf(t) == {Deps[t][i] : i \in DOMAIN Deps[t]} \cap Tasks

\* The in-edges of t in the graph over the tasks G.
DependentsWithin(G, t) == {u \in G : t \in DepsOf(u)}

\* C contains every task that depends on a member of C.
ClosedUnderDependents(C) ==
    \A t \in Tasks : DepsOf(t) \cap C # {} => t \in C

\* The tasks of E and their ancestors: everything that needs one of them,
\* directly or not.
Doomed(E) ==
    {t \in Tasks :
        \A C \in SUBSET Tasks : (E \subseteq C /\ ClosedUnderDependents(C)) => t \in C}

-----------------------------------------------------------------------------
(***************************************************************************)
(* networkx.topological_generations over the tasks G: a task nobody in G   *)
(* depends on is of generation 0, any other is one further than the last   *)
(* of its dependents.                                                      *)
(***************************************************************************)
IsGenerationOf(gen, G) ==
    /\ gen \in [G -> Nat]
    /\ \A t \in G :
          /\ \A u \in DependentsWithin(G, t) : gen[u] < gen[t]
          /\ gen[t] > 0 => \E u \in DependentsWithin(G, t) : gen[t] = gen[u] + 1

\* It answers for every part of the reference: ensure_no_cyclic_dependencies has
\* accepted it, so no part of it has a cycle.
ASSUME GenerationsAssumption ==
    \A G \in SUBSET Tasks : IsGenerationOf(Generations[G], G)

\* Mutant: the generations taken from the wrong end.
FirstGeneration(G) ==
    {t \in G : \A u \in G : Generations[G][t] <= Generations[G][u]}

\* The members of the last generation of G.
LastGeneration(G) ==
    {t \in G : \A u \in G : Generations[G][u] <= Generations[G][t]}
=============================================================================
