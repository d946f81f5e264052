--------------------------- MODULE WorkerRunProofs ---------------------------
(***************************************************************************)
(* Proofs about WorkerRun, for any task reference, any number of workers,  *)
(* both modes and any set of fragile tasks.  What a scan has seen is       *)
(* settled stays so, although other workers report between two scans: that *)
(* is why the first worker that finds nothing may end the run for all.     *)
(***************************************************************************)
EXTENDS WorkerRun, FiniteSetTheorems, SequenceTheorems, TLAPS

USE TasksAssumption, NeedsAssumption, WorkersAssumption, ModeAssumption

-----------------------------------------------------------------------------
(* What waits for a task that failed. *)

\* Doomed(E) is the least set that holds E and is closed under dependents.
LEMMA DoomedFacts ==
  ASSUME NEW E \in SUBSET Tasks
  PROVE  /\ E \subseteq Doomed(E) /\ Doomed(E) \subseteq Tasks
         /\ ClosedUnderDependents(Doomed(E))
         /\ \A C \in SUBSET Tasks :
               E \subseteq C /\ ClosedUnderDependents(C) => Doomed(E) \subseteq C
  <1>1. E \subseteq Doomed(E) /\ Doomed(E) \subseteq Tasks
    BY DEF Doomed
  <1>2. \A C \in SUBSET Tasks : E \subseteq C /\ ClosedUnderDependents(C) => Doomed(E) \subseteq C
    BY DEF Doomed
  <1>3. ClosedUnderDependents(Doomed(E))
    <2> SUFFICES ASSUME NEW t \in Tasks, NEW d \in DepsOf(t), d \in Doomed(E),
                        NEW C \in SUBSET Tasks, E \subseteq C, ClosedUnderDependents(C)
                 PROVE  t \in C
      BY DEF ClosedUnderDependents, Doomed
    <2>1. d \in C
      BY <1>2
    <2> QED
      BY <2>1 DEF ClosedUnderDependents
  <1> QED
    BY <1>1, <1>2, <1>3

\* The more tasks failed, the more are doomed.
LEMMA DoomedGrows ==
  ASSUME NEW E \in SUBSET Tasks, NEW F \in SUBSET Tasks, E \subseteq F
  PROVE  Doomed(E) \subseteq Doomed(F)
  BY DEF Doomed

-----------------------------------------------------------------------------
(* Types. *)

\* A worker that was given a task has it, and one that executed it has an outcome.
HandsInv ==
    \A w \in Workers :
        /\ wpc[w] \in {"picking", "starting", "running", "reporting", "dead"} => held[w] \in Tasks
        /\ wpc[w] = "reporting" => result[w] \in {COMPLETED, ERRORED}

TypeInv == TypeOK /\ HandsInv

LEMMA TypeInit == Init => TypeInv
  <1> SUFFICES ASSUME Init PROVE TypeInv
    OBVIOUS
  <1>1. tasksToRun \in Seq(Tasks)
    <2>1. CASE Mode = "threads"
      BY <2>1 DEF Init, TasksToRun
    <2>2. CASE Mode = "processes"
      <3>1. Cardinality(Tasks) \in Nat
        BY FS_CardinalityType
      <3>2. tasksToRun \in [1 .. Cardinality(Tasks) -> Tasks]
        BY <2>2 DEF Init, TasksToRun
      <3> QED
        BY <3>1, <3>2, SeqDef
    <2> QED
      BY <2>1, <2>2
  <1>2. Len(tasksToRun) \in Nat
    BY <1>1
  <1>3. cursor \in [Workers -> 1 .. Len(tasksToRun) + 1]
    BY <1>2 DEF Init
  <1>4. HandsInv
    BY DEF Init, HandsInv
  <1>5. /\ status \in [Tasks -> {NOT_SET, IN_PROGRESS, COMPLETED, ERRORED, BLOCKED}]
        /\ resources \in [Resources -> Tasks \cup {NoTask}]
        /\ wpc \in [Workers -> WorkerStates]
        /\ stuck \in [Workers -> BOOLEAN]
        /\ held \in [Workers -> Tasks \cup {NoTask}]
        /\ result \in [Workers -> {NOT_SET, COMPLETED, ERRORED}]
    BY DEF Init, WorkerStates
  <1> QED
    BY <1>1, <1>3, <1>4, <1>5 DEF Init, TypeInv, TypeOK

LEMMA TypeStep == TypeInv /\ [Next]_vars => TypeInv'
  <1> SUFFICES ASSUME TypeInv, [Next]_vars PROVE TypeInv'
    OBVIOUS
  <1> USE DEF TypeInv, TypeOK, HandsInv, WorkerStates, scanVars
  <1>0. Len(tasksToRun) \in Nat
    OBVIOUS
  <1>1. ASSUME NEW w \in Workers, BeginScan(w) PROVE TypeInv'
    BY <1>0, <1>1 DEF BeginScan
  <1>2. ASSUME NEW w \in Workers, PassTask(w) PROVE TypeInv'
    <2>1. Scanned(w) \in Tasks
      BY <1>0, <1>2, ElementOfSeq DEF PassTask, PassWith, Scanned
    <2>2. cursor' \in [Workers -> 1 .. Len(tasksToRun) + 1]
      BY <1>0, <1>2 DEF PassTask, PassWith
    <2> QED
      BY <1>2, <2>1, <2>2 DEF PassTask, PassWith
  <1>3. ASSUME NEW w \in Workers, PickTask(w) PROVE TypeInv'
    <2>1. Scanned(w) \in Tasks
      BY <1>0, <1>3, ElementOfSeq DEF PickTask, Scanned
    <2> QED
      BY <1>3, <2>1 DEF PickTask
  <1>4. ASSUME NEW w \in Workers, LockTask(w) PROVE TypeInv'
    BY <1>4 DEF LockTask, LockAs
  <1>5. ASSUME NEW w \in Workers, EndScan(w) PROVE TypeInv'
    BY <1>5 DEF EndScan
  <1>6. ASSUME NEW w \in Workers, StartTask(w) PROVE TypeInv'
    BY <1>6 DEF StartTask
  <1>7. ASSUME NEW w \in Workers, ExecuteTask(w) PROVE TypeInv'
    BY <1>7 DEF ExecuteTask
  <1>8. ASSUME NEW w \in Workers, WorkerDies(w) PROVE TypeInv'
    BY <1>8 DEF WorkerDies
  <1>9. ASSUME NEW w \in Workers, SetTaskAsRun(w) PROVE TypeInv'
    BY <1>9 DEF SetTaskAsRun, SetTaskWith
  <1>10. CASE ShutDown
    BY <1>10 DEF ShutDown
  <1>11. CASE UNCHANGED vars
    BY <1>11 DEF vars
  <1> QED
    BY <1>1, <1>2, <1>3, <1>4, <1>5, <1>6, <1>7, <1>8, <1>9, <1>10, <1>11
       DEF Next, Worker, Ended

\* Every variable keeps its type, whatever the interleaving of the polling workers.
THEOREM TypeCorrect == Spec => []TypeOK
  <1>1. TypeInv => TypeOK
    BY DEF TypeInv
  <1> QED
    BY TypeInit, TypeStep, <1>1, PTL DEF Spec

-----------------------------------------------------------------------------
(* The inductive invariant. *)

\* Nothing will be done about t any more.
Settled(t) == status[t] \in {COMPLETED, ERRORED, BLOCKED}

\* Whoever scans or picks holds the lock.
LockInv == \A w \in Workers : wpc[w] \in {"scanning", "picking"} => lock = w

\* The task that a worker is about to lock is still free, and nothing it needs is not.
PickInv ==
    \A w \in Workers : wpc[w] = "picking" =>
        /\ status[held[w]] = NOT_SET
        /\ DepsOf(held[w]) \subseteq Completed
        /\ ResourcesFree(held[w])
        /\ \E i \in DOMAIN tasksToRun : tasksToRun[i] = held[w]

\* Only tasks of the list are ever touched ...
ListInv ==
    \A t \in Tasks : status[t] # NOT_SET => \E i \in DOMAIN tasksToRun : tasksToRun[i] = t

\* ... and the list does not change.
CoverInv == tasksToRun \in TasksToRun

\* What a scan has passed without finding something to wait for is settled ...
ScanInv ==
    \A w \in Workers : wpc[w] = "scanning" /\ stuck[w] =>
        \A i \in DOMAIN tasksToRun : i < cursor[w] => Settled(tasksToRun[i])

\* ... and so is everything, once a scan has come to its end that way.
EndInv ==
    /\ complete => \A i \in DOMAIN tasksToRun : Settled(tasksToRun[i])
    /\ runner = "returned" => complete

IInv ==
    /\ TypeInv /\ LockInv /\ PickInv /\ ListInv /\ CoverInv /\ ScanInv /\ EndInv
    /\ OneWorkerPerTask /\ BlockedIsDoomed

LEMMA InvInit == Init => IInv
  <1> SUFFICES ASSUME Init PROVE IInv
    OBVIOUS
  <1>1. /\ \A t \in Tasks : status[t] = NOT_SET
        /\ \A r \in Resources : resources[r] = NoTask
        /\ \A w \in Workers : wpc[w] = "looking"
        /\ Using = {}
    BY DEF Init, Using
  <1>2. LockInv /\ PickInv /\ ListInv /\ CoverInv /\ ScanInv /\ EndInv
    BY <1>1 DEF Init, LockInv, PickInv, ListInv, CoverInv, ScanInv, EndInv
  <1>3. OneWorkerPerTask
    BY <1>1 DEF OneWorkerPerTask, NOT_SET, IN_PROGRESS
  <1>4. BlockedIsDoomed
    BY <1>1 DEF BlockedIsDoomed, NOT_SET, BLOCKED
  <1> QED
    BY <1>2, <1>3, <1>4, TypeInit DEF IInv

-----------------------------------------------------------------------------
(* What a step does to the statuses. *)

\* A settled task stays settled, what has begun never goes back, and the list is the same.
LEMMA StatusStep ==
  ASSUME IInv, [Next]_vars
  PROVE  /\ tasksToRun' = tasksToRun
         /\ \A t \in Tasks : Settled(t) => status'[t] = status[t]
         /\ \A t \in Tasks : status[t] # NOT_SET => status'[t] # NOT_SET
  <1> USE DEF IInv, TypeInv, TypeOK, HandsInv, Settled, NOT_SET, IN_PROGRESS, COMPLETED, ERRORED, BLOCKED, scanVars
  <1>1. ASSUME NEW w \in Workers, PassTask(w)
        PROVE  /\ tasksToRun' = tasksToRun
               /\ \A t \in Tasks : status[t] # NOT_SET => status'[t] = status[t]
    <2>1. Scanned(w) \in Tasks
      BY <1>1, ElementOfSeq DEF PassTask, PassWith, Scanned
    <2> QED
      BY <1>1, <2>1 DEF PassTask, PassWith
  <1>2. ASSUME NEW w \in Workers, LockTask(w)
        PROVE  /\ tasksToRun' = tasksToRun
               /\ \A t \in Tasks : status[t] # NOT_SET => status'[t] = status[t]
    BY <1>2 DEF LockTask, LockAs, PickInv
  <1>3. ASSUME NEW w \in Workers, SetTaskAsRun(w)
        PROVE  /\ tasksToRun' = tasksToRun
               /\ \A t \in Tasks : status[t] # IN_PROGRESS => status'[t] = status[t]
               /\ \A t \in Tasks : status[t] = IN_PROGRESS => status'[t] # NOT_SET
    <2>1. status[held[w]] = IN_PROGRESS /\ held[w] \in Tasks /\ result[w] \in {COMPLETED, ERRORED}
      BY <1>3 DEF SetTaskAsRun, SetTaskWith, OneWorkerPerTask, Using
    <2> QED
      BY <1>3, <2>1 DEF SetTaskAsRun, SetTaskWith
  <1>4. ASSUME NEW w \in Workers,
               BeginScan(w) \/ PickTask(w) \/ EndScan(w) \/ StartTask(w) \/ ExecuteTask(w) \/ WorkerDies(w)
        PROVE  UNCHANGED <<tasksToRun, status>>
    BY <1>4 DEF BeginScan, PickTask, EndScan, StartTask, ExecuteTask, WorkerDies
  <1>5. CASE ShutDown \/ UNCHANGED vars
    BY <1>5 DEF ShutDown, vars
  <1> QED
    BY <1>1, <1>2, <1>3, <1>4, <1>5 DEF Next, Worker, Ended

-----------------------------------------------------------------------------
(* The parts of the invariant. *)

LEMMA LockStep == IInv /\ [Next]_vars => LockInv'
  <1> SUFFICES ASSUME IInv, [Next]_vars PROVE LockInv'
    OBVIOUS
  <1> USE DEF IInv, TypeInv, TypeOK, LockInv, scanVars
  <1>1. ASSUME NEW w \in Workers,
               BeginScan(w) \/ PassTask(w) \/ PickTask(w) \/ LockTask(w) \/ EndScan(w)
        PROVE  LockInv'
    BY <1>1 DEF BeginScan, PassTask, PassWith, PickTask, LockTask, LockAs, EndScan
  <1>2. ASSUME NEW w \in Workers,
               StartTask(w) \/ ExecuteTask(w) \/ WorkerDies(w) \/ SetTaskAsRun(w)
        PROVE  LockInv'
    BY <1>2 DEF StartTask, ExecuteTask, WorkerDies, SetTaskAsRun, SetTaskWith
  <1>3. CASE ShutDown \/ UNCHANGED vars
    BY <1>3 DEF ShutDown, vars
  <1> QED
    BY <1>1, <1>2, <1>3 DEF Next, Worker, Ended

\* The dependencies of a task that is not blocked have completed.
LEMMA UnblockedRests ==
  ASSUME TypeOK, NEW t \in Tasks, ~CurrentlyBlocked(t)
  PROVE  DepsOf(t) \subseteq Completed
  BY DEF CurrentlyBlocked, Unmet, DepsOf, Completed

LEMMA PickStep == IInv /\ [Next]_vars => PickInv'
  <1> SUFFICES ASSUME IInv, [Next]_vars PROVE PickInv'
    OBVIOUS
  <1> USE DEF IInv, TypeInv, TypeOK, scanVars
  <1>1. ASSUME NEW w \in Workers, PickTask(w)
        PROVE  PickInv'
    <2>1. Scanned(w) \in Tasks /\ cursor[w] \in DOMAIN tasksToRun /\ Scanned(w) = tasksToRun[cursor[w]]
      BY <1>1, ElementOfSeq DEF PickTask, Scanned
    <2>2. DepsOf(Scanned(w)) \subseteq Completed
      BY <1>1, <2>1, UnblockedRests DEF PickTask
    <2>3. /\ UNCHANGED <<tasksToRun, status, resources>>
          /\ Completed' = Completed
          /\ held' = [held EXCEPT ![w] = Scanned(w)]
          /\ wpc' = [wpc EXCEPT ![w] = "picking"]
      BY <1>1 DEF PickTask, Completed
    <2> SUFFICES ASSUME NEW v \in Workers, wpc'[v] = "picking"
                 PROVE  /\ status'[held'[v]] = NOT_SET
                        /\ DepsOf(held'[v]) \subseteq Completed'
                        /\ ResourcesFree(held[v])'
                        /\ \E i \in DOMAIN tasksToRun' : tasksToRun'[i] = held'[v]
      BY DEF PickInv
    <2>4. CASE v = w
      <3>1. held'[v] = Scanned(w)
        BY <2>3, <2>4
      <3>2. status[Scanned(w)] = NOT_SET /\ ResourcesFree(Scanned(w))
        BY <1>1 DEF PickTask
      <3>3. ResourcesFree(held[v])'
        BY <2>3, <3>1, <3>2 DEF ResourcesFree
      <3> QED
        BY <2>1, <2>2, <2>3, <3>1, <3>2, <3>3
    <2>5. CASE v # w
      <3>1. held'[v] = held[v] /\ wpc[v] = "picking"
        BY <2>3, <2>5
      <3>2. /\ status[held[v]] = NOT_SET
            /\ DepsOf(held[v]) \subseteq Completed
            /\ ResourcesFree(held[v])
            /\ \E i \in DOMAIN tasksToRun : tasksToRun[i] = held[v]
        BY <3>1 DEF PickInv
      <3>3. ResourcesFree(held[v])'
        BY <2>3, <3>1, <3>2 DEF ResourcesFree
      <3> QED
        BY <2>3, <3>1, <3>2, <3>3
    <2> QED
      BY <2>4, <2>5
  <1>2. ASSUME NEW w \in Workers,
               PassTask(w) \/ LockTask(w)
        PROVE  PickInv'
    <2>1. \A v \in Workers \ {w} : wpc[v] # "picking"
      BY <1>2 DEF PassTask, PassWith, LockTask, LockAs, LockInv
    <2>2. \A v \in Workers : wpc'[v] # "picking"
      BY <1>2, <2>1 DEF PassTask, PassWith, LockTask, LockAs
    <2> QED
      BY <2>2 DEF PickInv
  <1>3. ASSUME NEW w \in Workers, SetTaskAsRun(w)
        PROVE  PickInv'
    <2>1. \A v \in Workers : wpc'[v] # "picking"
      BY <1>3 DEF SetTaskAsRun, SetTaskWith, LockInv
    <2> QED
      BY <2>1 DEF PickInv
  <1>4. ASSUME NEW w \in Workers,
               BeginScan(w) \/ EndScan(w) \/ StartTask(w) \/ ExecuteTask(w) \/ WorkerDies(w)
        PROVE  PickInv'
    <2>1. /\ UNCHANGED <<tasksToRun, status, resources, held>>
          /\ \A v \in Workers : wpc'[v] = "picking" => wpc[v] = "picking"
      BY <1>4 DEF BeginScan, EndScan, StartTask, ExecuteTask, WorkerDies
    <2> QED
      BY <2>1 DEF PickInv, ResourcesFree, Completed
  <1>5. CASE ShutDown \/ UNCHANGED vars
    <2>1. /\ UNCHANGED <<tasksToRun, status, resources, held>>
          /\ \A v \in Workers : wpc'[v] = "picking" => wpc[v] = "picking"
      BY <1>5 DEF ShutDown, vars
    <2> QED
      BY <2>1 DEF PickInv, ResourcesFree, Completed
  <1> QED
    BY <1>1, <1>2, <1>3, <1>4, <1>5 DEF Next, Worker, Ended

LEMMA ListStep == IInv /\ [Next]_vars => ListInv' /\ CoverInv'
  <1> SUFFICES ASSUME IInv, [Next]_vars PROVE ListInv' /\ CoverInv'
    OBVIOUS
  <1>0. tasksToRun' = tasksToRun /\ CoverInv'
    BY StatusStep DEF IInv, CoverInv, TasksToRun
  <1> USE DEF IInv, TypeInv, TypeOK, HandsInv, ListInv, scanVars
  <1>1. ASSUME NEW w \in Workers, PassTask(w) PROVE ListInv'
    <2>1. Scanned(w) = tasksToRun[cursor[w]] /\ cursor[w] \in DOMAIN tasksToRun
      BY <1>1 DEF PassTask, PassWith, Scanned
    <2>2. \A t \in Tasks : t # Scanned(w) => status'[t] = status[t]
      BY <1>1 DEF PassTask, PassWith
    <2> QED
      BY <1>0, <2>1, <2>2
  <1>2. ASSUME NEW w \in Workers, LockTask(w) PROVE ListInv'
    BY <1>0, <1>2 DEF LockTask, LockAs, PickInv
  <1>3. ASSUME NEW w \in Workers, SetTaskAsRun(w) PROVE ListInv'
    <2>1. held[w] \in Tasks /\ status[held[w]] = IN_PROGRESS
      BY <1>3 DEF SetTaskAsRun, SetTaskWith, OneWorkerPerTask, Using
    <2>2. \A t \in Tasks : t # held[w] => status'[t] = status[t]
      BY <1>3 DEF SetTaskAsRun, SetTaskWith
    <2> QED
      BY <1>0, <2>1, <2>2 DEF IN_PROGRESS, NOT_SET
  <1>4. ASSUME NEW w \in Workers,
               BeginScan(w) \/ PickTask(w) \/ EndScan(w) \/ StartTask(w) \/ ExecuteTask(w) \/ WorkerDies(w)
        PROVE  ListInv'
    BY <1>0, <1>4 DEF BeginScan, PickTask, EndScan, StartTask, ExecuteTask, WorkerDies
  <1>5. CASE ShutDown \/ UNCHANGED vars
    BY <1>0, <1>5 DEF ShutDown, vars
  <1> QED
    BY <1>0, <1>1, <1>2, <1>3, <1>4, <1>5 DEF Next, Worker, Ended

\* Settled tasks are settled after the step.
LEMMA SettledStep ==
  ASSUME IInv, [Next]_vars
  PROVE  /\ \A i \in DOMAIN tasksToRun : tasksToRun[i] \in Tasks
         /\ \A t \in Tasks : Settled(t) => Settled(t)'
  <1>1. \A i \in DOMAIN tasksToRun : tasksToRun[i] \in Tasks
    BY ElementOfSeq DEF IInv, TypeInv, TypeOK
  <1> QED
    BY <1>1, StatusStep DEF Settled

LEMMA ScanStep == IInv /\ [Next]_vars => ScanInv'
  <1> SUFFICES ASSUME IInv, [Next]_vars,
                      NEW v \in Workers, wpc'[v] = "scanning", stuck'[v],
                      NEW i \in DOMAIN tasksToRun', i < cursor'[v]
               PROVE  Settled(tasksToRun[i])'
    BY DEF ScanInv
  <1>0. /\ tasksToRun' = tasksToRun
        /\ i \in DOMAIN tasksToRun
        /\ tasksToRun[i] \in Tasks
        /\ Settled(tasksToRun[i]) => Settled(tasksToRun[i])'
    BY StatusStep, SettledStep DEF Settled
  <1>00. wpc[v] = "scanning" /\ stuck[v] /\ i < cursor[v] => Settled(tasksToRun[i])
    BY <1>0 DEF IInv, ScanInv
  <1>000. DOMAIN tasksToRun = 1 .. Len(tasksToRun) /\ Len(tasksToRun) \in Nat
    BY DEF IInv, TypeInv, TypeOK
  <1> USE DEF IInv, TypeInv, TypeOK, scanVars
  <1>1. ASSUME NEW w \in Workers, BeginScan(w) PROVE Settled(tasksToRun[i])'
    <2>1. CASE v = w
      BY <1>1, <2>1, <1>0, <1>000 DEF BeginScan
    <2>2. CASE v # w
      BY <1>1, <2>2, <1>0, <1>00 DEF BeginScan
    <2> QED
      BY <2>1, <2>2
  <1>2. ASSUME NEW w \in Workers, PassTask(w) PROVE Settled(tasksToRun[i])'
    <2>1. CASE v = w /\ i = cursor[w]
      <3>1. Scanned(w) = tasksToRun[i] /\ stuck'[w]
        BY <2>1 DEF Scanned
      <3>2. Settled(Scanned(w)) \/ status'[Scanned(w)] = BLOCKED
        BY <1>2, <1>0, <3>1 DEF PassTask, PassWith, Settled
      <3> QED
        BY <1>0, <3>1, <3>2 DEF Settled
    <2>2. CASE v = w /\ i # cursor[w]
      <3>1. i < cursor[v]
        BY <1>2, <2>2, <1>000, <1>0 DEF PassTask, PassWith
      <3>2. wpc[v] = "scanning" /\ stuck[v]
        BY <1>2, <2>2 DEF PassTask, PassWith
      <3> QED
        BY <1>0, <1>00, <3>1, <3>2
    <2>3. CASE v # w
      BY <1>2, <2>3, <1>0, <1>00 DEF PassTask, PassWith
    <2> QED
      BY <2>1, <2>2, <2>3
  <1>3. ASSUME NEW w \in Workers,
               PickTask(w) \/ LockTask(w) \/ EndScan(w) \/ StartTask(w) \/ ExecuteTask(w)
                  \/ WorkerDies(w) \/ SetTaskAsRun(w)
        PROVE  Settled(tasksToRun[i])'
    <2>1. wpc[v] = "scanning" /\ stuck[v] /\ cursor'[v] = cursor[v]
      BY <1>3 DEF PickTask, LockTask, LockAs, EndScan, StartTask, ExecuteTask, WorkerDies,
                  SetTaskAsRun, SetTaskWith
    <2> QED
      BY <1>0, <1>00, <2>1
  <1>4. CASE ShutDown \/ UNCHANGED vars
    <2>1. wpc[v] = "scanning" /\ stuck[v] /\ cursor'[v] = cursor[v]
      BY <1>4 DEF ShutDown, vars
    <2> QED
      BY <1>0, <1>00, <2>1
  <1> QED
    BY <1>1, <1>2, <1>3, <1>4 DEF Next, Worker, Ended

LEMMA EndStep == IInv /\ [Next]_vars => EndInv'
  <1> SUFFICES ASSUME IInv, [Next]_vars PROVE EndInv'
    OBVIOUS
  <1>0. /\ tasksToRun' = tasksToRun
        /\ \A i \in DOMAIN tasksToRun : Settled(tasksToRun[i]) => Settled(tasksToRun[i])'
    BY StatusStep, SettledStep
  <1>1. ASSUME NEW w \in Workers, EndScan(w) PROVE EndInv'
    <2>1. stuck[w] => \A i \in DOMAIN tasksToRun : Settled(tasksToRun[i])
      <3>1. /\ DOMAIN tasksToRun = 1 .. Len(tasksToRun) /\ Len(tasksToRun) \in Nat
            /\ cursor[w] \in 1 .. Len(tasksToRun) + 1
        BY DEF IInv, TypeInv, TypeOK
      <3>2. \A i \in DOMAIN tasksToRun : i < cursor[w]
        BY <1>1, <3>1 DEF EndScan
      <3> QED
        BY <1>1, <3>2 DEF EndScan, IInv, ScanInv
    <2>2. (complete' => complete \/ stuck[w]) /\ runner' = runner /\ (complete => complete')
      BY <1>1 DEF EndScan
    <2> QED
      BY <1>0, <2>1, <2>2 DEF IInv, EndInv
  <1>2. ASSUME NEW w \in Workers,
               BeginScan(w) \/ PassTask(w) \/ PickTask(w) \/ LockTask(w) \/ StartTask(w)
                  \/ ExecuteTask(w) \/ WorkerDies(w) \/ SetTaskAsRun(w)
        PROVE  EndInv'
    <2>1. UNCHANGED <<complete, runner>>
      BY <1>2 DEF BeginScan, PassTask, PassWith, PickTask, LockTask, LockAs, StartTask,
                  ExecuteTask, WorkerDies, SetTaskAsRun, SetTaskWith
    <2> QED
      BY <1>0, <2>1 DEF IInv, EndInv
  <1>3. CASE ShutDown \/ UNCHANGED vars
    <2>1. complete' = complete /\ (runner' = "returned" => runner = "returned" \/ complete)
      BY <1>3 DEF ShutDown, vars
    <2> QED
      BY <1>0, <2>1 DEF IInv, EndInv
  <1> QED
    BY <1>1, <1>2, <1>3 DEF Next, Worker, Ended

-----------------------------------------------------------------------------
(* Who works on what. *)

\* A step that leaves the workers their tasks leaves them their resources.
LEMMA SameHands ==
  ASSUME OneWorkerPerTask,
         Using' = Using, \A w \in Using : held'[w] = held[w],
         resources' = resources,
         \A t \in Tasks : status'[t] = IN_PROGRESS <=> status[t] = IN_PROGRESS
  PROVE  OneWorkerPerTask'
  BY DEF OneWorkerPerTask

\* Once the end was announced nobody works on anything.
LEMMA EndMeansIdle ==
  ASSUME IInv, complete
  PROVE  Using = {}
  <1> SUFFICES ASSUME NEW w \in Using PROVE FALSE
    BY DEF Using
  <1>1. held[w] \in Tasks /\ status[held[w]] = IN_PROGRESS
    BY DEF Using, IInv, TypeInv, HandsInv, OneWorkerPerTask
  <1>2. PICK i \in DOMAIN tasksToRun : tasksToRun[i] = held[w]
    BY <1>1 DEF IInv, ListInv, IN_PROGRESS, NOT_SET
  <1>3. Settled(held[w])
    BY <1>2 DEF IInv, EndInv
  <1> QED
    BY <1>1, <1>3 DEF Settled, IN_PROGRESS, COMPLETED, ERRORED, BLOCKED

LEMMA OneWorkerStep == IInv /\ [Next]_vars => OneWorkerPerTask'
  <1> SUFFICES ASSUME IInv, [Next]_vars PROVE OneWorkerPerTask'
    OBVIOUS
  <1> USE DEF IInv, TypeInv, TypeOK, HandsInv, scanVars
  <1>1. ASSUME NEW w \in Workers, PassTask(w) PROVE OneWorkerPerTask'
    <2>1. \A t \in Tasks : status'[t] = IN_PROGRESS <=> status[t] = IN_PROGRESS
      <3>1. Scanned(w) \in Tasks
        BY <1>1, ElementOfSeq DEF PassTask, PassWith, Scanned
      <3> QED
        BY <1>1, <3>1 DEF PassTask, PassWith, IN_PROGRESS, NOT_SET, BLOCKED
    <2>2. Using' = Using /\ held' = held /\ resources' = resources
      BY <1>1 DEF PassTask, PassWith, Using
    <2> QED
      BY <2>1, <2>2, SameHands
  <1>2. ASSUME NEW w \in Workers, PickTask(w) PROVE OneWorkerPerTask'
    <2>1. Using' = Using /\ w \notin Using /\ resources' = resources /\ status' = status
      BY <1>2 DEF PickTask, Using
    <2>2. \A v \in Using : held'[v] = held[v]
      BY <1>2, <2>1 DEF PickTask, Using
    <2> QED
      BY <2>1, <2>2, SameHands
  <1>3. ASSUME NEW w \in Workers,
               BeginScan(w) \/ EndScan(w) \/ StartTask(w) \/ ExecuteTask(w) \/ WorkerDies(w)
        PROVE  OneWorkerPerTask'
    <2>1. UNCHANGED <<held, resources, status>>
      BY <1>3 DEF BeginScan, EndScan, StartTask, ExecuteTask, WorkerDies
    <2>2. Using' = Using
      BY <1>3 DEF BeginScan, EndScan, StartTask, ExecuteTask, WorkerDies, Using
    <2> QED
      BY <2>1, <2>2, SameHands
  <1>4. ASSUME NEW w \in Workers, LockTask(w) PROVE OneWorkerPerTask'
    <2> DEFINE t0 == held[w]
    <2>1. /\ t0 \in Tasks /\ status[t0] = NOT_SET /\ w \notin Using
          /\ \A r \in Needs[t0] : resources[r] = NoTask
      BY <1>4 DEF LockTask, LockAs, PickInv, ResourcesFree, Using
    <2>2. /\ Using' = Using \cup {w} /\ held' = held
          /\ status' = [status EXCEPT ![t0] = IN_PROGRESS]
          /\ resources' = [r \in Resources |-> IF r \in Needs[t0] THEN t0 ELSE resources[r]]
      BY <1>4 DEF LockTask, LockAs, Using
    <2>3. \A v \in Using : held[v] \in Tasks /\ held[v] # t0 /\ Needs[held[v]] \cap Needs[t0] = {}
      <3> SUFFICES ASSUME NEW v \in Using
                   PROVE  held[v] \in Tasks /\ held[v] # t0 /\ Needs[held[v]] \cap Needs[t0] = {}
        OBVIOUS
      <3>1. held[v] \in Tasks
        BY DEF Using
      <3>2. held[v] # t0
        BY <2>1, <3>1 DEF OneWorkerPerTask, IN_PROGRESS, NOT_SET
      <3>3. \A r \in Needs[held[v]] : r \in Resources /\ resources[r] = held[v]
        BY <3>1 DEF OneWorkerPerTask
      <3> QED
        BY <2>1, <3>1, <3>2, <3>3
    <2>4. \A u, v \in Using' : u # v => held'[u] # held'[v] /\ Needs[held'[u]] \cap Needs[held'[v]] = {}
      BY <2>2, <2>3 DEF OneWorkerPerTask
    <2>5. \A t \in Tasks : status'[t] = IN_PROGRESS <=> \E v \in Using' : held'[v] = t
      BY <2>1, <2>2 DEF OneWorkerPerTask
    <2>6. \A r \in Resources, t \in Tasks :
              resources'[r] = t <=> \E v \in Using' : held'[v] = t /\ r \in Needs[t]
      <3> SUFFICES ASSUME NEW r \in Resources, NEW t \in Tasks
                   PROVE  resources'[r] = t <=> \E v \in Using' : held'[v] = t /\ r \in Needs[t]
        OBVIOUS
      <3>1. CASE r \in Needs[t0]
        BY <3>1, <2>1, <2>2, <2>3
      <3>2. CASE r \notin Needs[t0]
        BY <3>2, <2>1, <2>2 DEF OneWorkerPerTask
      <3> QED
        BY <3>1, <3>2
    <2> QED
      BY <2>4, <2>5, <2>6 DEF OneWorkerPerTask
  <1>5. ASSUME NEW w \in Workers, SetTaskAsRun(w) PROVE OneWorkerPerTask'
    <2> DEFINE t0 == held[w]
    <2>1. /\ t0 \in Tasks /\ w \in Using /\ status[t0] = IN_PROGRESS
          /\ result[w] # IN_PROGRESS
      BY <1>5 DEF SetTaskAsRun, SetTaskWith, Using, OneWorkerPerTask, IN_PROGRESS, COMPLETED, ERRORED
    <2>2. /\ Using' = Using \ {w}
          /\ \A v \in Using \ {w} : held'[v] = held[v]
          /\ status' = [status EXCEPT ![t0] = result[w]]
          /\ resources' = [r \in Resources |-> IF r \in Needs[t0] THEN NoTask ELSE resources[r]]
      BY <1>5 DEF SetTaskAsRun, SetTaskWith, Using
    <2>3. \A v \in Using \ {w} : held[v] \in Tasks /\ held[v] # t0 /\ Needs[held[v]] \cap Needs[t0] = {}
      BY <2>1 DEF Using, OneWorkerPerTask
    <2>4. \A u, v \in Using' : u # v => held'[u] # held'[v] /\ Needs[held'[u]] \cap Needs[held'[v]] = {}
      BY <2>2 DEF OneWorkerPerTask
    <2>5. \A t \in Tasks : status'[t] = IN_PROGRESS <=> \E v \in Using' : held'[v] = t
      <3> SUFFICES ASSUME NEW t \in Tasks
                   PROVE  status'[t] = IN_PROGRESS <=> \E v \in Using' : held'[v] = t
        OBVIOUS
      <3>1. CASE t = t0
        BY <3>1, <2>1, <2>2, <2>3
      <3>2. CASE t # t0
        <4>1. status'[t] = status[t]
          BY <2>2, <3>2
        <4>2. (\E v \in Using : held[v] = t) <=> (\E v \in Using' : held'[v] = t)
          BY <2>2, <3>2
        <4> QED
          BY <4>1, <4>2 DEF OneWorkerPerTask
      <3> QED
        BY <3>1, <3>2
    <2>6. \A r \in Resources, t \in Tasks :
              resources'[r] = t <=> \E v \in Using' : held'[v] = t /\ r \in Needs[t]
      <3> SUFFICES ASSUME NEW r \in Resources, NEW t \in Tasks
                   PROVE  resources'[r] = t <=> \E v \in Using' : held'[v] = t /\ r \in Needs[t]
        OBVIOUS
      <3>1. CASE r \in Needs[t0]
        <4>1. resources'[r] = NoTask /\ NoTask # t
          BY <2>2, <3>1
        <4>2. \A v \in Using' : ~(held'[v] = t /\ r \in Needs[t])
          BY <2>2, <2>3, <3>1
        <4> QED
          BY <4>1, <4>2
      <3>2. CASE r \notin Needs[t0]
        <4>1. resources'[r] = resources[r]
          BY <2>2, <3>2
        <4>2. resources[r] = t <=> \E v \in Using : held[v] = t /\ r \in Needs[t]
          BY DEF OneWorkerPerTask
        <4> QED
          BY <2>2, <3>2, <4>1, <4>2
      <3> QED
        BY <3>1, <3>2
    <2> QED
      BY <2>4, <2>5, <2>6 DEF OneWorkerPerTask
  <1>6. CASE ShutDown
    <2>1. Using = {} /\ UNCHANGED <<held, resources, status>>
      BY <1>6, EndMeansIdle DEF ShutDown
    <2>2. Using' = {}
      <3>1. \A w \in Workers : wpc'[w] = "stopped" \/ wpc'[w] = wpc[w]
        BY <1>6 DEF ShutDown
      <3> QED
        BY <2>1, <3>1 DEF Using
    <2> QED
      BY <2>1, <2>2, SameHands
  <1>7. CASE UNCHANGED vars
    BY <1>7, SameHands DEF vars, Using
  <1> QED
    BY <1>1, <1>2, <1>3, <1>4, <1>5, <1>6, <1>7 DEF Next, Worker, Ended

-----------------------------------------------------------------------------
(* Why a task is given up. *)

LEMMA BlockedStep == IInv /\ [Next]_vars => BlockedIsDoomed'
  <1> SUFFICES ASSUME IInv, [Next]_vars, NEW t \in Tasks, status'[t] = BLOCKED
               PROVE  t \in Doomed(Errored')
    BY DEF BlockedIsDoomed, Doomed
  <1>1. Errored \in SUBSET Tasks /\ Errored' \in SUBSET Tasks /\ Errored \subseteq Errored'
    BY StatusStep DEF Errored, Settled
  <1>2. Doomed(Errored) \subseteq Doomed(Errored')
    BY <1>1, DoomedGrows
  <1>3. CASE status[t] = BLOCKED
    BY <1>2, <1>3 DEF IInv, BlockedIsDoomed
  <1>4. CASE status[t] # BLOCKED
    <2> USE DEF IInv, TypeInv, TypeOK, HandsInv, scanVars
    <2>1. PICK w \in Workers : PassTask(w)
      <3>1. ASSUME NEW w \in Workers, LockTask(w) PROVE FALSE
        BY <1>4, <3>1 DEF LockTask, LockAs, IN_PROGRESS, BLOCKED
      <3>2. ASSUME NEW w \in Workers, SetTaskAsRun(w) PROVE FALSE
        BY <1>4, <3>2 DEF SetTaskAsRun, SetTaskWith, COMPLETED, ERRORED, BLOCKED
      <3>3. ASSUME NEW w \in Workers,
                   BeginScan(w) \/ PickTask(w) \/ EndScan(w) \/ StartTask(w) \/ ExecuteTask(w)
                      \/ WorkerDies(w)
            PROVE  FALSE
        BY <1>4, <3>3 DEF BeginScan, PickTask, EndScan, StartTask, ExecuteTask, WorkerDies
      <3>4. ~(ShutDown \/ UNCHANGED vars)
        BY <1>4 DEF ShutDown, vars
      <3> QED
        BY <3>1, <3>2, <3>3, <3>4 DEF Next, Worker, Ended
    <2>2. t = Scanned(w) /\ PermanentlyBlocked(t)
      <3>1. Scanned(w) \in Tasks
        BY <2>1, ElementOfSeq DEF PassTask, PassWith, Scanned
      <3> QED
        BY <1>4, <2>1, <3>1 DEF PassTask, PassWith
    <2>3. PICK d \in DepsOf(t) : status[d] \in {ERRORED, BLOCKED}
      BY <2>2 DEF PermanentlyBlocked, FirstUnmetIs, Unmet, DepsOf
    <2>4. d \in Doomed(Errored)
      <3>1. d \in Tasks
        BY DEF DepsOf
      <3> QED
        BY <1>1, <2>3, <3>1, DoomedFacts DEF BlockedIsDoomed, Errored
    <2>5. t \in Doomed(Errored)
      BY <1>1, <2>3, <2>4, DoomedFacts DEF ClosedUnderDependents
    <2> QED
      BY <1>2, <2>5
  <1> QED
    BY <1>3, <1>4

-----------------------------------------------------------------------------
(* The theorems. *)

LEMMA InvStep == IInv /\ [Next]_vars => IInv'
  BY TypeStep, LockStep, PickStep, ListStep, ScanStep, EndStep, OneWorkerStep, BlockedStep
     DEF IInv

\* The polling workers keep the invariant the proofs are about.
THEOREM Inductive == Spec => []IInv
  BY InvInit, InvStep, PTL DEF Spec

\* No two workers ever have the same task or the same resource, and the dictionary of the
\* resources and the statuses say so, however the critical sections of the workers interleave
\* (get_next_task_to_run, lock_next_task_to_run and set_task_as_run).
THEOREM OneWorkerPerTaskAlways == Spec => []OneWorkerPerTask
  <1>1. IInv => OneWorkerPerTask
    BY DEF IInv
  <1> QED
    BY Inductive, <1>1, PTL

\* has_dependencies_remaining gives a task up only for a failure among all that it needs,
\* although it looks at the first unmet dependency alone and statuses change between scans.
THEOREM BlockedIsDoomedAlways == Spec => []BlockedIsDoomed
  <1>1. IInv => BlockedIsDoomed
    BY DEF IInv
  <1> QED
    BY Inductive, <1>1, PTL

\* In the processes mode, whose list has every task, the run is announced as complete only
\* when nothing is in progress and every task completed, failed or is doomed, although it is
\* one worker that announces it for all, after a scan in which others reported.
THEOREM CompleteMeansSettledAlways ==
  ASSUME Mode = "processes"
  PROVE  Spec => []CompleteMeansSettled
  <1>1. IInv => CompleteMeansSettled
    <2> SUFFICES ASSUME IInv, complete PROVE Using = {} /\ Tasks = Completed \cup Doomed(Errored)
      BY DEF CompleteMeansSettled
    <2>1. Using = {}
      BY EndMeansIdle
    <2>2. Errored \subseteq Doomed(Errored) /\ Doomed(Errored) \subseteq Tasks
      BY DoomedFacts DEF Errored
    <2>3. ASSUME NEW t \in Tasks PROVE t \in Completed \cup Doomed(Errored)
      <3>1. \E i \in DOMAIN tasksToRun : tasksToRun[i] = t
        BY DEF IInv, CoverInv, TasksToRun
      <3>2. Settled(t)
        BY <3>1 DEF IInv, EndInv
      <3> QED
        BY <2>2, <3>2 DEF Settled, Completed, Errored, IInv, BlockedIsDoomed
    <2> QED
      BY <2>1, <2>2, <2>3 DEF Completed
  <1> QED
    BY Inductive, <1>1, PTL

-----------------------------------------------------------------------------
(* The contract of a run. *)

LEMMA ContractInit == Init => Contract!Init
  <1> SUFFICES ASSUME Init PROVE Contract!Init
    OBVIOUS
  <1>1. \A t \in Tasks : Phase(t) = "pending"
    BY DEF Init, Phase, NOT_SET, IN_PROGRESS, COMPLETED, ERRORED
  <1> QED
    BY <1>1 DEF Init, Contract!Init

\* Locking a task is its start.
LEMMA LockStarts ==
  ASSUME IInv, NEW w \in Workers, LockTask(w)
  PROVE  Contract!Start(held[w])
  <1>1. /\ held[w] \in Tasks /\ status[held[w]] = NOT_SET
        /\ DepsOf(held[w]) \subseteq Completed
        /\ ResourcesFree(held[w])
        /\ ~complete /\ complete' = complete
        /\ status' = [status EXCEPT ![held[w]] = IN_PROGRESS]
    <2>1. PICK i \in DOMAIN tasksToRun : tasksToRun[i] = held[w] /\ status[held[w]] = NOT_SET
      BY DEF LockTask, LockAs, IInv, PickInv
    <2>2. ~complete
      BY <2>1 DEF IInv, EndInv, Settled, NOT_SET, COMPLETED, ERRORED, BLOCKED
    <2> QED
      BY <2>2 DEF LockTask, LockAs, IInv, TypeInv, HandsInv, PickInv
  <1>0. held' = held
    BY DEF LockTask, LockAs
  <1>2. Phase(held[w]) = "pending" /\ Phase(held[w])' = "running"
    BY <1>0, <1>1 DEF Phase, IInv, TypeInv, TypeOK, NOT_SET, IN_PROGRESS, COMPLETED, ERRORED
  <1>3. \A t \in Tasks : t # held[w] => Phase(t)' = Phase(t)
    BY <1>1 DEF Phase, IInv, TypeInv, TypeOK
  <1>4. \A d \in Contract!DepsOf(held[w]) : [t \in Tasks |-> Phase(t)][d] = Contract!COMPLETED
    BY <1>1 DEF Contract!DepsOf, Contract!COMPLETED, DepsOf, Completed, Phase, COMPLETED, IN_PROGRESS
  <1>5. \A u \in Contract!Running : Needs[held[w]] \cap Needs[u] = {}
    <2> SUFFICES ASSUME NEW u \in Tasks, Phase(u) = "running",
                        NEW r \in Needs[held[w]], r \in Needs[u]
                 PROVE  FALSE
      BY <1>1 DEF Contract!Running
    <2>1. PICK v \in Using : held[v] = u
      BY DEF Phase, IInv, OneWorkerPerTask, COMPLETED, ERRORED
    <2>2. r \in Resources /\ resources[r] = u
      BY <2>1, <1>1 DEF IInv, OneWorkerPerTask
    <2> QED
      BY <1>1, <2>2 DEF ResourcesFree
  <1>6. [t \in Tasks |-> Phase(t)]' = [[t \in Tasks |-> Phase(t)] EXCEPT ![held[w]] = "running"]
    <2>1. \A t \in Tasks : Phase(t)' = IF t = held[w] THEN "running" ELSE Phase(t)
      BY <1>0, <1>2, <1>3
    <2> QED
      BY <1>1, <2>1
  <1>7. [t \in Tasks |-> Phase(t)][held[w]] = "pending"
    BY <1>1, <1>2
  <1> QED
    BY <1>1, <1>4, <1>5, <1>6, <1>7, Zenon DEF Contract!Start

\* Reporting it is its end.
LEMMA ReportFinishes ==
  ASSUME IInv, NEW w \in Workers, SetTaskAsRun(w)
  PROVE  Contract!Finish(held[w], result[w])
  <1>1. /\ held[w] \in Tasks /\ status[held[w]] = IN_PROGRESS
        /\ result[w] \in {COMPLETED, ERRORED}
        /\ status' = [status EXCEPT ![held[w]] = result[w]]
        /\ complete' = complete
    BY DEF SetTaskAsRun, SetTaskWith, IInv, TypeInv, HandsInv, OneWorkerPerTask, Using
  <1>2. Phase(held[w]) = "running"
    BY <1>1 DEF Phase, IN_PROGRESS, COMPLETED, ERRORED
  <1>3. \A t \in Tasks : Phase(t)' = IF t = held[w] THEN result[w] ELSE Phase(t)
    BY <1>1 DEF Phase, IInv, TypeInv, TypeOK, IN_PROGRESS, COMPLETED, ERRORED
  <1>4. [t \in Tasks |-> Phase(t)]' = [[t \in Tasks |-> Phase(t)] EXCEPT ![held[w]] = result[w]]
    BY <1>1, <1>3
  <1>5. [t \in Tasks |-> Phase(t)][held[w]] = "running"
    BY <1>1, <1>2
  <1> QED
    BY <1>1, <1>4, <1>5, Zenon DEF Contract!Finish

\* The worker that finds all that is left blocked announces the end of the contract.
LEMMA StuckAnnounces ==
  ASSUME IInv, IInv', Mode = "processes", NEW w \in Workers, EndScan(w), stuck[w]
  PROVE  Contract!Announce
  <1>1. complete' /\ UNCHANGED <<tasksToRun, status, held>>
    BY DEF EndScan
  <1>2. \A t \in Tasks : Settled(t)
    <2> SUFFICES ASSUME NEW t \in Tasks PROVE Settled(t)
      OBVIOUS
    <2>1. PICK i \in DOMAIN tasksToRun : tasksToRun[i] = t
      BY DEF IInv, CoverInv, TasksToRun
    <2>2. Settled(tasksToRun[i])'
      BY <1>1 DEF IInv, EndInv
    <2> QED
      BY <1>1, <2>1, <2>2 DEF Settled
  <1>3. Contract!Running = {}
    BY <1>2 DEF Contract!Running, Phase, Settled, IN_PROGRESS, COMPLETED, ERRORED, BLOCKED
  <1>4. ASSUME NEW t \in Tasks, Phase(t) = "pending"
        PROVE  t \in Contract!Doomed(Contract!Failed)
    <2>1. status[t] = BLOCKED
      BY <1>2, <1>4 DEF Phase, Settled, COMPLETED, ERRORED, IN_PROGRESS
    <2>2. Errored = Contract!Failed
      BY <1>2 DEF Contract!Failed, Contract!ERRORED, Errored, Phase, Settled, ERRORED, COMPLETED,
                  IN_PROGRESS, BLOCKED
    <2>3. Contract!Doomed(Contract!Failed) = Doomed(Contract!Failed)
      BY DEF Contract!Doomed, Contract!ClosedUnderDependents, Contract!DepsOf,
             Doomed, ClosedUnderDependents, DepsOf
    <2> QED
      BY <2>1, <2>2, <2>3 DEF IInv, BlockedIsDoomed
  <1>5. [t \in Tasks |-> Phase(t)]' = [t \in Tasks |-> Phase(t)]
    BY <1>1 DEF Phase
  <1> QED
    BY <1>1, <1>3, <1>4, <1>5 DEF Contract!Announce

\* What the contract does not see.
LEMMA HiddenSteps ==
  ASSUME IInv, [Next]_vars,
         \/ \E w \in Workers :
               \/ BeginScan(w) \/ PassTask(w) \/ PickTask(w) \/ StartTask(w) \/ ExecuteTask(w)
               \/ WorkerDies(w) \/ (EndScan(w) /\ ~stuck[w])
         \/ ShutDown \/ UNCHANGED vars
  PROVE  UNCHANGED Contract!contractVars
  <1> USE DEF IInv, TypeInv, TypeOK, scanVars
  <1>1. complete' = complete
    BY DEF BeginScan, PassTask, PassWith, PickTask, StartTask, ExecuteTask, WorkerDies,
           EndScan, ShutDown, vars
  <1>2. \A t \in Tasks : Phase(t)' = Phase(t)
    <2>1. ASSUME NEW w \in Workers, PassTask(w)
          PROVE  \A t \in Tasks : Phase(t)' = Phase(t)
      <3>1. Scanned(w) \in Tasks
        BY <2>1, ElementOfSeq DEF PassTask, PassWith, Scanned
      <3>2. \A t \in Tasks : \/ status'[t] = status[t]
                             \/ status[t] = NOT_SET /\ status'[t] = BLOCKED
        BY <2>1, <3>1 DEF PassTask, PassWith
      <3> QED
        BY <3>2 DEF Phase, NOT_SET, IN_PROGRESS, COMPLETED, ERRORED, BLOCKED
    <2>2. ASSUME \/ \E w \in Workers :
                       \/ BeginScan(w) \/ PickTask(w) \/ StartTask(w) \/ ExecuteTask(w)
                       \/ WorkerDies(w) \/ EndScan(w)
                 \/ ShutDown \/ UNCHANGED vars
          PROVE  \A t \in Tasks : Phase(t)' = Phase(t)
      <3>1. status' = status
        BY <2>2 DEF BeginScan, PickTask, StartTask, ExecuteTask, WorkerDies, EndScan, ShutDown, vars
      <3> QED
        BY <3>1 DEF Phase
    <2> QED
      BY <2>1, <2>2
  <1>3. [t \in Tasks |-> Phase(t)]' = [t \in Tasks |-> Phase(t)]
    BY <1>2
  <1> QED
    BY <1>1, <1>3 DEF Contract!contractVars

\* Every step of the processes mode without a scheduler is a step of the contract, or one
\* that the contract does not see.
THEOREM RunKeepsContract ==
  ASSUME Mode = "processes"
  PROVE  Spec => KeepsContract
  <1>1. ASSUME IInv, IInv', [Next]_vars
        PROVE  [Contract!Next]_(Contract!contractVars)
    <2>1. ASSUME NEW w \in Workers, LockTask(w) PROVE Contract!Next
      <3>1. held[w] \in Tasks
        BY <1>1, <2>1 DEF LockTask, LockAs, IInv, TypeInv, HandsInv
      <3> QED
        BY <1>1, <2>1, <3>1, LockStarts DEF Contract!Next
    <2>2. ASSUME NEW w \in Workers, SetTaskAsRun(w) PROVE Contract!Next
      <3>1. held[w] \in Tasks /\ result[w] \in {Contract!COMPLETED, Contract!ERRORED}
        BY <1>1, <2>2 DEF SetTaskAsRun, SetTaskWith, IInv, TypeInv, HandsInv,
                          Contract!COMPLETED, Contract!ERRORED, COMPLETED, ERRORED
      <3> QED
        BY <1>1, <2>2, <3>1, ReportFinishes DEF Contract!Next
    <2>3. ASSUME NEW w \in Workers, EndScan(w), stuck[w] PROVE Contract!Next
      BY <1>1, <2>3, StuckAnnounces DEF Contract!Next
    <2>4. ASSUME \/ \E w \in Workers :
                       \/ BeginScan(w) \/ PassTask(w) \/ PickTask(w) \/ StartTask(w) \/ ExecuteTask(w)
                       \/ WorkerDies(w) \/ (EndScan(w) /\ ~stuck[w])
                 \/ ShutDown \/ UNCHANGED vars
          PROVE  UNCHANGED Contract!contractVars
      BY <1>1, <2>4, HiddenSteps
    <2> QED
      BY <1>1, <2>1, <2>2, <2>3, <2>4 DEF Next, Worker, Ended
  <1> QED
    BY <1>1, ContractInit, Inductive, PTL DEF Spec, KeepsContract, Contract!Spec
=============================================================================
