------------------------- MODULE SchedulerRunProofs -------------------------
(***************************************************************************)
(* Proofs about SchedulerRun, for any task reference, any number of        *)
(* workers, both modes and any set of fragile tasks.                       *)
(***************************************************************************)
EXTENDS SchedulerRun, FiniteSetTheorems, TLAPS

USE TasksAssumption, NeedsAssumption, WorkersAssumption, ModeAssumption

-----------------------------------------------------------------------------
(* What waits for a task that failed. *)

\* Doomed(E) is the least set that holds E and is closed under dependents.
LEMMA DoomedFacts ==
  ASSUME NEW E \in SUBSET Tasks
  PROVE  /\ E \subseteq Doomed(E) /\ Doomed(E) \subseteq Tasks
         /\ ClosedUnderDependents(Doomed(E))
         /\ \A C \in SUBSET Tasks :
               E \subseteq C /\ ClosedUnderDependents(C) => Doomed(E) \subseteq C
  <1>1. E \subseteq Doomed(E) /\ Doomed(E) \subseteq Tasks
    BY DEF Doomed
  <1>2. \A C \in SUBSET Tasks : E \subseteq C /\ ClosedUnderDependents(C) => Doomed(E) \subseteq C
    BY DEF Doomed
  <1>3. ClosedUnderDependents(Doomed(E))
    <2> SUFFICES ASSUME NEW t \in Tasks, NEW d \in DepsOf(t), d \in Doomed(E),
                        NEW C \in SUBSET Tasks, E \subseteq C, ClosedUnderDependents(C)
                 PROVE  t \in C
      BY DEF ClosedUnderDependents, Doomed
    <2>1. d \in C
      BY <1>2
    <2> QED
      BY <2>1 DEF ClosedUnderDependents
  <1> QED
    BY <1>1, <1>2, <1>3

-----------------------------------------------------------------------------
(* Types. *)

\* A worker past its get has a task, and one past its execute has an outcome.
HandsInv ==
    \A w \in Workers :
        /\ wpc[w] \notin {"idle", "stopped"} => held[w] \in Tasks
        /\ wpc[w] = "idle" => held[w] = NoTask
        /\ wpc[w] \in {"reporting", "unlocking", "releasing"} => result[w] \in {COMPLETED, ERRORED}

TypeInv == TypeOK /\ HandsInv

\* The last generation consists of tasks.
LEMMA RemainingType == LastGeneration(Remaining) \in SUBSET Tasks
  BY DEF LastGeneration, Remaining

LEMMA TypeInit == Init => TypeInv
  <1> SUFFICES ASSUME Init PROVE TypeInv
    OBVIOUS
  <1>1. resources \in Owners /\ inUse \in [Workers -> Owners]
    BY DEF Init, Owners
  <1>2. taskQueue \in Seq(Tasks)
    BY DEF Init
  <1>3. \A w \in Workers : wpc[w] = "idle" /\ held[w] = NoTask
    BY DEF Init
  <1>4. /\ status \in [Tasks -> {NOT_SET, COMPLETED, ERRORED}]
        /\ wpc \in [Workers -> WorkerStates]
        /\ held \in [Workers -> Tasks \cup {NoTask}]
        /\ result \in [Workers -> {NOT_SET, COMPLETED, ERRORED}]
    BY DEF Init, WorkerStates
  <1>5. inFlight \in Int /\ processed \in Nat /\ inGeneration \in Nat
    BY DEF Init
  <1>6. complete \in BOOLEAN
    BY DEF Init
  <1>7. /\ resultsQueue \subseteq Tasks \X {COMPLETED, ERRORED}
        /\ lock \in Workers \cup {NoWorker}
    BY DEF Init
  <1>8. TypeOK
    BY <1>1, <1>2, <1>4, <1>5, <1>6, <1>7 DEF Init, TypeOK, SchedStates
  <1> QED
    BY <1>3, <1>8 DEF TypeInv, HandsInv

LEMMA TypeStep == TypeInv /\ [Next]_vars => TypeInv'
  <1> SUFFICES ASSUME TypeInv, [Next]_vars PROVE TypeInv'
    OBVIOUS
  <1> USE DEF TypeInv, TypeOK, HandsInv, Owners, SchedStates, WorkerStates
  <1>1. CASE BuildGeneration
    <2>1. generation' \in SUBSET Tasks
      BY <1>1, RemainingType DEF BuildGeneration, BuildFrom
    <2>2. inGeneration' \in Nat
      BY <1>1, <2>1, FS_Subset, FS_CardinalityType DEF BuildGeneration, BuildFrom
    <2> QED
      BY <1>1, <2>1, <2>2 DEF BuildGeneration, BuildFrom, workerVars
  <1>2. CASE AnnounceComplete
    BY <1>2 DEF AnnounceComplete, workerVars
  <1>3. CASE SendTask
    BY <1>3 DEF SendTask, Send, workerVars
  <1>4. CASE ReceiveResult
    BY <1>4 DEF ReceiveResult, Receive, workerVars
  <1>5. ASSUME NEW w \in Workers, TakeTask(w) PROVE TypeInv'
    BY <1>5 DEF TakeTask, schedVars
  <1>6. ASSUME NEW w \in Workers, StopWorker(w) PROVE TypeInv'
    BY <1>6 DEF StopWorker, StopIn, schedVars
  <1>7. ASSUME NEW w \in Workers, CheckResources(w) PROVE TypeInv'
    BY <1>7 DEF CheckResources, EnterLock, schedVars
  <1>8. ASSUME NEW w \in Workers, LockResources(w) PROVE TypeInv'
    BY <1>8 DEF LockResources, LockFor, schedVars
  <1>9. ASSUME NEW w \in Workers, StartTask(w) PROVE TypeInv'
    BY <1>9 DEF StartTask, schedVars
  <1>10. ASSUME NEW w \in Workers, ExecuteTask(w) PROVE TypeInv'
    BY <1>10 DEF ExecuteTask, schedVars
  <1>11. ASSUME NEW w \in Workers, WorkerDies(w) PROVE TypeInv'
    BY <1>11 DEF WorkerDies, schedVars
  <1>12. ASSUME NEW w \in Workers, ReadLocked(w) PROVE TypeInv'
    BY <1>12 DEF ReadLocked, EnterLock, schedVars
  <1>13. ASSUME NEW w \in Workers, UnlockResources(w) PROVE TypeInv'
    BY <1>13 DEF UnlockResources, UnlockAs, schedVars
  <1>14. ASSUME NEW w \in Workers, ReleaseLock(w) PROVE TypeInv'
    BY <1>14 DEF ReleaseLock, schedVars
  <1>15. CASE ShutDown
    BY <1>15 DEF ShutDown, schedVars
  <1>16. CASE UNCHANGED vars
    BY <1>16 DEF vars, schedVars, workerVars
  <1> QED
    BY <1>1, <1>2, <1>3, <1>4, <1>5, <1>6, <1>7, <1>8, <1>9, <1>10, <1>11, <1>12, <1>13,
       <1>14, <1>15, <1>16 DEF Next, Scheduler, Worker, Ended

\* Every variable keeps its type, whatever the interleaving.
THEOREM TypeCorrect == Spec => []TypeOK
  <1>1. TypeInv => TypeOK
    BY DEF TypeInv
  <1> QED
    BY TypeInit, TypeStep, <1>1, PTL DEF Spec

-----------------------------------------------------------------------------
(* Resources: the lock makes the check and the write of a worker one step for   *)
(* the others, so the file always says at least what the workers use.          *)

\* Whoever is inside the lock holds it, and there is nobody else inside.
LockInv ==
    \A w \in Workers : wpc[w] \in {"locking", "unlocking", "releasing"} => lock = w

\* The copy of the file that a worker is about to write back is the file ...
CopyInv ==
    \A w \in Workers : wpc[w] \in {"locking", "unlocking"} => inUse[w] = resources

\* ... and the resources it is about to lock are still free.
FreeInv ==
    \A w \in Workers : wpc[w] = "locking" => ResourcesFree(held[w], resources)

\* The resources of a task in execution are in the file under its own name.
MarkInv ==
    \A w \in Using : \A r \in Needs[held[w]] : resources[r] = held[w]

ResourceInv == LockInv /\ CopyInv /\ FreeInv /\ MarkInv /\ ResourceExclusion

LEMMA ResourceInit == Init => ResourceInv
  BY DEF Init, ResourceInv, LockInv, CopyInv, FreeInv, MarkInv, ResourceExclusion, Using

LEMMA ResourceStep == TypeInv /\ ResourceInv /\ [Next]_vars => ResourceInv'
  <1> SUFFICES ASSUME TypeInv, ResourceInv, [Next]_vars PROVE ResourceInv'
    OBVIOUS
  <1> USE DEF ResourceInv, TypeInv, TypeOK, HandsInv, Owners, Using, ResourcesFree
  <1>1. ASSUME UNCHANGED <<lock, resources, wpc, held, inUse>> PROVE ResourceInv'
    BY <1>1 DEF LockInv, CopyInv, FreeInv, MarkInv, ResourceExclusion
  <1>2. CASE BuildGeneration \/ AnnounceComplete \/ SendTask \/ ReceiveResult
    BY <1>1, <1>2 DEF BuildGeneration, BuildFrom, AnnounceComplete, SendTask, Send, ReceiveResult, Receive,
                      workerVars
  <1>3. ASSUME NEW w \in Workers, TakeTask(w) PROVE ResourceInv'
    BY <1>3 DEF TakeTask, LockInv, CopyInv, FreeInv, MarkInv, ResourceExclusion
  <1>4. ASSUME NEW w \in Workers, StopWorker(w) PROVE ResourceInv'
    BY <1>4 DEF StopWorker, StopIn, LockInv, CopyInv, FreeInv, MarkInv, ResourceExclusion
  <1>5. ASSUME NEW w \in Workers, CheckResources(w) PROVE ResourceInv'
    BY <1>5 DEF CheckResources, EnterLock, LockInv, CopyInv, FreeInv, MarkInv, ResourceExclusion
  <1>6. ASSUME NEW w \in Workers, LockResources(w) PROVE ResourceInv'
    <2> USE DEF LockResources, LockFor
    <2>1. /\ lock = w /\ inUse[w] = resources /\ held[w] \in Tasks
          /\ \A r \in Needs[held[w]] : resources[r] = NoTask
          /\ \A v \in Workers \ {w} : wpc[v] \notin {"locking", "unlocking", "releasing"}
      BY <1>6 DEF LockInv, CopyInv, FreeInv
    <2>2. /\ wpc' = [wpc EXCEPT ![w] = "starting"]
          /\ held' = held
          /\ \A r \in Resources :
                resources'[r] = IF r \in Needs[held[w]] THEN held[w] ELSE resources[r]
      BY <1>6, <2>1
    <2>3. Using' = Using \cup {w} /\ w \notin Using
      BY <1>6, <2>2
    <2>4. \A v \in Using : Needs[held[v]] \cap Needs[held[w]] = {}
      BY <2>1 DEF MarkInv
    <2>5. LockInv' /\ CopyInv' /\ FreeInv'
      BY <2>1, <2>2 DEF LockInv, CopyInv, FreeInv
    <2>6. MarkInv'
      <3> SUFFICES ASSUME NEW v \in Using', NEW r \in Needs[held[v]]
                   PROVE  resources'[r] = held[v]
        BY <2>2 DEF MarkInv
      <3>1. CASE v = w
        BY <2>1, <2>2, <3>1
      <3>2. CASE v \in Using
        <4>1. r \in Resources /\ r \notin Needs[held[w]] /\ resources[r] = held[v]
          BY <2>4, <3>2 DEF MarkInv
        <4> QED
          BY <2>2, <4>1
      <3> QED
        BY <2>3, <3>1, <3>2
    <2>7. ResourceExclusion'
      BY <2>2, <2>3, <2>4 DEF ResourceExclusion
    <2> QED
      BY <2>5, <2>6, <2>7
  <1>7. ASSUME NEW w \in Workers, StartTask(w) \/ ExecuteTask(w) \/ WorkerDies(w)
        PROVE  ResourceInv'
    <2>1. /\ Using' = Using
          /\ UNCHANGED <<lock, resources, held, inUse>>
          /\ \A v \in Workers : wpc'[v] \in {"locking", "unlocking", "releasing"} => wpc'[v] = wpc[v]
      BY <1>7 DEF StartTask, ExecuteTask, WorkerDies
    <2> QED
      BY <2>1 DEF LockInv, CopyInv, FreeInv, MarkInv, ResourceExclusion
  <1>8. ASSUME NEW w \in Workers, ReadLocked(w) PROVE ResourceInv'
    <2>1. /\ Using' = Using
          /\ UNCHANGED <<resources, held>>
      BY <1>8 DEF ReadLocked, EnterLock
    <2>2. LockInv' /\ CopyInv' /\ FreeInv'
      BY <1>8 DEF ReadLocked, EnterLock, LockInv, CopyInv, FreeInv
    <2>3. MarkInv' /\ ResourceExclusion'
      BY <2>1 DEF MarkInv, ResourceExclusion
    <2> QED
      BY <2>2, <2>3
  <1>9. ASSUME NEW w \in Workers, UnlockResources(w) PROVE ResourceInv'
    <2> USE DEF UnlockResources, UnlockAs
    <2>1. /\ lock = w /\ inUse[w] = resources /\ held[w] \in Tasks /\ w \in Using
          /\ \A v \in Workers \ {w} : wpc[v] \notin {"locking", "unlocking", "releasing"}
      BY <1>9 DEF LockInv, CopyInv
    <2>2. /\ wpc' = [wpc EXCEPT ![w] = "releasing"]
          /\ held' = held
          /\ \A r \in Resources :
                resources'[r] = IF r \in Needs[held[w]] THEN NoTask ELSE resources[r]
      BY <1>9, <2>1
    <2>3. Using' = Using \ {w}
      BY <1>9, <2>2
    <2>4. \A v \in Using' : Needs[held[v]] \cap Needs[held[w]] = {}
      BY <2>1, <2>3 DEF ResourceExclusion
    <2>5. LockInv' /\ CopyInv' /\ FreeInv'
      BY <1>9, <2>1, <2>2 DEF LockInv, CopyInv, FreeInv
    <2>6. MarkInv'
      BY <2>2, <2>3, <2>4 DEF MarkInv
    <2>7. ResourceExclusion'
      BY <2>2, <2>3 DEF ResourceExclusion
    <2> QED
      BY <2>5, <2>6, <2>7
  <1>10. ASSUME NEW w \in Workers, ReleaseLock(w) PROVE ResourceInv'
    <2>1. /\ Using' = Using
          /\ \A v \in Using : held'[v] = held[v]
          /\ resources' = resources /\ inUse' = inUse
      BY <1>10 DEF ReleaseLock
    <2>2. LockInv' /\ CopyInv' /\ FreeInv'
      BY <1>10 DEF ReleaseLock, LockInv, CopyInv, FreeInv
    <2>3. MarkInv' /\ ResourceExclusion'
      BY <2>1 DEF MarkInv, ResourceExclusion
    <2> QED
      BY <2>2, <2>3
  <1>11. CASE ShutDown
    <2>1. CASE Mode = "processes"
      BY <1>11, <2>1 DEF ShutDown, LockInv, CopyInv, FreeInv, MarkInv, ResourceExclusion
    <2>2. CASE Mode = "threads"
      BY <1>1, <1>11, <2>2 DEF ShutDown
    <2> QED
      BY <2>1, <2>2
  <1>12. CASE UNCHANGED vars
    BY <1>1, <1>12 DEF vars, workerVars
  <1> QED
    BY <1>2, <1>3, <1>4, <1>5, <1>6, <1>7, <1>8, <1>9, <1>10, <1>11, <1>12
       DEF Next, Scheduler, Worker, Ended

-----------------------------------------------------------------------------
(* Sequences without repetition, at their two ends. *)

LEMMA AppendFacts ==
  ASSUME NEW q \in Seq(Tasks), IsInjective(q), NEW t \in Tasks, t \notin Range(q)
  PROVE  Range(Append(q, t)) = Range(q) \cup {t} /\ IsInjective(Append(q, t))
  <1> DEFINE p == Append(q, t)
  <1>1. /\ DOMAIN p = DOMAIN q \cup {Len(q) + 1} /\ Len(q) + 1 \notin DOMAIN q
        /\ p[Len(q) + 1] = t /\ \A i \in DOMAIN q : p[i] = q[i]
    OBVIOUS
  <1> HIDE DEF p
  <1>2. Range(p) = Range(q) \cup {t}
    BY <1>1 DEF Range
  <1>3. IsInjective(p)
    BY <1>1 DEF IsInjective, Range
  <1> QED
    BY <1>2, <1>3 DEF p

LEMMA TailFacts ==
  ASSUME NEW q \in Seq(Tasks), IsInjective(q), q # <<>>
  PROVE  /\ Head(q) \in Range(q)
         /\ Range(Tail(q)) = Range(q) \ {Head(q)}
         /\ IsInjective(Tail(q))
  <1> DEFINE p == Tail(q)
  <1>1. /\ DOMAIN q = 1 .. Len(q) /\ Len(q) \in Nat \ {0}
        /\ DOMAIN p = 1 .. (Len(q) - 1)
        /\ \A i \in DOMAIN p : i + 1 \in DOMAIN q /\ p[i] = q[i + 1]
        /\ Head(q) = q[1] /\ 1 \in DOMAIN q
    OBVIOUS
  <1> HIDE DEF p
  <1>2. \A i \in DOMAIN p : q[i + 1] # q[1]
    BY <1>1 DEF IsInjective
  <1>3. \A j \in DOMAIN q \ {1} : j - 1 \in DOMAIN p /\ p[j - 1] = q[j]
    BY <1>1
  <1>4. Range(p) \subseteq Range(q) \ {Head(q)}
    BY <1>1, <1>2 DEF Range
  <1>5. Range(q) \ {Head(q)} \subseteq Range(p)
    BY <1>1, <1>3 DEF Range
  <1>6. IsInjective(p)
    <2> SUFFICES ASSUME NEW i \in DOMAIN p, NEW j \in DOMAIN p, p[i] = p[j] PROVE i = j
      BY DEF IsInjective
    <2>1. i + 1 = j + 1
      BY <1>1 DEF IsInjective
    <2> QED
      BY <1>1, <2>1
  <1>7. Head(q) \in Range(q)
    BY <1>1 DEF Range
  <1> QED
    BY <1>4, <1>5, <1>6, <1>7 DEF p

-----------------------------------------------------------------------------
(* The graph. *)

\* The tasks of the last generation of what is left have only completed dependencies.
LEMMA LastRestsOnCompleted ==
  ASSUME TypeOK, NEW t \in LastGeneration(Remaining)
  PROVE  DepsOf(t) \subseteq Completed
  <1> DEFINE G == Remaining
  <1>1. G \in SUBSET Tasks /\ t \in G /\ Errored \in SUBSET Tasks /\ Completed \in SUBSET Tasks
    BY DEF LastGeneration, Remaining, Errored, Completed
  <1>2. IsGenerationOf(Generations[G], G)
    BY <1>1, GenerationsAssumption
  <1>3. \A u \in G : Generations[G][u] <= Generations[G][t]
    BY <1>1 DEF LastGeneration
  <1>4. ASSUME NEW d \in DepsOf(t), d \in G PROVE FALSE
    <2>1. t \in DependentsWithin(G, d)
      BY <1>1, <1>4 DEF DependentsWithin
    <2>2. Generations[G][t] < Generations[G][d]
      BY <1>2, <1>4, <2>1 DEF IsGenerationOf
    <2>3. Generations[G][d] <= Generations[G][t]
      BY <1>3, <1>4
    <2>4. Generations[G][d] \in Nat /\ Generations[G][t] \in Nat
      BY <1>1, <1>2, <1>4 DEF IsGenerationOf
    <2> QED
      BY <2>2, <2>3, <2>4
  <1>5. ASSUME NEW d \in DepsOf(t), d \in Doomed(Errored) PROVE FALSE
    <2>1. t \in Doomed(Errored)
      BY <1>1, <1>5, DoomedFacts DEF ClosedUnderDependents
    <2> QED
      BY <1>1, <2>1 DEF Remaining
  <1> QED
    BY <1>4, <1>5 DEF Remaining, DepsOf

-----------------------------------------------------------------------------
(* Accounting: the counters of scheduler_task know how many tasks are out, so   *)
(* that a generation is left exactly when its last answer is recorded.         *)

CountInv ==
    /\ inFlight = Cardinality(Sent)
    /\ inFlight <= Cardinality(Workers)
    /\ sched \in {"filling", "draining"} =>
          processed + inFlight + Cardinality(generation) = inGeneration
    /\ sched \in {"building", "returned"} => generation = {} /\ Sent = {}
    /\ complete => sched = "returned"

AccountInv == InOnePlace /\ CountInv

LEMMA SentFacts ==
  ASSUME TypeInv
  PROVE  /\ Queued \in SUBSET Tasks /\ InHands \in SUBSET Tasks /\ Answered \in SUBSET Tasks
         /\ Sent \in SUBSET Tasks /\ IsFiniteSet(Sent) /\ Cardinality(Sent) \in Nat
         /\ IsFiniteSet(generation) /\ Cardinality(generation) \in Nat
         /\ Cardinality(Workers) \in Nat
  <1> USE DEF TypeInv, TypeOK
  <1>1. Queued \in SUBSET Tasks
    BY DEF Queued, Range
  <1>2. InHands \in SUBSET Tasks
    BY DEF InHands, Owing
  <1>3. Answered \in SUBSET Tasks
    BY DEF Answered
  <1>4. Sent \in SUBSET Tasks
    BY <1>1, <1>2, <1>3 DEF Sent
  <1> QED
    BY <1>1, <1>2, <1>3, <1>4, FS_Subset, FS_CardinalityType

LEMMA AccountInit == Init => AccountInv
  <1> SUFFICES ASSUME Init PROVE AccountInv
    OBVIOUS
  <1>1. Queued = {} /\ Owing = {} /\ Answered = {} /\ generation = {}
    BY DEF Init, Queued, Owing, Answered, Range
  <1>2. Sent = {} /\ InHands = {}
    BY <1>1 DEF Sent, InHands
  <1>3. Cardinality({}) = 0 /\ Cardinality(Workers) \in Nat
    BY FS_EmptySet, FS_CardinalityType
  <1>4. InOnePlace
    BY <1>1, <1>2 DEF Init, InOnePlace, IsInjective
  <1>5. CountInv
    BY <1>1, <1>2, <1>3 DEF Init, CountInv
  <1> QED
    BY <1>4, <1>5 DEF AccountInv

LEMMA AccountStep == TypeInv /\ AccountInv /\ [Next]_vars => AccountInv'
  <1> SUFFICES ASSUME TypeInv, AccountInv, [Next]_vars PROVE AccountInv'
    OBVIOUS
  <1>T. TypeInv'
    BY TypeStep
  <1> USE DEF AccountInv
  <1>0. ASSUME Owing' = Owing, \A v \in Owing : held'[v] = held[v],
               UNCHANGED <<status, sched, generation, inFlight, processed, inGeneration,
                           taskQueue, resultsQueue, complete>>
        PROVE  AccountInv'
    <2>1. Queued' = Queued /\ InHands' = InHands /\ Answered' = Answered /\ Recorded' = Recorded
      BY <1>0 DEF Queued, InHands, Answered, Recorded, Completed, Errored
    <2>2. Sent' = Sent
      BY <2>1 DEF Sent
    <2> QED
      BY <1>0, <2>1, <2>2 DEF InOnePlace, CountInv
  <1>1. CASE BuildGeneration
    <2>1. sched = "building" /\ Sent = {} /\ generation = {} /\ ~complete
      BY <1>1 DEF BuildGeneration, BuildFrom, CountInv
    <2>2. /\ UNCHANGED <<taskQueue, resultsQueue, status, held, wpc, complete>>
          /\ inFlight' = 0 /\ processed' = 0 /\ sched' = "filling"
          /\ generation' = LastGeneration(Remaining) /\ inGeneration' = Cardinality(generation')
      BY <1>1 DEF BuildGeneration, BuildFrom, workerVars
    <2>3. /\ Queued' = Queued /\ InHands' = InHands /\ Answered' = Answered
          /\ Sent' = {} /\ Recorded' = Recorded
      BY <2>1, <2>2 DEF Queued, InHands, Owing, Answered, Sent, Recorded, Completed, Errored
    <2>4. Recorded \cap generation' = {}
      <3>1. Errored \subseteq Doomed(Errored)
        BY DoomedFacts DEF Errored
      <3> QED
        BY <2>2, <3>1 DEF LastGeneration, Remaining, Recorded
    <2>5. InOnePlace'
      BY <2>1, <2>2, <2>3, <2>4 DEF InOnePlace, Sent, Owing
    <2>6. Cardinality({}) = 0 /\ Cardinality(Workers) \in Nat /\ Cardinality(generation') \in Nat
      <3>1. generation' \in SUBSET Tasks
        BY <2>2, RemainingType
      <3> QED
        BY <3>1, SentFacts, FS_EmptySet, FS_Subset, FS_CardinalityType
    <2>7. CountInv'
      BY <2>1, <2>2, <2>3, <2>6 DEF CountInv
    <2> QED
      BY <2>5, <2>7
  <1>2. CASE AnnounceComplete
    <2>1. /\ Queued' = Queued /\ InHands' = InHands /\ Answered' = Answered
          /\ Sent' = Sent /\ Recorded' = Recorded /\ Owing' = Owing
      BY <1>2 DEF AnnounceComplete, workerVars, Queued, InHands, Owing, Answered, Sent, Recorded,
                  Completed, Errored
    <2> QED
      BY <1>2, <2>1 DEF AnnounceComplete, workerVars, InOnePlace, CountInv
  <1>3. ASSUME NEW t \in generation, Send(t, generation \ {t}) PROVE AccountInv'
    <2>1. /\ sched = "filling" /\ inFlight < Cardinality(Workers) /\ t \in Tasks
          /\ generation' = generation \ {t} /\ taskQueue' = Append(taskQueue, t)
          /\ inFlight' = inFlight + 1
          /\ UNCHANGED <<status, sched, processed, inGeneration, resultsQueue, wpc, held, complete>>
      BY <1>3 DEF Send, MustFill, workerVars, TypeInv, TypeOK
    <2>2. /\ Queued' = Queued \cup {t} /\ t \notin Sent
          /\ IsInjective(taskQueue')
      <3>1. t \notin Sent /\ taskQueue \in Seq(Tasks) /\ IsInjective(taskQueue)
        BY <1>3 DEF InOnePlace, TypeInv, TypeOK
      <3>2. t \notin Range(taskQueue)
        BY <3>1 DEF Sent, Queued
      <3> QED
        BY <2>1, <3>1, <3>2, AppendFacts DEF Queued
    <2>3. /\ InHands' = InHands /\ Answered' = Answered /\ Recorded' = Recorded /\ Owing' = Owing
          /\ Sent' = Sent \cup {t}
      BY <2>1, <2>2 DEF InHands, Owing, Answered, Sent, Recorded, Completed, Errored
    <2>4. InOnePlace'
      BY <1>3, <2>1, <2>2, <2>3 DEF InOnePlace, Sent
    <2>5. /\ Cardinality(Sent') = Cardinality(Sent) + 1
          /\ Cardinality(generation') = Cardinality(generation) - 1
          /\ Cardinality(Sent) \in Nat /\ Cardinality(generation) \in Nat
          /\ Cardinality(Workers) \in Nat
      BY <1>3, <2>1, <2>2, <2>3, SentFacts, FS_AddElement, FS_RemoveElement
    <2>6. CountInv'
      BY <2>1, <2>3, <2>5 DEF CountInv, TypeInv, TypeOK
    <2> QED
      BY <2>4, <2>6
  <1>4. CASE ReceiveResult
    <2>1. PICK answer \in resultsQueue :
              /\ status' = [status EXCEPT ![answer[1]] = answer[2]]
              /\ resultsQueue' = resultsQueue \ {answer}
      BY <1>4 DEF ReceiveResult, Receive
    <2> DEFINE t == answer[1]
    <2>2. /\ sched \in {"filling", "draining"} /\ t \in Tasks /\ answer[2] \in {COMPLETED, ERRORED}
          /\ inFlight' = inFlight - 1 /\ processed' = processed + 1
          /\ sched' = IF generation # {} THEN "filling"
                      ELSE IF processed + 1 < inGeneration THEN "draining" ELSE "building"
          /\ UNCHANGED <<generation, inGeneration, taskQueue, wpc, held, complete>>
          /\ ~complete
      BY <1>4 DEF ReceiveResult, Receive, workerVars, TypeInv, TypeOK, CountInv
    <2>3. /\ Queued' = Queued /\ InHands' = InHands /\ Owing' = Owing
          /\ Answered' = Answered \ {t} /\ t \in Answered /\ Recorded' = Recorded \cup {t}
      <3>1. Queued' = Queued /\ InHands' = InHands /\ Owing' = Owing
        BY <2>2 DEF Queued, InHands, Owing
      <3>2. t \in Answered /\ Answered' = Answered \ {t}
        BY <2>1 DEF Answered, InOnePlace
      <3>3. Recorded' = Recorded \cup {t}
        BY <2>1, <2>2 DEF Recorded, Completed, Errored, TypeInv, TypeOK
      <3> QED
        BY <3>1, <3>2, <3>3
    <2>4. t \in Sent /\ Sent' = Sent \ {t}
      BY <2>3 DEF Sent, InOnePlace
    <2>5. InOnePlace'
      BY <2>1, <2>2, <2>3, <2>4 DEF InOnePlace
    <2>6. /\ Cardinality(Sent') = Cardinality(Sent) - 1
          /\ Cardinality(Sent) \in Nat /\ Cardinality(Sent') \in Nat
          /\ Cardinality(generation) \in Nat /\ Cardinality(Workers) \in Nat
          /\ Cardinality({}) = 0
          /\ Cardinality(Sent') = 0 => Sent' = {}
      <3>1. IsFiniteSet(Sent) /\ IsFiniteSet(Sent')
        BY <2>4, SentFacts, FS_RemoveElement
      <3> QED
        <4>1. Cardinality(Sent') \in Nat
          BY <3>1, FS_CardinalityType
        <4>2. Cardinality(Sent') = Cardinality(Sent) - 1
          BY <2>4, <3>1, FS_RemoveElement
        <4>3. Cardinality({}) = 0 /\ (Cardinality(Sent') = 0 => Sent' = {})
          BY <3>1, FS_EmptySet
        <4> QED
          BY <4>1, <4>2, <4>3, SentFacts
    <2>7. CountInv'
      <3>1. /\ inFlight = Cardinality(Sent) /\ inFlight <= Cardinality(Workers)
            /\ processed + inFlight + Cardinality(generation) = inGeneration
            /\ processed \in Nat /\ inGeneration \in Nat
        BY <2>2 DEF CountInv, TypeInv, TypeOK
      <3>2. inFlight' = Cardinality(Sent') /\ inFlight' <= Cardinality(Workers)
        BY <2>2, <2>6, <3>1
      <3>3. processed' + inFlight' + Cardinality(generation') = inGeneration'
        BY <2>2, <2>6, <3>1
      <3>4. ASSUME sched' = "building" PROVE generation' = {} /\ Sent' = {}
        <4>1. generation = {} /\ ~(processed + 1 < inGeneration)
          BY <2>2, <3>4
        <4>2. Cardinality(generation) = 0
          BY <2>6, <4>1
        <4>3. Cardinality(Sent') = 0
          <5> DEFINE n == Cardinality(Sent)
          <5> HIDE DEF n
          <5>1. processed + n = inGeneration /\ n \in Nat
            BY <2>6, <3>1, <4>2 DEF n
          <5>2. Cardinality(Sent') = n - 1 /\ Cardinality(Sent') \in Nat
            BY <2>6 DEF n
          <5> QED
            BY <3>1, <4>1, <5>1, <5>2
        <4> QED
          BY <2>2, <2>6, <4>1, <4>3
      <3>5. sched' \in {"building", "filling", "draining"} /\ ~complete'
        BY <2>2
      <3> QED
        BY <3>2, <3>3, <3>4, <3>5 DEF CountInv
    <2> QED
      BY <2>5, <2>7
  <1>5. ASSUME NEW w \in Workers, TakeTask(w) PROVE AccountInv'
    <2>1. /\ taskQueue # <<>> /\ taskQueue' = Tail(taskQueue) /\ taskQueue \in Seq(Tasks)
          /\ held' = [held EXCEPT ![w] = Head(taskQueue)]
          /\ wpc' = [wpc EXCEPT ![w] = "waiting"]
          /\ UNCHANGED <<status, sched, generation, inFlight, processed, inGeneration,
                         resultsQueue, complete>>
          /\ held[w] = NoTask
      BY <1>5 DEF TakeTask, schedVars, TypeInv, TypeOK, HandsInv
    <2>2. /\ Queued' = Queued \ {Head(taskQueue)} /\ Head(taskQueue) \in Queued
          /\ IsInjective(taskQueue')
      <3>1. IsInjective(taskQueue)
        BY DEF InOnePlace
      <3> QED
        BY <2>1, <3>1, TailFacts DEF Queued
    <2>3. Head(taskQueue) \in Tasks
      BY <2>2, SentFacts
    <2>4. Owing' = Owing \cup {w} /\ w \notin Owing
      BY <2>1, <2>3 DEF Owing, TypeInv, TypeOK
    <2>5. \A v \in Owing : held'[v] = held[v]
      BY <2>1, <2>4 DEF TypeInv, TypeOK
    <2>6. held'[w] = Head(taskQueue)
      BY <2>1 DEF TypeInv, TypeOK
    <2>7. InHands' = InHands \cup {Head(taskQueue)}
      BY <2>4, <2>5, <2>6 DEF InHands
    <2>8. Answered' = Answered /\ Recorded' = Recorded
      BY <2>1 DEF Answered, Recorded, Completed, Errored
    <2>9. Sent' = Sent
      BY <2>2, <2>7, <2>8 DEF Sent
    <2>10. \A u, v \in Owing' : held'[u] = held'[v] => u = v
      <3>1. \A v \in Owing : held[v] # Head(taskQueue)
        BY <2>2 DEF InOnePlace, InHands
      <3> QED
        BY <2>4, <2>5, <2>6, <3>1 DEF InOnePlace
    <2>11. InOnePlace'
      BY <2>1, <2>2, <2>7, <2>8, <2>9, <2>10 DEF InOnePlace
    <2>12. CountInv'
      BY <2>1, <2>9 DEF CountInv
    <2> QED
      BY <2>11, <2>12
  <1>6. ASSUME NEW w \in Workers, StopWorker(w) PROVE AccountInv'
    BY <1>0, <1>6 DEF StopWorker, StopIn, schedVars, Owing, TypeInv, TypeOK, HandsInv
  <1>7. ASSUME NEW w \in Workers,
               \/ CheckResources(w) \/ LockResources(w) \/ StartTask(w) \/ ExecuteTask(w)
               \/ WorkerDies(w) \/ ReadLocked(w)
        PROVE  AccountInv'
    <2>1. /\ UNCHANGED <<status, sched, generation, inFlight, processed, inGeneration,
                         taskQueue, resultsQueue, complete, held>>
          /\ wpc[w] \notin {"releasing", "stopped"}
          /\ \E pc \in WorkerStates \ {"releasing", "stopped"} : wpc' = [wpc EXCEPT ![w] = pc]
      BY <1>7 DEF CheckResources, LockResources, LockFor, StartTask, ExecuteTask, WorkerDies, ReadLocked,
                  EnterLock, schedVars, WorkerStates
    <2>2. Owing' = Owing
      BY <2>1 DEF Owing, TypeInv, TypeOK
    <2> QED
      BY <1>0, <2>1, <2>2
  <1>8. ASSUME NEW w \in Workers, UnlockResources(w) PROVE AccountInv'
    <2>1. /\ wpc[w] = "unlocking" /\ wpc' = [wpc EXCEPT ![w] = "releasing"]
          /\ resultsQueue' = resultsQueue \cup {<<held[w], result[w]>>}
          /\ UNCHANGED <<status, sched, generation, inFlight, processed, inGeneration,
                         taskQueue, complete, held>>
          /\ held[w] \in Tasks
      BY <1>8 DEF UnlockResources, UnlockAs, schedVars, TypeInv, TypeOK, HandsInv
    <2>2. Owing' = Owing \ {w} /\ w \in Owing
      BY <2>1 DEF Owing, TypeInv, TypeOK
    <2>3. InHands' = InHands \ {held[w]} /\ held[w] \in InHands
      BY <2>1, <2>2 DEF InHands, InOnePlace
    <2>4. Answered' = Answered \cup {held[w]} /\ held[w] \notin Answered
      <3>1. held[w] \notin Answered
        BY <2>3 DEF InOnePlace
      <3>2. Answered' = Answered \cup {<<held[w], result[w]>>[1]}
        BY <2>1 DEF Answered
      <3> QED
        BY <3>1, <3>2
    <2>5. Queued' = Queued /\ Recorded' = Recorded
      BY <2>1 DEF Queued, Recorded, Completed, Errored
    <2>6. Sent' = Sent
      BY <2>3, <2>4, <2>5 DEF Sent
    <2>7. \A x, y \in resultsQueue' : x[1] = y[1] => x = y
      BY <2>1, <2>4 DEF Answered, InOnePlace
    <2>8. InOnePlace'
      BY <2>1, <2>2, <2>3, <2>4, <2>5, <2>6, <2>7 DEF InOnePlace
    <2>9. CountInv'
      BY <2>1, <2>6 DEF CountInv
    <2> QED
      BY <2>8, <2>9
  <1>9. ASSUME NEW w \in Workers, ReleaseLock(w) PROVE AccountInv'
    <2>1. /\ wpc[w] = "releasing" /\ held' = [held EXCEPT ![w] = NoTask]
          /\ UNCHANGED <<status, sched, generation, inFlight, processed, inGeneration,
                         taskQueue, resultsQueue, complete>>
          /\ \E pc \in WorkerStates : wpc' = [wpc EXCEPT ![w] = pc]
      BY <1>9 DEF ReleaseLock, schedVars, WorkerStates
    <2>2. w \notin Owing
      BY <2>1 DEF Owing
    <2>3. Owing' = Owing /\ \A v \in Owing : held'[v] = held[v]
      BY <2>1, <2>2 DEF Owing, TypeInv, TypeOK
    <2> QED
      BY <1>0, <2>1, <2>3
  <1>10. CASE ShutDown
    <2>1. Owing = {}
      BY <1>10 DEF ShutDown, CountInv, Sent, InHands
    <2>2. Owing' = {}
      BY <1>10, <2>1 DEF ShutDown, Owing
    <2> QED
      BY <1>0, <1>10, <2>1, <2>2 DEF ShutDown, schedVars
  <1>11. CASE UNCHANGED vars
    BY <1>0, <1>11 DEF vars, schedVars, workerVars, Owing
  <1> QED
    BY <1>1, <1>2, <1>3, <1>4, <1>5, <1>6, <1>7, <1>8, <1>9, <1>10, <1>11
       DEF Next, Scheduler, Worker, Ended, SendTask

-----------------------------------------------------------------------------
(* Results and dependencies. *)

LEMMA StatusStep ==
  ASSUME TypeInv, AccountInv, [Next]_vars
  PROVE  /\ \A t \in Tasks : status[t] # NOT_SET => status'[t] = status[t]
         /\ Completed \subseteq Completed' /\ Errored \subseteq Errored'
  <1>1. ASSUME status' = status
        PROVE  \A t \in Tasks : status[t] # NOT_SET => status'[t] = status[t]
    BY <1>1
  <1>2. CASE ReceiveResult
    <2>1. PICK answer \in resultsQueue : status' = [status EXCEPT ![answer[1]] = answer[2]]
      BY <1>2 DEF ReceiveResult, Receive
    <2>2. answer[1] \in Sent /\ answer[1] \in Tasks
      BY SentFacts DEF Sent, Answered
    <2>3. status[answer[1]] \in {NOT_SET, COMPLETED, ERRORED} /\ answer[1] \notin Recorded
      BY <2>2 DEF TypeInv, TypeOK, AccountInv, InOnePlace
    <2>4. status[answer[1]] = NOT_SET
      BY <2>2, <2>3 DEF Recorded, Completed, Errored
    <2>5. \A t \in Tasks : t # answer[1] => status'[t] = status[t]
      BY <2>1 DEF TypeInv, TypeOK
    <2>6. \A t \in Tasks : status[t] # NOT_SET => status'[t] = status[t]
      BY <2>4, <2>5
    <2> QED
      BY <2>6 DEF Completed, Errored, COMPLETED, ERRORED, NOT_SET
  <1>3. ASSUME ~ReceiveResult PROVE status' = status
    BY <1>3 DEF Next, Scheduler, Worker, Ended, vars, BuildGeneration, BuildFrom, AnnounceComplete, SendTask,
       Send, TakeTask, StopWorker, StopIn, CheckResources, LockResources, LockFor, StartTask, ExecuteTask,
       WorkerDies, ReadLocked, EnterLock, UnlockResources, UnlockAs, ReleaseLock, ShutDown
  <1>4. \A t \in Tasks : status[t] # NOT_SET => status'[t] = status[t]
    BY <1>1, <1>2, <1>3
  <1> QED
    BY <1>4 DEF Completed, Errored, COMPLETED, ERRORED, NOT_SET

\* A task is in the scheduler's hands, or beyond them, only once its dependencies are
\* done; and the end is announced only when nothing that can run is left.
DepsInv    == \A t \in generation \cup Sent \cup Recorded : DepsOf(t) \subseteq Completed
SettledInv == complete => Tasks = Completed \cup Doomed(Errored)

OrderInv == DepsInv /\ SettledInv

LEMMA OrderInit == Init => OrderInv
  <1> SUFFICES ASSUME Init PROVE OrderInv
    OBVIOUS
  <1>1. generation = {} /\ Sent = {} /\ Recorded = {}
    BY DEF Init, Sent, Queued, InHands, Owing, Answered, Range, Recorded, Completed, Errored,
           NOT_SET, COMPLETED, ERRORED
  <1> QED
    BY <1>1 DEF Init, OrderInv, DepsInv, SettledInv

LEMMA OrderStep ==
  TypeInv /\ AccountInv /\ OrderInv /\ [Next]_vars => OrderInv'
  <1> SUFFICES ASSUME TypeInv, AccountInv, OrderInv, [Next]_vars PROVE OrderInv'
    OBVIOUS
  <1>1. TypeInv' /\ AccountInv'
    BY TypeStep, AccountStep
  <1>2. Completed \subseteq Completed'
    BY StatusStep
  <1>3. CASE BuildGeneration
    <2>1. /\ generation' = LastGeneration(Remaining) /\ status' = status /\ complete' = complete
          /\ Sent = {} /\ ~complete
          /\ UNCHANGED <<taskQueue, resultsQueue, held, wpc>>
      BY <1>3 DEF BuildGeneration, BuildFrom, workerVars, AccountInv, CountInv
    <2>2. Sent' = {} /\ Recorded' = Recorded /\ Completed' = Completed
      BY <2>1 DEF Sent, Queued, InHands, Owing, Answered, Recorded, Completed, Errored
    <2>3. \A t \in generation' : DepsOf(t) \subseteq Completed'
      BY <2>1, <2>2, LastRestsOnCompleted DEF TypeInv
    <2> QED
      BY <2>1, <2>2, <2>3 DEF OrderInv, DepsInv, SettledInv
  <1>4. CASE AnnounceComplete
    <2>1. /\ Remaining = {} /\ complete' = TRUE
          /\ UNCHANGED <<status, generation, taskQueue, resultsQueue, held, wpc>>
      BY <1>4 DEF AnnounceComplete, workerVars
    <2>2. /\ Sent' = Sent /\ Recorded' = Recorded /\ Completed' = Completed
          /\ Errored' = Errored
      BY <2>1 DEF Sent, Queued, InHands, Owing, Answered, Recorded, Completed, Errored
    <2>3. Doomed(Errored') = Doomed(Errored) /\ Doomed(Errored) \subseteq Tasks
      BY <2>2 DEF Doomed
    <2>4. Tasks = Completed' \cup Doomed(Errored')
      BY <2>1, <2>2, <2>3 DEF Remaining, Completed
    <2>5. SettledInv'
      BY <2>4 DEF SettledInv
    <2> QED
      BY <2>1, <2>2, <2>5 DEF OrderInv, DepsInv
  <1>5. CASE ~BuildGeneration /\ ~AnnounceComplete
    <2>1. complete' = complete /\ (complete => status' = status)
      BY <1>5 DEF Next, Scheduler, Worker, Ended, vars, BuildGeneration, BuildFrom, AnnounceComplete,
         SendTask, Send, TakeTask, StopWorker, StopIn, CheckResources, LockResources, LockFor, StartTask,
         ExecuteTask, WorkerDies, ReadLocked, EnterLock, UnlockResources, UnlockAs, ReleaseLock,
         ShutDown, ReceiveResult, Receive, AccountInv, CountInv
    <2>2. SettledInv'
      <3> SUFFICES ASSUME complete' PROVE Tasks = Completed' \cup Doomed(Errored')
        BY DEF SettledInv
      <3>1. Completed' = Completed /\ Errored' = Errored
        BY <2>1 DEF Completed, Errored
      <3>2. Doomed(Errored') = Doomed(Errored)
        BY <3>1
      <3> QED
        BY <2>1, <3>1, <3>2 DEF OrderInv, SettledInv
    <2>3. (generation \cup Sent \cup Recorded)' \subseteq generation \cup Sent \cup Recorded
      <3>1. CASE SendTask
        <4>1. PICK t \in generation : /\ generation' = generation \ {t}
                                      /\ taskQueue' = Append(taskQueue, t)
                                      /\ UNCHANGED <<status, resultsQueue, held, wpc>>
          BY <3>1 DEF SendTask, Send, workerVars
        <4>2. /\ Queued' = Queued \cup {t}
              /\ InHands' = InHands /\ Answered' = Answered /\ Recorded' = Recorded
          BY <4>1, AppendFacts DEF TypeInv, TypeOK, AccountInv, InOnePlace, Queued, Sent,
             InHands, Owing, Answered, Recorded, Completed, Errored
        <4> QED
          BY <4>1, <4>2 DEF Sent
      <3>2. CASE ReceiveResult
        <4>1. PICK answer \in resultsQueue :
                  /\ status' = [status EXCEPT ![answer[1]] = answer[2]]
                  /\ resultsQueue' = resultsQueue \ {answer}
          BY <3>2 DEF ReceiveResult, Receive
        <4>2. UNCHANGED <<generation, taskQueue, wpc, held>>
          BY <3>2 DEF ReceiveResult, Receive, workerVars
        <4>3. answer[1] \in Answered /\ Answered' \subseteq Answered
          BY <4>1 DEF Answered
        <4>4. Recorded' \subseteq Recorded \cup {answer[1]}
          BY <4>1 DEF Recorded, Completed, Errored, TypeInv, TypeOK
        <4>5. Queued' = Queued /\ InHands' = InHands
          BY <4>2 DEF Queued, InHands, Owing
        <4> QED
          BY <4>2, <4>3, <4>4, <4>5 DEF Sent
      <3>3. ASSUME NEW w \in Workers, TakeTask(w)
            PROVE  (generation \cup Sent \cup Recorded)' \subseteq generation \cup Sent \cup Recorded
        <4>1. /\ taskQueue # <<>> /\ taskQueue' = Tail(taskQueue)
              /\ held' = [held EXCEPT ![w] = Head(taskQueue)]
              /\ wpc' = [wpc EXCEPT ![w] = "waiting"]
              /\ UNCHANGED <<status, generation, resultsQueue>>
          BY <3>3 DEF TakeTask, schedVars
        <4>2. Queued' \subseteq Queued /\ Head(taskQueue) \in Queued
          BY <4>1, TailFacts DEF TypeInv, TypeOK, AccountInv, InOnePlace, Queued
        <4>3. InHands' \subseteq InHands \cup {Head(taskQueue)}
          BY <4>1 DEF InHands, Owing, TypeInv, TypeOK
        <4>4. Answered' = Answered /\ Recorded' = Recorded
          BY <4>1 DEF Answered, Recorded, Completed, Errored
        <4> QED
          BY <4>1, <4>2, <4>3, <4>4 DEF Sent
      <3>4. ASSUME NEW w \in Workers, UnlockResources(w)
            PROVE  (generation \cup Sent \cup Recorded)' \subseteq generation \cup Sent \cup Recorded
        <4>1. /\ wpc[w] = "unlocking" /\ wpc' = [wpc EXCEPT ![w] = "releasing"]
              /\ resultsQueue' = resultsQueue \cup {<<held[w], result[w]>>}
              /\ UNCHANGED <<status, generation, taskQueue, held>>
              /\ held[w] \in Tasks
          BY <3>4 DEF UnlockResources, UnlockAs, schedVars, TypeInv, HandsInv
        <4>2. held[w] \in InHands /\ InHands' \subseteq InHands
          BY <4>1 DEF InHands, Owing, TypeInv, TypeOK
        <4>3. Answered' = Answered \cup {<<held[w], result[w]>>[1]}
          BY <4>1 DEF Answered
        <4>4. Queued' = Queued /\ Recorded' = Recorded
          BY <4>1 DEF Queued, Recorded, Completed, Errored
        <4> QED
          BY <4>1, <4>2, <4>3, <4>4 DEF Sent
      <3>5. ASSUME UNCHANGED <<status, generation, taskQueue, resultsQueue>>,
                   \A v \in Owing' : v \in Owing /\ held'[v] = held[v]
            PROVE  (generation \cup Sent \cup Recorded)' \subseteq generation \cup Sent \cup Recorded
        <4>1. InHands' \subseteq InHands
          BY <3>5 DEF InHands
        <4> QED
          BY <3>5, <4>1 DEF Sent, Queued, Answered, Recorded, Completed, Errored
      <3>6. ASSUME NEW w \in Workers,
                   \/ StopWorker(w) \/ CheckResources(w) \/ LockResources(w) \/ StartTask(w)
                   \/ ExecuteTask(w) \/ WorkerDies(w) \/ ReadLocked(w) \/ ReleaseLock(w)
            PROVE  (generation \cup Sent \cup Recorded)' \subseteq generation \cup Sent \cup Recorded
        <4>1. /\ UNCHANGED <<status, generation, taskQueue, resultsQueue>>
              /\ \A v \in Workers \ {w} : wpc'[v] = wpc[v] /\ held'[v] = held[v]
              /\ held'[w] \in {held[w], NoTask}
              /\ w \in Owing' => w \in Owing
          BY <3>6 DEF StopWorker, StopIn, CheckResources, LockResources, LockFor, StartTask, ExecuteTask,
             WorkerDies, ReadLocked, EnterLock, ReleaseLock, schedVars, TypeInv, TypeOK, HandsInv,
             Owing
        <4>2. \A v \in Owing' : v \in Owing /\ held'[v] = held[v]
          BY <4>1 DEF Owing
        <4> QED
          BY <3>5, <4>1, <4>2
      <3>7. CASE ShutDown
        <4>1. \A v \in Owing' : v \in Owing /\ held'[v] = held[v]
          BY <3>7 DEF ShutDown, Owing
        <4> QED
          BY <3>5, <3>7, <4>1 DEF ShutDown, schedVars
      <3>8. CASE UNCHANGED vars
        BY <3>5, <3>8 DEF vars, schedVars, workerVars, Owing
      <3> QED
        BY <1>5, <3>1, <3>2, <3>3, <3>4, <3>6, <3>7, <3>8 DEF Next, Scheduler, Worker, Ended
    <2> QED
      BY <1>2, <2>2, <2>3 DEF OrderInv, DepsInv
  <1> QED
    BY <1>3, <1>4, <1>5

-----------------------------------------------------------------------------
(* The file, from both sides: it lists what is used and nothing else. *)

LEMMA UsingOwes == TypeInv => Using \subseteq Owing
  BY DEF TypeInv, HandsInv, Using, Owing

LEMMA CompleteIsQuiet == TypeInv /\ AccountInv /\ complete => Sent = {} /\ Using = {}
  BY UsingOwes DEF AccountInv, CountInv, Sent, InHands

LEMMA FileInit == Init => FileMatchesUse
  BY DEF Init, FileMatchesUse, Using

LEMMA FileStep ==
  TypeInv /\ ResourceInv /\ AccountInv /\ FileMatchesUse /\ [Next]_vars => FileMatchesUse'
  <1> SUFFICES ASSUME TypeInv, ResourceInv, AccountInv, FileMatchesUse, [Next]_vars
               PROVE  FileMatchesUse'
    OBVIOUS
  <1> USE DEF ResourceInv, TypeInv, TypeOK, HandsInv, Owners
  <1>1. ASSUME resources' = resources, Using' = Using, \A v \in Using : held'[v] = held[v]
        PROVE  FileMatchesUse'
    BY <1>1 DEF FileMatchesUse
  <1>2. ASSUME NEW w \in Workers, LockResources(w) PROVE FileMatchesUse'
    <2>1. /\ wpc' = [wpc EXCEPT ![w] = "starting"] /\ held' = held /\ held[w] \in Tasks
          /\ wpc[w] = "locking"
          /\ \A r \in Resources :
                resources'[r] = IF r \in Needs[held[w]] THEN held[w] ELSE resources[r]
      BY <1>2 DEF LockResources, LockFor, CopyInv
    <2>2. Using' = Using \cup {w}
      BY <2>1 DEF Using
    <2>3. \A r \in Needs[held[w]] : resources[r] = NoTask
      BY <2>1 DEF FreeInv, ResourcesFree
    <2>4. ASSUME NEW r \in Resources, NEW t \in Tasks
          PROVE  resources'[r] = t <=> \E v \in Using' : held'[v] = t /\ r \in Needs[t]
      <3>1. CASE r \in Needs[held[w]]
        <4>1. \A v \in Using : r \notin Needs[held[v]]
          BY <2>3, <3>1 DEF MarkInv, Using
        <4> QED
          BY <2>1, <2>2, <3>1, <4>1
      <3>2. CASE r \notin Needs[held[w]]
        BY <2>1, <2>2, <3>2 DEF FileMatchesUse
      <3> QED
        BY <3>1, <3>2
    <2> QED
      BY <2>4 DEF FileMatchesUse
  <1>3. ASSUME NEW w \in Workers, UnlockResources(w) PROVE FileMatchesUse'
    <2>1. /\ wpc' = [wpc EXCEPT ![w] = "releasing"] /\ held' = held /\ held[w] \in Tasks
          /\ wpc[w] = "unlocking"
          /\ \A r \in Resources :
                resources'[r] = IF r \in Needs[held[w]] THEN NoTask ELSE resources[r]
      BY <1>3 DEF UnlockResources, UnlockAs, CopyInv
    <2>2. Using' = Using \ {w} /\ w \in Using
      BY <2>1 DEF Using
    <2>3. \A v \in Using' : Needs[held[v]] \cap Needs[held[w]] = {}
      BY <2>2 DEF ResourceExclusion
    <2>4. ASSUME NEW r \in Resources, NEW t \in Tasks
          PROVE  resources'[r] = t <=> \E v \in Using' : held'[v] = t /\ r \in Needs[t]
      <3>1. CASE r \in Needs[held[w]]
        BY <2>1, <2>3, <3>1
      <3>2. CASE r \notin Needs[held[w]]
        BY <2>1, <2>2, <3>2 DEF FileMatchesUse
      <3> QED
        BY <3>1, <3>2
    <2> QED
      BY <2>4 DEF FileMatchesUse
  <1>4. CASE ShutDown
    <2>1. Using = {}
      BY <1>4, CompleteIsQuiet DEF ShutDown
    <2>2. Using' = {}
      BY <1>4, <2>1 DEF ShutDown, Using
    <2> QED
      BY <1>1, <1>4, <2>1, <2>2 DEF ShutDown
  <1>5. CASE BuildGeneration \/ AnnounceComplete \/ SendTask \/ ReceiveResult \/ UNCHANGED vars
    BY <1>1, <1>5 DEF BuildGeneration, BuildFrom, AnnounceComplete, SendTask, Send, ReceiveResult, Receive,
                      workerVars, vars, Using
  <1>6. ASSUME NEW w \in Workers,
               \/ TakeTask(w) \/ StopWorker(w) \/ CheckResources(w) \/ StartTask(w)
               \/ ExecuteTask(w) \/ WorkerDies(w) \/ ReadLocked(w) \/ ReleaseLock(w)
        PROVE  FileMatchesUse'
    <2>1. resources' = resources
      BY <1>6 DEF TakeTask, StopWorker, StopIn, CheckResources, StartTask, ExecuteTask,
                  WorkerDies, ReadLocked, EnterLock, ReleaseLock
    <2>2. Using' = Using
      BY <1>6 DEF TakeTask, StopWorker, StopIn, CheckResources, StartTask, ExecuteTask,
                  WorkerDies, ReadLocked, EnterLock, ReleaseLock, Using
    <2>3. \A v \in Using : held'[v] = held[v]
      BY <1>6 DEF TakeTask, StopWorker, StopIn, CheckResources, StartTask, ExecuteTask,
                  WorkerDies, ReadLocked, EnterLock, ReleaseLock, Using
    <2> QED
      BY <1>1, <2>1, <2>2, <2>3
  <1> QED
    BY <1>2, <1>3, <1>4, <1>5, <1>6 DEF Next, Scheduler, Worker, Ended

-----------------------------------------------------------------------------
(* The theorems. *)

\* The inductive invariant: the types, the lock, the accounting and the order.
IInv == TypeInv /\ ResourceInv /\ AccountInv /\ OrderInv /\ FileMatchesUse

THEOREM Inductive == Spec => []IInv
  <1>1. Init => IInv
    BY TypeInit, ResourceInit, AccountInit, OrderInit, FileInit DEF IInv
  <1>2. IInv /\ [Next]_vars => IInv'
    BY TypeStep, ResourceStep, AccountStep, OrderStep, FileStep DEF IInv
  <1> QED
    BY <1>1, <1>2, PTL DEF Spec

\* No two tasks that require the same resource are ever in execution together.
THEOREM ResourcesAreExclusive == Spec => []ResourceExclusion
  <1>1. IInv => ResourceExclusion
    BY DEF IInv, ResourceInv
  <1> QED
    BY <1>1, Inductive, PTL

\* resources.json lists exactly the resources of the tasks in execution.
THEOREM FileIsExact == Spec => []FileMatchesUse
  <1>1. IInv => FileMatchesUse
    BY DEF IInv
  <1> QED
    BY <1>1, Inductive, PTL

\* A task is in one place only, so it is never sent, executed or answered twice.
THEOREM TasksAreInOnePlace == Spec => []InOnePlace
  <1>1. IInv => InOnePlace
    BY DEF IInv, AccountInv
  <1> QED
    BY <1>1, Inductive, PTL

\* While a generation is in progress, the counters account for each of its tasks.
THEOREM CountersAreExact == Spec => []CountersAccount
  <1>1. IInv => CountersAccount
    BY DEF IInv, AccountInv, CountInv, CountersAccount
  <1> QED
    BY <1>1, Inductive, PTL

\* A task is executed only after all its dependencies completed.
THEOREM DependenciesComeFirst == Spec => []DependenciesCompleted
  <1>1. IInv => DependenciesCompleted
    <2> SUFFICES ASSUME IInv, NEW w \in Using PROVE DepsOf(held[w]) \subseteq Completed
      BY DEF DependenciesCompleted
    <2>1. held[w] \in Sent
      BY UsingOwes DEF IInv, Sent, InHands
    <2> QED
      BY <2>1 DEF IInv, OrderInv, DepsInv
  <1> QED
    BY <1>1, Inductive, PTL

\* The end is announced only when nothing runs and all that is left is doomed.
THEOREM CompleteIsSettled == Spec => []CompleteMeansSettled
  <1>1. IInv => CompleteMeansSettled
    BY CompleteIsQuiet DEF IInv, OrderInv, SettledInv, CompleteMeansSettled
  <1> QED
    BY <1>1, Inductive, PTL

\* No failed task needs another failed task, so build_the_dag never looks for the
\* ancestors of a node that it has removed.
THEOREM FailuresStayIndependent == Spec => []FailuresAreIndependent
  <1>1. IInv => FailuresAreIndependent
    <2> SUFFICES ASSUME IInv, NEW t \in Errored PROVE t \notin Doomed(Errored \ {t})
      BY DEF FailuresAreIndependent
    <2> DEFINE E == Errored \ {t}
               C == (Doomed(E) \ Completed) \ {t}
    <2>1. Errored \in SUBSET Tasks /\ E \in SUBSET Tasks /\ Errored \cap Completed = {}
      BY DEF Errored, Completed, ERRORED, COMPLETED
    <2>2. \A u \in Completed \cup Errored : DepsOf(u) \subseteq Completed
      BY DEF IInv, OrderInv, DepsInv, Recorded
    <2>3. E \subseteq Doomed(E) /\ Doomed(E) \subseteq Tasks /\ ClosedUnderDependents(Doomed(E))
      BY <2>1, DoomedFacts
    <2>4. E \subseteq C /\ C \in SUBSET Tasks
      BY <2>1, <2>3
    <2>5. ClosedUnderDependents(C)
      BY <2>2, <2>3 DEF ClosedUnderDependents
    <2>6. Doomed(E) \subseteq C
      BY <2>1, <2>4, <2>5, DoomedFacts
    <2> QED
      BY <2>6
  <1> QED
    BY <1>1, Inductive, PTL

\* What the scheduler recorded of a task is never changed.
THEOREM RecordedResultsAreFinal == Spec => ResultsAreFinal
  <1>1. IInv /\ [Next]_vars => [\A t \in Tasks : status[t] # NOT_SET => status'[t] = status[t]]_vars
    BY StatusStep DEF IInv
  <1> QED
    BY <1>1, Inductive, PTL DEF Spec, ResultsAreFinal

-----------------------------------------------------------------------------
(* The refinement: the run, seen through Outcome and complete, is a run of the *)
(* contract.                                                                   *)

\* A task in a worker's hands is nowhere else, and its outcome depends on that worker.
LEMMA HandsOutcome ==
  ASSUME IInv, NEW w \in Owing
  PROVE  /\ held[w] \in Tasks /\ status[held[w]] = NOT_SET /\ held[w] \in Sent
         /\ \A outcome \in {COMPLETED, ERRORED} : <<held[w], outcome>> \notin resultsQueue
         /\ \A v \in Owing : held[v] = held[w] => v = w
         /\ Outcome(held[w]) = IF w \in Using THEN "running" ELSE "pending"
  <1>1. held[w] \in Tasks /\ held[w] \in InHands
    BY DEF Owing, InHands
  <1>2. held[w] \notin Answered /\ held[w] \notin Recorded /\ held[w] \in Sent
    BY <1>1 DEF IInv, AccountInv, InOnePlace, Sent
  <1>3. status[held[w]] = NOT_SET
    BY <1>1, <1>2 DEF IInv, TypeInv, TypeOK, Recorded, Completed, Errored
  <1>4. \A outcome \in {COMPLETED, ERRORED} : <<held[w], outcome>> \notin resultsQueue
    BY <1>2 DEF Answered
  <1>5. \A v \in Owing : held[v] = held[w] => v = w
    BY DEF IInv, AccountInv, InOnePlace
  <1>6. (\E v \in Using : held[v] = held[w]) <=> w \in Using
    BY <1>5, UsingOwes DEF IInv
  <1> QED
    BY <1>1, <1>2, <1>3, <1>4, <1>5, <1>6 DEF Outcome

\* An outcome changes only with the record, the answers and the work in progress.
LEMMA OutcomeKept ==
  ASSUME NEW t \in Tasks,
         status'[t] = status[t],
         \A outcome \in {COMPLETED, ERRORED} :
            <<t, outcome>> \in resultsQueue' <=> <<t, outcome>> \in resultsQueue,
         (\E w \in Using' : held'[w] = t) <=> (\E w \in Using : held[w] = t)
  PROVE  Outcome(t)' = Outcome(t)
  BY DEF Outcome

\* A recorded outcome was the answer's.
LEMMA AnswerKept ==
  ASSUME IInv, ReceiveResult, NEW t \in Tasks
  PROVE  Outcome(t)' = Outcome(t)
  <1>1. PICK answer \in resultsQueue :
           /\ status' = [status EXCEPT ![answer[1]] = answer[2]]
           /\ resultsQueue' = resultsQueue \ {answer}
    BY DEF ReceiveResult, Receive
  <1>2. wpc' = wpc /\ held' = held
    BY DEF ReceiveResult, Receive, workerVars
  <1>3. answer[1] \in Tasks /\ answer[2] \in {COMPLETED, ERRORED} /\ answer = <<answer[1], answer[2]>>
    BY DEF IInv, TypeInv, TypeOK
  <1>4. CASE t = answer[1]
    <2>1. t \notin Recorded
      BY <1>4 DEF Answered, Sent, IInv, AccountInv, InOnePlace
    <2>2. status[t] = NOT_SET
      BY <2>1 DEF IInv, TypeInv, TypeOK, Recorded, Completed, Errored
    <2>3. \A outcome \in {COMPLETED, ERRORED} :
             <<t, outcome>> \in resultsQueue => outcome = answer[2]
      BY <1>3, <1>4 DEF IInv, AccountInv, InOnePlace
    <2>4. Outcome(t) = answer[2]
      BY <1>3, <1>4, <2>2, <2>3 DEF Outcome, COMPLETED, ERRORED, NOT_SET
    <2>5. status'[t] = answer[2]
      BY <1>1, <1>4 DEF IInv, TypeInv, TypeOK
    <2> QED
      BY <1>3, <2>4, <2>5 DEF Outcome, COMPLETED, ERRORED, NOT_SET
  <1>5. CASE t # answer[1]
    <2>1. status'[t] = status[t]
      BY <1>1, <1>5 DEF IInv, TypeInv, TypeOK
    <2>2. \A outcome \in {COMPLETED, ERRORED} :
             <<t, outcome>> \in resultsQueue' <=> <<t, outcome>> \in resultsQueue
      BY <1>1, <1>3, <1>5
    <2>3. (\E w \in Using' : held'[w] = t) <=> (\E w \in Using : held[w] = t)
      BY <1>2 DEF Using
    <2> QED
      BY <2>1, <2>2, <2>3, OutcomeKept
  <1> QED
    BY <1>4, <1>5

\* The steps by which the contract sees nothing.
HiddenStep ==
    \/ BuildGeneration \/ AnnounceComplete \/ SendTask \/ ReceiveResult \/ ShutDown
    \/ \E w \in Workers :
          \/ TakeTask(w) \/ StopWorker(w) \/ CheckResources(w) \/ StartTask(w)
          \/ ExecuteTask(w) \/ WorkerDies(w) \/ ReadLocked(w) \/ ReleaseLock(w)
    \/ UNCHANGED vars

LEMMA HiddenSteps ==
  ASSUME IInv, HiddenStep, NEW t \in Tasks
  PROVE  Outcome(t)' = Outcome(t)
  <1>1. ASSUME UNCHANGED <<status, resultsQueue>>, Using' = Using,
               \A v \in Using : held'[v] = held[v]
        PROVE  Outcome(t)' = Outcome(t)
    BY <1>1, OutcomeKept
  <1>2. CASE ReceiveResult
    BY <1>2, AnswerKept
  <1>3. CASE BuildGeneration \/ AnnounceComplete \/ SendTask \/ UNCHANGED vars
    BY <1>1, <1>3 DEF BuildGeneration, BuildFrom, AnnounceComplete, SendTask, Send, workerVars, vars, Using
  <1>4. CASE ShutDown
    <2>1. Using = {}
      BY <1>4, CompleteIsQuiet DEF ShutDown, IInv
    <2>2. Using' = {}
      BY <1>4, <2>1 DEF ShutDown, Using
    <2> QED
      BY <1>1, <1>4, <2>1, <2>2 DEF ShutDown
  <1>5. ASSUME NEW w \in Workers,
               \/ TakeTask(w) \/ StopWorker(w) \/ CheckResources(w) \/ StartTask(w)
               \/ ExecuteTask(w) \/ WorkerDies(w) \/ ReadLocked(w) \/ ReleaseLock(w)
        PROVE  Outcome(t)' = Outcome(t)
    <2> USE DEF IInv, TypeInv, TypeOK
    <2>1. UNCHANGED <<status, resultsQueue>>
      BY <1>5 DEF TakeTask, StopWorker, StopIn, CheckResources, StartTask, ExecuteTask,
                  WorkerDies, ReadLocked, EnterLock, ReleaseLock
    <2>2. Using' = Using
      BY <1>5 DEF TakeTask, StopWorker, StopIn, CheckResources, StartTask, ExecuteTask,
                  WorkerDies, ReadLocked, EnterLock, ReleaseLock, Using
    <2>3. \A v \in Using : held'[v] = held[v]
      BY <1>5 DEF TakeTask, StopWorker, StopIn, CheckResources, StartTask, ExecuteTask,
                  WorkerDies, ReadLocked, EnterLock, ReleaseLock, Using
    <2> QED
      BY <1>1, <2>1, <2>2, <2>3
  <1> QED
    BY <1>2, <1>3, <1>4, <1>5 DEF HiddenStep

LEMMA ContractInit == Init => Contract!Init
  <1> SUFFICES ASSUME Init PROVE Contract!Init
    OBVIOUS
  <1>1. \A t \in Tasks : Outcome(t) = "pending"
    BY DEF Init, Outcome, Using
  <1> QED
    BY <1>1 DEF Init, Contract!Init

\* Locking the resources of a task is its start.
LEMMA LockStarts ==
  ASSUME IInv, IInv', NEW w \in Workers, LockResources(w)
  PROVE  Contract!Start(held[w])
  <1>1. /\ wpc[w] = "locking" /\ wpc' = [wpc EXCEPT ![w] = "starting"]
        /\ UNCHANGED <<status, resultsQueue, held, complete>>
    BY DEF LockResources, LockFor
  <1>2. w \in Owing /\ w \notin Using /\ Using' = Using \cup {w}
    BY <1>1 DEF Owing, Using, IInv, TypeInv, TypeOK, HandsInv
  <1>3. held[w] \in Tasks /\ held[w] \in Sent /\ Outcome(held[w]) = "pending"
    BY <1>2, HandsOutcome
  <1>4. ~complete
    BY <1>3, CompleteIsQuiet DEF IInv
  <1>5. \A d \in Contract!DepsOf(held[w]) : d \in Tasks /\ Outcome(d) = COMPLETED
    <2>1. Contract!DepsOf(held[w]) = DepsOf(held[w])
      BY DEF Contract!DepsOf, DepsOf
    <2>2. DepsOf(held[w]) \subseteq Completed
      BY <1>3 DEF IInv, OrderInv, DepsInv
    <2> QED
      BY <2>1, <2>2 DEF Completed, Outcome, COMPLETED, NOT_SET
  <1>6. \A u \in Contract!Running : Needs[held[w]] \cap Needs[u] = {}
    <2> SUFFICES ASSUME NEW u \in Tasks, Outcome(u) = "running"
                 PROVE  Needs[held[w]] \cap Needs[u] = {}
      BY DEF Contract!Running
    <2>1. PICK v \in Using : held[v] = u
      BY DEF Outcome, IInv, TypeInv, TypeOK, NOT_SET, COMPLETED, ERRORED
    <2>2. v \in Using' /\ w \in Using' /\ v # w
      BY <1>2
    <2>3. Needs[held[w]] \cap Needs[held[v]] = {}
      BY <1>1, <2>2 DEF IInv, ResourceInv, ResourceExclusion
    <2> QED
      BY <2>1, <2>3
  <1>7. Outcome(held[w])' = "running"
    <2>1. w \in Owing' /\ w \in Using' /\ held'[w] = held[w]
      BY <1>1, <1>2 DEF Owing, IInv, TypeInv, TypeOK
    <2>2. status'[held[w]] = NOT_SET
      BY <1>1, <1>2, HandsOutcome
    <2>3. \A outcome \in {COMPLETED, ERRORED} : <<held[w], outcome>> \notin resultsQueue'
      BY <1>1, <1>2, HandsOutcome
    <2> QED
      BY <2>1, <2>2, <2>3, <1>1 DEF Outcome
  <1>8. \A t \in Tasks : t # held[w] => Outcome(t)' = Outcome(t)
    <2> SUFFICES ASSUME NEW t \in Tasks, t # held[w] PROVE Outcome(t)' = Outcome(t)
      OBVIOUS
    <2>1. (\E v \in Using' : held'[v] = t) <=> (\E v \in Using : held[v] = t)
      BY <1>1, <1>2
    <2> QED
      BY <1>1, <2>1, OutcomeKept
  <1>9. [t \in Tasks |-> Outcome(t)]' = [[t \in Tasks |-> Outcome(t)] EXCEPT ![held[w]] = "running"]
    <2>1. \A t \in Tasks : Outcome(t)' = IF t = held[w] THEN "running" ELSE Outcome(t)
      BY <1>1, <1>7, <1>8
    <2> QED
      BY <1>3, <2>1
  <1>10. [t \in Tasks |-> Outcome(t)][held[w]] = "pending"
    BY <1>3
  <1>11. \A d \in Contract!DepsOf(held[w]) : [t \in Tasks |-> Outcome(t)][d] = Contract!COMPLETED
    BY <1>5 DEF Contract!COMPLETED, COMPLETED
  <1> QED
    BY <1>1, <1>4, <1>6, <1>9, <1>10, <1>11, Zenon DEF Contract!Start

\* Giving the resources back, with the answer, is its end.
LEMMA UnlockFinishes ==
  ASSUME IInv, NEW w \in Workers, UnlockResources(w)
  PROVE  Contract!Finish(held[w], result[w])
  <1>1. /\ wpc[w] = "unlocking" /\ wpc' = [wpc EXCEPT ![w] = "releasing"]
        /\ resultsQueue' = resultsQueue \cup {<<held[w], result[w]>>}
        /\ UNCHANGED <<status, held, complete>>
    BY DEF UnlockResources, UnlockAs
  <1>2. w \in Owing /\ w \in Using /\ Using' = Using \ {w}
    BY <1>1 DEF Owing, Using, IInv, TypeInv, TypeOK, HandsInv
  <1>3. held[w] \in Tasks /\ Outcome(held[w]) = "running"
    BY <1>2, HandsOutcome
  <1>4. Outcome(held[w])' = result[w]
    <2>1. result[w] \in {COMPLETED, ERRORED}
      BY <1>1 DEF IInv, TypeInv, HandsInv
    <2>2. status'[held[w]] = NOT_SET
      BY <1>1, <1>2, HandsOutcome
    <2>3. \A outcome \in {COMPLETED, ERRORED} :
             <<held[w], outcome>> \in resultsQueue' <=> outcome = result[w]
      BY <1>1, <1>2, <2>1, HandsOutcome
    <2> QED
      BY <1>1, <2>1, <2>2, <2>3 DEF Outcome, COMPLETED, ERRORED
  <1>5. \A t \in Tasks : t # held[w] => Outcome(t)' = Outcome(t)
    <2> SUFFICES ASSUME NEW t \in Tasks, t # held[w] PROVE Outcome(t)' = Outcome(t)
      OBVIOUS
    <2>1. (\E v \in Using' : held'[v] = t) <=> (\E v \in Using : held[v] = t)
      BY <1>1, <1>2
    <2>2. \A outcome \in {COMPLETED, ERRORED} :
             <<t, outcome>> \in resultsQueue' <=> <<t, outcome>> \in resultsQueue
      BY <1>1
    <2> QED
      BY <1>1, <2>1, <2>2, OutcomeKept
  <1>6. [t \in Tasks |-> Outcome(t)]' = [[t \in Tasks |-> Outcome(t)] EXCEPT ![held[w]] = result[w]]
    <2>1. \A t \in Tasks : Outcome(t)' = IF t = held[w] THEN result[w] ELSE Outcome(t)
      BY <1>1, <1>4, <1>5
    <2> QED
      BY <1>3, <2>1
  <1>7. [t \in Tasks |-> Outcome(t)][held[w]] = "running"
    BY <1>3
  <1> QED
    BY <1>1, <1>6, <1>7, Zenon DEF Contract!Finish

\* The scheduler's announcement is the contract's.
LEMMA AnnounceAnnounces ==
  ASSUME IInv, IInv', AnnounceComplete
  PROVE  Contract!Announce
  <1>1. complete' /\ UNCHANGED <<status, resultsQueue, held, wpc>>
    BY DEF AnnounceComplete, workerVars
  <1>2. Using = {}
    <2>1. Sent = {}
      BY DEF IInv, AccountInv, CountInv, AnnounceComplete
    <2> QED
      BY <2>1, UsingOwes DEF IInv, Sent, InHands
  <1>3. Tasks = Completed \cup Doomed(Errored)
    BY <1>1 DEF IInv, OrderInv, SettledInv, Completed, Errored
  <1>4. Contract!Running = {}
    BY <1>2 DEF Contract!Running, Outcome, IInv, TypeInv, TypeOK, NOT_SET, COMPLETED, ERRORED
  <1>5. ASSUME NEW t \in Tasks, Outcome(t) = "pending"
        PROVE  t \in Contract!Doomed(Contract!Failed)
    <2>1. t \notin Completed
      BY <1>5 DEF Completed, Outcome, COMPLETED, NOT_SET
    <2>2. Errored \subseteq Contract!Failed
      BY DEF Contract!Failed, Contract!ERRORED, Errored, Outcome, ERRORED, NOT_SET
    <2>3. Contract!Doomed(Contract!Failed) = Doomed(Contract!Failed)
      BY DEF Contract!Doomed, Contract!ClosedUnderDependents, Contract!DepsOf,
             Doomed, ClosedUnderDependents, DepsOf
    <2>4. Doomed(Errored) \subseteq Doomed(Contract!Failed)
      BY <2>2 DEF Doomed
    <2> QED
      BY <1>3, <2>1, <2>3, <2>4
  <1>6. [t \in Tasks |-> Outcome(t)]' = [t \in Tasks |-> Outcome(t)]
    BY HiddenSteps DEF HiddenStep
  <1> QED
    BY <1>1, <1>4, <1>5, <1>6 DEF Contract!Announce

\* Every step of the default algorithm is a step of the contract, or one that the
\* contract does not see.
THEOREM RunKeepsContract == Spec => KeepsContract
  <1>1. ASSUME IInv, IInv', [Next]_vars
        PROVE  [Contract!Next]_(Contract!contractVars)
    <2>1. ASSUME NEW w \in Workers, LockResources(w)
          PROVE  Contract!Next
      <3>1. held[w] \in Tasks
        BY <1>1, <2>1 DEF LockResources, LockFor, IInv, TypeInv, HandsInv
      <3> QED
        BY <1>1, <2>1, <3>1, LockStarts DEF Contract!Next
    <2>2. ASSUME NEW w \in Workers, UnlockResources(w)
          PROVE  Contract!Next
      <3>1. held[w] \in Tasks /\ result[w] \in {Contract!COMPLETED, Contract!ERRORED}
        BY <1>1, <2>2 DEF UnlockResources, UnlockAs, IInv, TypeInv, HandsInv,
                          Contract!COMPLETED, Contract!ERRORED, COMPLETED, ERRORED
      <3> QED
        BY <1>1, <2>2, <3>1, UnlockFinishes DEF Contract!Next
    <2>3. CASE AnnounceComplete
      BY <1>1, <2>3, AnnounceAnnounces DEF Contract!Next
    <2>4. ASSUME HiddenStep, ~AnnounceComplete
          PROVE  UNCHANGED Contract!contractVars
      <3>1. [t \in Tasks |-> Outcome(t)]' = [t \in Tasks |-> Outcome(t)]
        BY <1>1, <2>4, HiddenSteps
      <3>2. complete' = complete
        BY <2>4 DEF HiddenStep, BuildGeneration, BuildFrom, SendTask, Send, ReceiveResult, Receive, ShutDown,
                    TakeTask, StopWorker, StopIn, CheckResources, StartTask, ExecuteTask,
                    WorkerDies, ReadLocked, EnterLock, ReleaseLock, vars
      <3> QED
        BY <3>1, <3>2 DEF Contract!contractVars
    <2> QED
      BY <1>1, <2>1, <2>2, <2>3, <2>4 DEF Next, Scheduler, Worker, Ended, HiddenStep
  <1> QED
    BY <1>1, ContractInit, Inductive, PTL DEF Spec, KeepsContract, Contract!Spec
=============================================================================
