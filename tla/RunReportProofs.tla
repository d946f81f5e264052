--------------------------- MODULE RunReportProofs ---------------------------
(***************************************************************************)
(* Proofs about RunReport: the exit code of a run and the events it sends, *)
(* for any tasks, builds, sizes and limits.  The batches are folds over    *)
(* sequences of any length: what they hold is proved with FoldTheorems,    *)
(* from what holds of the entries that were added so far.                  *)
(***************************************************************************)
EXTENDS RunReport, TLAPS, FiniteSetTheorems, SequenceTheorems

\* The types of all that decides on the exit code.
TypeInv ==
    /\ options \in Options
    /\ pc \in {"running", "polling", "forwarding", "sending", "posting", "exiting",
               "exited", "crashed"}
    /\ hasFailures \in BOOLEAN /\ hasSpokeFailures \in BOOLEAN
    /\ build \in [SpokeTasks -> BuildStates]
    /\ toPoll \subseteq SpokeTasks
    /\ polled \in toPoll \cup {NoTask}

\* While the engine runs there are no results.
FreshInv ==
    pc = "running" =>
        /\ succeeded = {} /\ failed = {} /\ toPoll = {} /\ polled = NoTask
        /\ hasFailures = FALSE /\ hasSpokeFailures = FALSE

\* The failures of the engine are counted; those of the builds are files beside them.
CountInv == hasFailures <=> \E t \in Tasks : <<t, "task">> \in failed

\* A build was started by a task that succeeded, or by one that failed afterwards.
BuildInv ==
    \A t \in SpokeTasks :
        /\ build[t] # "none" => <<t, "task">> \in succeeded \cup failed
        /\ <<t, "task">> \in succeeded => build[t] # "none"

\* A build that is not polled any more has ended, and its failure is remembered.
PollInv ==
    /\ hasSpokeFailures => \E t \in SpokeTasks : build[t] = "FAILED"
    /\ \A t \in SpokeTasks :
          <<t, "task">> \in succeeded /\ t \notin toPoll
              => build[t] # "IN_PROGRESS" /\ (build[t] = "FAILED" => hasSpokeFailures)

\* Nothing is left to poll when the report starts, and the exit code is the two counts.
ReportInv ==
    /\ pc \in {"forwarding", "sending", "posting", "exiting", "exited"} => toPoll = {}
    /\ pc = "exited" => exitCode = IF hasSpokeFailures \/ hasFailures THEN 1 ELSE 0

IInv == TypeInv /\ FreshInv /\ CountInv /\ BuildInv /\ PollInv /\ ReportInv

-----------------------------------------------------------------------------
LEMMA InvInit == Init => IInv
  <1> SUFFICES ASSUME Init PROVE IInv
    OBVIOUS
  <1>1. TypeInv
    BY DEF Init, TypeInv, BuildStates
  <1>2. FreshInv /\ CountInv
    BY DEF Init, FreshInv, CountInv
  <1>3. BuildInv /\ PollInv /\ ReportInv
    BY DEF Init, BuildInv, PollInv, ReportInv
  <1> QED
    BY <1>1, <1>2, <1>3 DEF IInv

\* The engine hands its results over: in hub mode every started build is to be polled, and
\* in the other modes there is none.
LEMMA RunEndsStep == IInv /\ RunEnds => IInv'
  <1> SUFFICES ASSUME IInv, RunEnds PROVE IInv'
    OBVIOUS
  <1>0. PICK success \in SUBSET Reference :
            \E failure \in SUBSET (Reference \ success) :
                /\ succeeded' = success \X {"task"}
                /\ failed' = failure \X {"task"}
                /\ hasFailures' = (failure # {})
                /\ toPoll' = IF options.hub THEN success \cap SpokeTasks ELSE {}
                /\ build' \in {b \in [SpokeTasks -> {"none", "IN_PROGRESS"}] :
                                  \A t \in SpokeTasks :
                                      /\ t \in success => b[t] = "IN_PROGRESS"
                                      /\ t \notin success \cup failure => b[t] = "none"}
    BY DEF RunEnds
  <1>1. PICK failure \in SUBSET (Reference \ success) :
            /\ succeeded' = success \X {"task"}
            /\ failed' = failure \X {"task"}
            /\ hasFailures' = (failure # {})
            /\ toPoll' = IF options.hub THEN success \cap SpokeTasks ELSE {}
            /\ build' \in {b \in [SpokeTasks -> {"none", "IN_PROGRESS"}] :
                              \A t \in SpokeTasks :
                                  /\ t \in success => b[t] = "IN_PROGRESS"
                                  /\ t \notin success \cup failure => b[t] = "none"}
    BY <1>0
  <1>2. /\ pc = "running" /\ pc' = "polling" /\ options' = options
        /\ polled' = NoTask /\ hasSpokeFailures' = FALSE
    BY DEF RunEnds, IInv, FreshInv
  <1>3. Reference \subseteq Tasks /\ (~options.hub => Reference \cap SpokeTasks = {})
    BY DEF Reference
  <1>4. \A t \in Tasks : /\ <<t, "task">> \in succeeded' <=> t \in success
                         /\ <<t, "task">> \in failed' <=> t \in failure
    BY <1>1
  <1>5. TypeInv'
    BY <1>1, <1>2 DEF IInv, TypeInv, BuildStates
  <1>6. FreshInv' /\ ReportInv'
    BY <1>2 DEF FreshInv, ReportInv
  <1>7. CountInv'
    BY <1>1, <1>3, <1>4 DEF CountInv
  <1>8. BuildInv'
    BY <1>1, <1>4, TasksAssumption DEF BuildInv
  <1>9. PollInv'
    <2>1. ASSUME NEW t \in SpokeTasks, <<t, "task">> \in succeeded'
          PROVE  t \in toPoll'
      BY <1>1, <1>3, <1>4, <2>1, TasksAssumption
    <2> QED
      BY <1>2, <2>1 DEF PollInv
  <1> QED
    BY <1>5, <1>6, <1>7, <1>8, <1>9 DEF IInv

\* The build that is polled has ended: it leaves the wait with its outcome counted.
LEMMA ReadBuildStep == IInv /\ ReadBuild => IInv'
  <1> SUFFICES ASSUME IInv, ReadBuild PROVE IInv'
    OBVIOUS
  <1>1. /\ pc = "polling" /\ pc' = pc /\ options' = options
        /\ polled \in SpokeTasks /\ build[polled] # "IN_PROGRESS"
        /\ toPoll' = toPoll \ {polled} /\ polled' = NoTask
        /\ hasSpokeFailures' = (hasSpokeFailures \/ build[polled] = "FAILED")
        /\ failed \subseteq failed' /\ failed' \subseteq failed \cup {<<polled, "build">>}
        /\ succeeded' = succeeded /\ hasFailures' = hasFailures /\ build' = build
    BY DEF ReadBuild, Polled, outVars, IInv, TypeInv
  <1>2. \A t : <<t, "task">> \in failed' <=> <<t, "task">> \in failed
    BY <1>1
  <1>3. TypeInv'
    BY <1>1 DEF IInv, TypeInv
  <1>4. FreshInv' /\ ReportInv'
    BY <1>1 DEF FreshInv, ReportInv
  <1>5. CountInv' /\ BuildInv'
    BY <1>1, <1>2 DEF IInv, CountInv, BuildInv
  <1>6. PollInv'
    BY <1>1 DEF IInv, PollInv
  <1> QED
    BY <1>3, <1>4, <1>5, <1>6 DEF IInv

\* A build that ends was in progress, so that it is still to be polled, or the task that
\* started it is one of the failures.
LEMMA BuildEndsStep == IInv /\ (\E t \in SpokeTasks : BuildEnds(t)) => IInv'
  <1> SUFFICES ASSUME IInv, NEW t \in SpokeTasks, BuildEnds(t) PROVE IInv'
    OBVIOUS
  <1>1. /\ build[t] = "IN_PROGRESS"
        /\ build'[t] \in {"SUCCEEDED", "FAILED"}
        /\ \A u \in SpokeTasks : u # t => build'[u] = build[u]
        /\ build' \in [SpokeTasks -> BuildStates]
    BY DEF BuildEnds, IInv, TypeInv, BuildStates
  <1>2. UNCHANGED <<options, pc, resultVars, pollVars, outVars>>
    BY DEF BuildEnds
  <1> USE <1>2 DEF resultVars, pollVars, outVars
  <1>3. TypeInv' /\ FreshInv' /\ CountInv' /\ ReportInv'
    BY <1>1 DEF IInv, TypeInv, FreshInv, CountInv, ReportInv
  <1>4. BuildInv'
    BY <1>1 DEF IInv, BuildInv
  <1>5. PollInv'
    BY <1>1 DEF IInv, PollInv
  <1> QED
    BY <1>3, <1>4, <1>5 DEF IInv

\* The steps of the report change neither the counts nor the builds.
LEMMA ReportStep ==
    IInv /\ (ForwardFailure \/ ForwardingDone \/ SendBatch \/ SendingDone \/ PostResult
                \/ PollingDone \/ PollNext \/ CallRaises \/ Exit) => IInv'
  <1> SUFFICES ASSUME IInv, ForwardFailure \/ ForwardingDone \/ SendBatch \/ SendingDone
                              \/ PostResult \/ PollingDone \/ PollNext \/ CallRaises \/ Exit
               PROVE  IInv'
    OBVIOUS
  <1>1. /\ UNCHANGED <<options, resultVars, build, toPoll, hasSpokeFailures>>
        /\ pc # "running" /\ pc' # "running"
    BY DEF ForwardFailure, ForwardingDone, SendBatch, SendingDone, PostResult, PollingDone,
           PollNext, CallRaises, Exit, pollVars
  <1> USE <1>1 DEF resultVars
  <1>2. /\ pc' \in {"polling", "forwarding", "sending", "posting", "exiting", "exited", "crashed"}
        /\ polled' \in toPoll \cup {NoTask}
    BY DEF ForwardFailure, ForwardingDone, SendBatch, SendingDone, PostResult, PollingDone,
           PollNext, CallRaises, Exit, pollVars, IInv, TypeInv
  <1>3. TypeInv' /\ FreshInv' /\ CountInv'
    BY <1>2 DEF IInv, TypeInv, FreshInv, CountInv
  <1>4. BuildInv' /\ PollInv'
    BY DEF IInv, BuildInv, PollInv
  <1>5. ReportInv'
    BY DEF IInv, ReportInv, ForwardFailure, ForwardingDone, SendBatch, SendingDone,
           PostResult, PollingDone, PollNext, CallRaises, Exit
  <1> QED
    BY <1>3, <1>4, <1>5 DEF IInv

LEMMA InvStep == IInv /\ [Next]_vars => IInv'
  <1> SUFFICES ASSUME IInv, [Next]_vars PROVE IInv'
    OBVIOUS
  <1>1. CASE UNCHANGED vars
    BY <1>1 DEF vars, resultVars, pollVars, outVars, IInv, TypeInv, FreshInv, CountInv,
                BuildInv, PollInv, ReportInv
  <1>2. CASE RunTasks \/ CallRaises
    BY <1>2, RunEndsStep, ReadBuildStep, ReportStep DEF RunTasks
  <1>3. CASE \E t \in SpokeTasks : BuildEnds(t)
    BY <1>3, BuildEndsStep
  <1> QED
    BY <1>1, <1>2, <1>3 DEF Next, Ended

\* run_tasks keeps the invariant the proof is about.
THEOREM Inductive == Spec => []IInv
  BY InvInit, InvStep, PTL DEF Spec

\* The exit code is 0 exactly when no task and no build failed, and the builds that were waited
\* for have ended, however the builds end before, during and after the wait.
THEOREM ExitTellsTheTruthAlways == Spec => []ExitTellsTheTruth
  <1>1. IInv => ExitTellsTheTruth
    <2> SUFFICES ASSUME IInv, pc = "exited"
                 PROVE  /\ exitCode = 0 <=> TasksThatFailed = {}
                        /\ \A t \in SpokeTasks :
                              <<t, "task">> \in succeeded => build[t] # "IN_PROGRESS"
      BY DEF ExitTellsTheTruth
    <2>1. exitCode = 0 <=> ~hasSpokeFailures /\ ~hasFailures
      BY DEF IInv, ReportInv
    <2>2. \A t \in SpokeTasks : <<t, "task">> \in succeeded =>
              build[t] # "IN_PROGRESS" /\ (build[t] = "FAILED" => hasSpokeFailures)
      BY DEF IInv, ReportInv, PollInv
    <2>3. ASSUME NEW t \in SpokeTasks, build[t] = "FAILED"
          PROVE  hasSpokeFailures \/ hasFailures
      BY <2>2, <2>3, TasksAssumption DEF IInv, BuildInv, CountInv
    <2>4. hasSpokeFailures \/ hasFailures <=> TasksThatFailed # {}
      BY <2>3 DEF IInv, CountInv, PollInv, TasksThatFailed
    <2> QED
      BY <2>1, <2>2, <2>4
  <1> QED
    BY Inductive, <1>1, PTL

-----------------------------------------------------------------------------
(* The batches of events. *)

\* One more entry, and how many bytes there are then.
AddBytes(p, q, r, t, bytes, entry) == bytes + Size[entry]
IsSize(p, q, r, t, j, bytes) == bytes \in Nat

BytesFold == INSTANCE FoldTheorems WITH Op <- AddBytes, Good <- IsSize

LEMMA BytesIsFold == \A b : Bytes(b) = BytesFold!Folded(0, 0, 0, 0, 0, b)
  BY DEF Bytes, FoldLeft, MapThenFoldSet, Max, AddBytes, BytesFold!Folded, BytesFold!IsFold,
         BytesFold!Largest

LEMMA BytesType ==
  ASSUME NEW b \in Seq(Files)
  PROVE  Bytes(b) \in Nat
  <1>1. Len(b) \in Nat /\ DOMAIN b = 1..Len(b) /\ \A j \in 1..Len(b) : Size[b[j]] \in Nat
    BY SizeAssumption
  <1>2. IsSize(0, 0, 0, 0, 0, 0)
    BY DEF IsSize
  <1>3. \A j \in 0..Len(b) - 1 : \A s : IsSize(0, 0, 0, 0, j, s)
            => IsSize(0, 0, 0, 0, j + 1, AddBytes(0, 0, 0, 0, s, b[j + 1]))
    BY <1>1 DEF IsSize, AddBytes
  <1>4. IsSize(0, 0, 0, 0, Len(b), BytesFold!Folded(0, 0, 0, 0, 0, b))
    BY <1>1, <1>2, <1>3, BytesFold!FoldKeeps
  <1> QED
    BY <1>4, BytesIsFold DEF IsSize

\* The bytes of a batch to which an entry is added.
LEMMA BytesAppend ==
  ASSUME NEW b \in Seq(Files), NEW e \in Files
  PROVE  Bytes(Append(b, e)) = Bytes(b) + Size[e]
  <1> DEFINE c == Append(b, e)
  <1>1. /\ Len(b) \in Nat /\ DOMAIN b = 1..Len(b)
        /\ DOMAIN c = 1..Len(b) + 1 /\ c[Len(b) + 1] = e
        /\ \A j \in 1..Len(b) : c[j] = b[j]
    OBVIOUS
  <1> HIDE DEF c
  <1>2. BytesFold!Folded(0, 0, 0, 0, 0, c)
            = AddBytes(0, 0, 0, 0, BytesFold!Folded(0, 0, 0, 0, 0, b), c[Len(b) + 1])
    BY <1>1, BytesFold!FoldAppend
  <1> QED
    BY <1>1, <1>2, BytesIsFold DEF AddBytes, c

LEMMA BytesEmpty == Bytes(<<>>) = 0
  <1>1. DOMAIN <<>> = {}
    OBVIOUS
  <1>2. BytesFold!Folded(0, 0, 0, 0, 0, <<>>) = 0
    BY <1>1, BytesFold!FoldEmpty
  <1> QED
    BY <1>2, BytesIsFold

\* A batch that put_events takes, or one with a single entry.
Fits(b) == Len(b) <= MaxEntries /\ (Bytes(b) <= MaxBytes \/ Len(b) = 1)

\* The batches hold the files of F, each of them once.
Holds(bs, F) ==
    /\ \A i \in DOMAIN bs : IsInjective(bs[i])
    /\ \A i, j \in DOMAIN bs : i # j => Range(bs[i]) \cap Range(bs[j]) = {}
    /\ UNION {Range(bs[i]) : i \in DOMAIN bs} = F

\* Batches of which each fits, the last of them still open.
Open(bs, F) ==
    /\ bs \in Seq(Seq(Files)) /\ bs # <<>>
    /\ \A i \in DOMAIN bs : Fits(bs[i])
    /\ Holds(bs, F)

LEMMA FirstBatch == Open(<< <<>> >>, {})
  <1> DEFINE bs == << <<>> >>
  <1>1. /\ bs \in Seq(Seq(Files)) /\ bs # <<>> /\ DOMAIN bs = {1} /\ bs[1] = <<>>
    OBVIOUS
  <1>2. Fits(<<>>)
    BY BytesEmpty, LimitsAssumption DEF Fits
  <1>3. IsInjective(<<>>) /\ Range(<<>>) = {}
    BY DEF IsInjective, Range
  <1> HIDE DEF bs
  <1>4. Holds(bs, {})
    BY <1>1, <1>3 DEF Holds
  <1>5. Open(bs, {})
    BY <1>1, <1>2, <1>4 DEF Open
  <1> QED
    BY <1>5 DEF bs

LEMMA RangeAppend ==
  ASSUME NEW b \in Seq(Files), NEW e \in Files
  PROVE  /\ Range(Append(b, e)) = Range(b) \cup {e}
         /\ IsInjective(b) /\ e \notin Range(b) => IsInjective(Append(b, e))
  <1> DEFINE c == Append(b, e)
  <1>1. /\ DOMAIN c = 1..Len(b) + 1 /\ DOMAIN b = 1..Len(b) /\ c[Len(b) + 1] = e
        /\ \A j \in 1..Len(b) : c[j] = b[j]
    OBVIOUS
  <1>2. Len(b) \in Nat /\ \A j \in DOMAIN c : j \in DOMAIN b \/ j = Len(b) + 1
    BY <1>1
  <1>3. DOMAIN b \subseteq DOMAIN c /\ Len(b) + 1 \in DOMAIN c
    BY <1>1, <1>2
  <1> HIDE DEF c
  <1>4. Range(c) = Range(b) \cup {e}
    BY <1>1, <1>2, <1>3 DEF Range
  <1>5. ASSUME IsInjective(b), e \notin Range(b) PROVE IsInjective(c)
    BY <1>1, <1>2, <1>3, <1>5 DEF Range, IsInjective
  <1> QED
    BY <1>4, <1>5 DEF c

\* An entry that is not there yet is added to the last batch, or to a new one behind it.
LEMMA AddEntryStep ==
  ASSUME NEW bs, NEW F, Open(bs, F), NEW e \in Files, e \notin F
  PROVE  Open(AddEntry(bs, e), F \cup {e})
  <1> DEFINE n == Len(bs)
             last == bs[n]
  <1>1. /\ bs \in Seq(Seq(Files)) /\ n \in Nat \ {0} /\ DOMAIN bs = 1..n
        /\ n \in DOMAIN bs /\ last \in Seq(Files) /\ Last(bs) = last
    BY DEF Open, Last
  <1>2. /\ \A i \in DOMAIN bs : Fits(bs[i]) /\ IsInjective(bs[i]) /\ Range(bs[i]) \subseteq F
        /\ \A i, j \in DOMAIN bs : i # j => Range(bs[i]) \cap Range(bs[j]) = {}
        /\ UNION {Range(bs[i]) : i \in DOMAIN bs} = F
    BY DEF Open, Holds
  <1>3. CASE IsFullFor(Last(bs), e)
    <2> DEFINE one == <<e>>
               new == Append(bs, one)
    <2>1. /\ one \in Seq(Files) /\ one = Append(<<>>, e) /\ Len(one) = 1
          /\ IsInjective(one) /\ Range(one) = {e}
      BY DEF IsInjective, Range
    <2>2. Fits(one)
      BY <2>1, LimitsAssumption DEF Fits
    <2> HIDE DEF one
    <2>3. /\ new \in Seq(Seq(Files)) /\ new # <<>> /\ DOMAIN new = 1..n + 1 /\ new[n + 1] = one
          /\ \A i \in DOMAIN bs : new[i] = bs[i]
      BY <1>1, <2>1
    <2>4. /\ \A i \in DOMAIN new : i \in DOMAIN bs \/ i = n + 1
          /\ DOMAIN bs \subseteq DOMAIN new /\ n + 1 \in DOMAIN new /\ n + 1 \notin DOMAIN bs
      BY <1>1, <2>3
    <2> HIDE DEF new, n, last
    <2>5. \A i \in DOMAIN new : Fits(new[i]) /\ IsInjective(new[i])
      BY <1>2, <2>1, <2>2, <2>3, <2>4
    <2>r. /\ \A i \in DOMAIN bs : Range(new[i]) = Range(bs[i]) /\ e \notin Range(new[i])
          /\ Range(new[n + 1]) = {e}
      BY <1>2, <2>1, <2>3
    <2>6. ASSUME NEW i \in DOMAIN new, NEW j \in DOMAIN new, i # j
          PROVE  Range(new[i]) \cap Range(new[j]) = {}
      <3>1. CASE i \in DOMAIN bs /\ j \in DOMAIN bs
        BY <1>2, <2>r, <2>6, <3>1
      <3>2. CASE i = n + 1 \/ j = n + 1
        BY <2>4, <2>r, <2>6, <3>2
      <3> QED
        BY <2>4, <3>1, <3>2
    <2>7. UNION {Range(new[i]) : i \in DOMAIN new} = F \cup {e}
      <3>1. \A x \in F : \E i \in DOMAIN new : x \in Range(new[i])
        BY <1>2, <2>4, <2>r
      <3>2. \E i \in DOMAIN new : e \in Range(new[i])
        BY <2>4, <2>r
      <3>3. \A i \in DOMAIN new : Range(new[i]) \subseteq F \cup {e}
        BY <1>2, <2>4, <2>r
      <3> QED
        BY <3>1, <3>2, <3>3
    <2>8. AddEntry(bs, e) = new
      BY <1>3 DEF AddEntry, new, one
    <2> QED
      BY <2>3, <2>5, <2>6, <2>7, <2>8 DEF Open, Holds
  <1>4. CASE ~IsFullFor(Last(bs), e)
    <2> DEFINE more == Append(last, e)
               new == [bs EXCEPT ![n] = more]
    <2>1. /\ more \in Seq(Files) /\ Len(more) = Len(last) + 1 /\ Len(last) \in Nat
          /\ Bytes(more) = Bytes(last) + Size[e]
          /\ Bytes(last) \in Nat /\ Size[e] \in Nat
      BY <1>1, BytesAppend, BytesType, SizeAssumption
    <2>2. Fits(more)
      BY <1>1, <1>4, <2>1, LimitsAssumption DEF Fits, IsFullFor
    <2>3. Range(more) = Range(last) \cup {e} /\ IsInjective(more)
      BY <1>1, <1>2, RangeAppend
    <2> HIDE DEF more
    <2>4. /\ new \in Seq(Seq(Files)) /\ DOMAIN new = DOMAIN bs /\ new # <<>> /\ new[n] = more
          /\ \A i \in DOMAIN bs : i # n => new[i] = bs[i]
      BY <1>1, <2>1
    <2> HIDE DEF new, n
    <2>5. \A i \in DOMAIN new : Fits(new[i]) /\ IsInjective(new[i])
      BY <1>2, <2>2, <2>3, <2>4
    <2>r. /\ \A i \in DOMAIN bs : i # n => Range(new[i]) = Range(bs[i])
          /\ Range(new[n]) = Range(bs[n]) \cup {e} /\ n \in DOMAIN bs
          /\ \A i \in DOMAIN bs : e \notin Range(bs[i])
      BY <1>1, <1>2, <2>3, <2>4 DEF n
    <2>6. ASSUME NEW i \in DOMAIN new, NEW j \in DOMAIN new, i # j
          PROVE  Range(new[i]) \cap Range(new[j]) = {}
      <3>1. Range(bs[i]) \cap Range(bs[j]) = {}
        BY <1>2, <2>4, <2>6
      <3> QED
        BY <2>4, <2>6, <2>r, <3>1
    <2>7. UNION {Range(new[i]) : i \in DOMAIN new} = F \cup {e}
      <3>1. \A x \in F : \E i \in DOMAIN new : x \in Range(new[i])
        <4> TAKE x \in F
        <4>1. PICK i \in DOMAIN bs : x \in Range(bs[i])
          BY <1>2
        <4> QED
          BY <2>4, <2>r, <4>1
      <3>2. \E i \in DOMAIN new : e \in Range(new[i])
        BY <2>4, <2>r
      <3>3. \A i \in DOMAIN new : Range(new[i]) \subseteq F \cup {e}
        BY <1>2, <2>4, <2>r
      <3> QED
        BY <3>1, <3>2, <3>3
    <2>8. AddEntry(bs, e) = new
      BY <1>1, <1>4 DEF AddEntry, new, more, n
    <2> QED
      BY <2>4, <2>5, <2>6, <2>7, <2>8 DEF Open, Holds
  <1> QED
    BY <1>3, <1>4

\* The first j entries are in batches. The first argument is the sequence of all.
PutEntry(es, q, r, t, bs, entry) == AddEntry(bs, entry)
FirstEntries(es, j) == {es[i] : i \in 1..j}
HoldFirst(es, q, r, t, j, bs) == Open(bs, FirstEntries(es, j))

BatchesFold == INSTANCE FoldTheorems WITH Op <- PutEntry, Good <- HoldFirst

LEMMA BatchesAreFold ==
  \A es : GenerateBatches(es) = BatchesFold!Folded(es, 0, 0, 0, << <<>> >>, es)
  BY DEF GenerateBatches, FoldLeft, MapThenFoldSet, Max, PutEntry, BatchesFold!Folded,
         BatchesFold!IsFold, BatchesFold!Largest

\* The batches of any entries fit, and each entry is in one of them, once.
LEMMA BatchesHoldEntries ==
  ASSUME NEW es \in Seq(Files), IsInjective(es)
  PROVE  Open(GenerateBatches(es), Range(es))
  <1> DEFINE n == Len(es)
  <1>0. n \in Nat /\ DOMAIN es = 1..n /\ \A j \in 1..n : es[j] \in Files
    OBVIOUS
  <1> HIDE DEF n
  <1>1. HoldFirst(es, 0, 0, 0, 0, << <<>> >>)
    <2>1. FirstEntries(es, 0) = {}
      BY DEF FirstEntries
    <2> QED
      BY <2>1, FirstBatch DEF HoldFirst
  <1>2. ASSUME NEW j \in 0..n - 1, NEW bs, HoldFirst(es, 0, 0, 0, j, bs)
        PROVE  HoldFirst(es, 0, 0, 0, j + 1, PutEntry(es, 0, 0, 0, bs, es[j + 1]))
    <2>1. j + 1 \in 1..n /\ j \in 0..n
      BY <1>0
    <2>2. es[j + 1] \in Files /\ es[j + 1] \notin FirstEntries(es, j)
      BY <1>0, <2>1 DEF IsInjective, FirstEntries
    <2>3. FirstEntries(es, j + 1) = FirstEntries(es, j) \cup {es[j + 1]}
      <3>1. \A i \in 1..j + 1 : i \in 1..j \/ i = j + 1
        OBVIOUS
      <3>2. 1..j \subseteq 1..j + 1 /\ j + 1 \in 1..j + 1
        OBVIOUS
      <3> QED
        BY <3>1, <3>2 DEF FirstEntries
    <2>4. Open(AddEntry(bs, es[j + 1]), FirstEntries(es, j) \cup {es[j + 1]})
      BY <1>2, <2>2, AddEntryStep DEF HoldFirst
    <2> QED
      BY <2>3, <2>4 DEF HoldFirst, PutEntry
  <1>3. HoldFirst(es, 0, 0, 0, n, BatchesFold!Folded(es, 0, 0, 0, << <<>> >>, es))
    BY <1>0, <1>1, <1>2, BatchesFold!FoldKeeps
  <1>4. FirstEntries(es, n) = Range(es)
    BY <1>0 DEF Range, FirstEntries
  <1> QED
    BY <1>3, <1>4, BatchesAreFold DEF HoldFirst

-----------------------------------------------------------------------------
(* The report. *)

\* A task leaves one file, and only the builds leave another.
FilesInv ==
    /\ succeeded \subseteq Files /\ failed \subseteq Files /\ succeeded \cap failed = {}
    /\ \A file \in succeeded : file[2] = "task"

\* Only failures are forwarded, and the report goes on when all of them are.
ForwardInv ==
    /\ forwarded \subseteq failed
    /\ pc = "running" => forwarded = {}
    /\ pc \in {"sending", "posting", "exiting", "exited"} /\ options.opscenter
           => forwarded = failed

\* The files are the events that were sent and those in the batches that are still to send.
SentInv ==
    /\ sent \in Seq(Files) /\ batches \in Seq(Seq(Files))
    /\ \A i \in DOMAIN batches : Fits(batches[i])
    /\ pc \in {"running", "polling"} => sent = <<>> /\ batches = <<>>
    /\ pc \in {"posting", "exiting", "exited"} => batches = <<>>
    /\ pc \in {"forwarding", "sending", "posting", "exiting", "exited"} /\ options.eventbridge =>
          /\ IsInjective(sent) /\ Range(sent) \subseteq succeeded \cup failed
          /\ Holds(batches, (succeeded \cup failed) \ Range(sent))

\* What the process says in the end.
AnswerInv == posted \in {"none", "SUCCESS", "FAILURE"} /\ exitCode \in {-1, 0, 1}

SendInv == FilesInv /\ ForwardInv /\ SentInv /\ AnswerInv

LEMMA SendInvInit == Init => SendInv
  <1> SUFFICES ASSUME Init PROVE SendInv
    OBVIOUS
  <1>1. FilesInv /\ ForwardInv /\ AnswerInv
    BY DEF Init, FilesInv, ForwardInv, AnswerInv
  <1>2. SentInv
    BY DEF Init, SentInv
  <1> QED
    BY <1>1, <1>2 DEF SendInv

\* Any listing of a finite set has every element once.
LEMMA Listing ==
  ASSUME NEW S, IsFiniteSet(S), NEW s \in SetToSeqs(S)
  PROVE  s \in Seq(S) /\ IsInjective(s) /\ Range(s) = S
  <1> DEFINE n == Cardinality(S)
  <1>1. n \in Nat
    BY FS_CardinalityType
  <1>2. s \in [1..n -> S] /\ \A i, j \in 1..n : i # j => s[i] # s[j]
    BY DEF SetToSeqs
  <1>3. s \in Injection(1..n, S) /\ IsInjective(s)
    BY <1>2 DEF Injection, IsInjective
  <1>4. Cardinality(1..n) = n
    BY <1>1, FS_Interval
  <1>5. s \in Surjection(1..n, S)
    BY <1>3, <1>4, FS_Injection
  <1>6. Range(s) = S
    BY <1>2, <1>5 DEF Surjection, Range
  <1>7. s \in Seq(S)
    BY <1>1, <1>2
  <1> QED
    BY <1>3, <1>6, <1>7

\* Two listings of disjoint sets, one after the other.
LEMMA TwoListings ==
  ASSUME NEW s \in Seq(Files), NEW t \in Seq(Files), IsInjective(s), IsInjective(t),
         Range(s) \cap Range(t) = {}
  PROVE  /\ s \o t \in Seq(Files) /\ IsInjective(s \o t)
         /\ Range(s \o t) = Range(s) \cup Range(t)
  <1> DEFINE u == s \o t
             m == Len(s)
             n == Len(t)
  <1>1. /\ m \in Nat /\ n \in Nat /\ u \in Seq(Files) /\ DOMAIN u = 1..m + n
        /\ DOMAIN s = 1..m /\ DOMAIN t = 1..n
        /\ \A i \in 1..m + n : u[i] = IF i <= m THEN s[i] ELSE t[i - m]
    BY ConcatProperties
  <1> HIDE DEF u, m, n
  <1>2. \A i \in DOMAIN u : \/ i \in DOMAIN s /\ u[i] = s[i]
                            \/ i - m \in DOMAIN t /\ u[i] = t[i - m]
    BY <1>1
  <1>3. ASSUME NEW i \in DOMAIN u, NEW j \in DOMAIN u, u[i] = u[j] PROVE i = j
    <2>1. i \in Int /\ j \in Int
      BY <1>1
    <2>2. CASE i \in DOMAIN s /\ j \in DOMAIN s /\ u[i] = s[i] /\ u[j] = s[j]
      BY <1>3, <2>2 DEF IsInjective
    <2>3. CASE i - m \in DOMAIN t /\ j - m \in DOMAIN t /\ u[i] = t[i - m] /\ u[j] = t[j - m]
      <3>1. i - m = j - m
        BY <1>3, <2>3 DEF IsInjective
      <3> QED
        BY <1>1, <2>1, <3>1
    <2>4. \A k \in DOMAIN s : s[k] \in Range(s)
      BY DEF Range
    <2>5. \A k \in DOMAIN t : t[k] \in Range(t)
      BY DEF Range
    <2> QED
      BY <1>2, <1>3, <2>2, <2>3, <2>4, <2>5
  <1>4. Range(u) = Range(s) \cup Range(t)
    BY RangeConcatenation DEF u
  <1> QED
    BY <1>1, <1>3, <1>4 DEF u, IsInjective

LEMMA FilesAreFinite == IsFiniteSet(Files)
  <1>1. IsFiniteSet({"task"}) /\ IsFiniteSet({"task"} \cup {"build"})
    BY FS_Singleton, FS_AddElement
  <1>2. {"task"} \cup {"build"} = {"task", "build"}
    OBVIOUS
  <1> QED
    BY <1>1, <1>2, FS_Product, TasksAssumption DEF Files

-----------------------------------------------------------------------------
(* The steps. *)

LEMMA SendRunEnds == IInv /\ SendInv /\ RunEnds => SendInv'
  <1> SUFFICES ASSUME IInv, SendInv, RunEnds PROVE SendInv'
    OBVIOUS
  <1>1. /\ pc = "running" /\ pc' = "polling"
        /\ UNCHANGED <<options, forwarded, batches, sent, posted, exitCode>>
    BY DEF RunEnds, outVars
  <1>2. PICK success \in SUBSET Reference :
            \E failure \in SUBSET (Reference \ success) :
                succeeded' = success \X {"task"} /\ failed' = failure \X {"task"}
    BY DEF RunEnds
  <1>3. PICK failure \in SUBSET (Reference \ success) :
            succeeded' = success \X {"task"} /\ failed' = failure \X {"task"}
    BY <1>2
  <1>4. Reference \subseteq Tasks
    BY DEF Reference
  <1>5. FilesInv'
    BY <1>3, <1>4 DEF FilesInv, Files
  <1>6. ForwardInv'
    BY <1>1 DEF ForwardInv, SendInv
  <1>7. SentInv' /\ AnswerInv'
    BY <1>1 DEF SendInv, SentInv, AnswerInv, Fits
  <1> QED
    BY <1>5, <1>6, <1>7 DEF SendInv

LEMMA SendReadBuild == IInv /\ SendInv /\ ReadBuild => SendInv'
  <1> SUFFICES ASSUME IInv, SendInv, ReadBuild PROVE SendInv'
    OBVIOUS
  <1>1. /\ pc = "polling" /\ polled \in Tasks /\ succeeded' = succeeded
        /\ UNCHANGED <<options, pc, forwarded, batches, sent, posted, exitCode>>
        /\ failed \subseteq failed' /\ failed' \subseteq failed \cup {<<polled, "build">>}
    BY TasksAssumption DEF ReadBuild, Polled, outVars, IInv, TypeInv
  <1>2. FilesInv'
    BY <1>1 DEF SendInv, FilesInv, Files
  <1>3. ForwardInv'
    BY <1>1 DEF SendInv, ForwardInv
  <1>4. SentInv' /\ AnswerInv'
    BY <1>1 DEF SendInv, SentInv, AnswerInv, Fits
  <1> QED
    BY <1>2, <1>3, <1>4 DEF SendInv

\* The batches are those of all the files, whatever the order in which they are listed.
LEMMA SendPollingDone == IInv /\ SendInv /\ PollingDone => SendInv'
  <1> SUFFICES ASSUME IInv, SendInv, PollingDone PROVE SendInv'
    OBVIOUS
  <1>1. /\ pc = "polling" /\ pc' = "forwarding"
        /\ UNCHANGED <<options, succeeded, failed, forwarded, sent, posted, exitCode>>
    BY DEF PollingDone, resultVars
  <1>2. sent = <<>> /\ Range(sent) = {} /\ IsInjective(sent)
    BY <1>1 DEF SendInv, SentInv, Range, IsInjective
  <1>3. FilesInv' /\ ForwardInv' /\ AnswerInv'
    BY <1>1 DEF SendInv, FilesInv, ForwardInv, AnswerInv
  <1>4. CASE ~options.eventbridge
    <2>1. batches' = <<>>
      BY <1>4 DEF PollingDone
    <2> QED
      BY <1>1, <1>2, <1>3, <1>4, <2>1 DEF SendInv, SentInv
  <1>5. CASE options.eventbridge
    <2>1. PICK s \in SetToSeqs(succeeded), f \in SetToSeqs(failed) :
              batches' = GenerateBatches(s \o f)
      BY <1>5 DEF PollingDone
    <2>2. /\ IsFiniteSet(succeeded) /\ IsFiniteSet(failed)
          /\ succeeded \subseteq Files /\ failed \subseteq Files /\ succeeded \cap failed = {}
      BY FilesAreFinite, FS_Subset DEF SendInv, FilesInv
    <2>3. /\ s \in Seq(Files) /\ IsInjective(s) /\ Range(s) = succeeded
          /\ f \in Seq(Files) /\ IsInjective(f) /\ Range(f) = failed
      BY <2>2, Listing, SeqMonotonic
    <2>4. /\ s \o f \in Seq(Files) /\ IsInjective(s \o f)
          /\ Range(s \o f) = succeeded \cup failed
      BY <2>2, <2>3, TwoListings
    <2>5. Open(batches', succeeded \cup failed)
      BY <2>1, <2>4, BatchesHoldEntries
    <2>6. /\ batches' \in Seq(Seq(Files)) /\ \A i \in DOMAIN batches' : Fits(batches'[i])
          /\ Holds(batches', (succeeded' \cup failed') \ Range(sent'))
      <3>1. (succeeded' \cup failed') \ Range(sent') = succeeded \cup failed
        BY <1>1, <1>2
      <3> QED
        BY <2>5, <3>1 DEF Open
    <2>7. SentInv'
      BY <1>1, <1>2, <2>6 DEF SentInv, Fits
    <2> QED
      BY <1>3, <2>7 DEF SendInv
  <1> QED
    BY <1>4, <1>5

\* The events of the first batch are sent: the others hold what is left.
LEMMA SendOne ==
  ASSUME NEW bs \in Seq(Seq(Files)), bs # <<>>, NEW done \in Seq(Files), NEW F,
         IsInjective(done), Range(done) \subseteq F, Holds(bs, F \ Range(done))
  PROVE  /\ IsInjective(done \o Head(bs)) /\ Range(done \o Head(bs)) \subseteq F
         /\ Holds(Tail(bs), F \ Range(done \o Head(bs)))
  <1> DEFINE n == Len(bs)
             first == bs[1]
             rest == Tail(bs)
  <1>1. /\ n \in Nat \ {0} /\ DOMAIN bs = 1..n /\ Head(bs) = first /\ first \in Seq(Files)
        /\ DOMAIN rest = 1..n - 1 /\ \A i \in 1..n - 1 : rest[i] = bs[i + 1]
    OBVIOUS
  <1>2. /\ 1 \in DOMAIN bs
        /\ \A i \in DOMAIN rest : i + 1 \in DOMAIN bs /\ i + 1 # 1 /\ rest[i] = bs[i + 1]
        /\ \A i, j \in DOMAIN rest : i # j => i + 1 # j + 1
        /\ \A i \in DOMAIN bs : i # 1 => \E j \in DOMAIN rest : i = j + 1
    <2>1. /\ n \in Nat \ {0} /\ DOMAIN bs = 1..n /\ DOMAIN rest = 1..n - 1
          /\ \A i \in 1..n - 1 : rest[i] = bs[i + 1]
      BY <1>1
    <2> HIDE DEF n, first, rest
    <2>2. \A i \in 1..n : i # 1 => i - 1 \in 1..n - 1 /\ i = (i - 1) + 1
      BY <2>1
    <2>3. \A i \in 1..n - 1 : i \in Int /\ i + 1 \in 1..n /\ i + 1 # 1
      BY <2>1
    <2>4. 1 \in 1..n
      BY <2>1
    <2>5. \A i, j \in 1..n - 1 : i # j => i + 1 # j + 1
      BY <2>3
    <2> QED
      BY <2>1, <2>2, <2>3, <2>4, <2>5
  <1> HIDE DEF n, first, rest
  <1>3. /\ IsInjective(first) /\ Range(first) \subseteq F \ Range(done)
        /\ \A i \in DOMAIN bs : i # 1 => Range(bs[i]) \cap Range(first) = {}
    BY <1>2 DEF Holds, first
  <1>4. /\ IsInjective(done \o first)
        /\ Range(done \o first) = Range(done) \cup Range(first)
    BY <1>1, <1>3, TwoListings
  <1>5. Holds(rest, F \ (Range(done) \cup Range(first)))
    <2>1. \A i \in DOMAIN rest : IsInjective(rest[i])
      BY <1>2 DEF Holds
    <2>2. \A i, j \in DOMAIN rest : i # j => Range(rest[i]) \cap Range(rest[j]) = {}
      BY <1>2 DEF Holds
    <2>3. \A i \in DOMAIN bs : Range(bs[i]) \subseteq F \ Range(done)
      BY DEF Holds
    <2>4. \A i \in DOMAIN rest : Range(rest[i]) \subseteq F \ (Range(done) \cup Range(first))
      BY <1>2, <1>3, <2>3
    <2>5. ASSUME NEW x \in F \ (Range(done) \cup Range(first))
          PROVE  \E j \in DOMAIN rest : x \in Range(rest[j])
      <3>1. PICK i \in DOMAIN bs : x \in Range(bs[i])
        BY DEF Holds
      <3>2. i # 1
        BY <3>1 DEF first
      <3> QED
        BY <1>2, <3>1, <3>2
    <2>6. UNION {Range(rest[i]) : i \in DOMAIN rest} = F \ (Range(done) \cup Range(first))
      BY <2>4, <2>5
    <2> QED
      BY <2>1, <2>2, <2>6 DEF Holds
  <1> QED
    BY <1>1, <1>3, <1>4, <1>5 DEF rest

LEMMA SendSendBatch == IInv /\ SendInv /\ SendBatch => SendInv'
  <1> SUFFICES ASSUME IInv, SendInv, SendBatch PROVE SendInv'
    OBVIOUS
  <1>1. /\ pc = "sending" /\ batches # <<>> /\ sent' = sent \o Head(batches)
        /\ batches' = Tail(batches)
        /\ UNCHANGED <<options, pc, succeeded, failed, forwarded, posted, exitCode>>
    BY DEF SendBatch, resultVars
  <1>2. /\ sent \in Seq(Files) /\ batches \in Seq(Seq(Files))
        /\ \A i \in DOMAIN batches : Fits(batches[i])
    BY DEF SendInv, SentInv
  <1>3. FilesInv' /\ ForwardInv' /\ AnswerInv'
    BY <1>1 DEF SendInv, FilesInv, ForwardInv, AnswerInv
  <1>4. sent' \in Seq(Files) /\ batches' \in Seq(Seq(Files))
    BY <1>1, <1>2
  <1>5. \A i \in DOMAIN batches' : Fits(batches'[i])
    <2>1. /\ DOMAIN batches = 1..Len(batches) /\ DOMAIN batches' = 1..Len(batches) - 1
          /\ Len(batches) \in Nat
          /\ \A i \in 1..Len(batches) - 1 : batches'[i] = batches[i + 1]
      BY <1>1, <1>2
    <2>2. \A i \in 1..Len(batches) - 1 : i + 1 \in 1..Len(batches)
      BY <2>1
    <2> QED
      BY <1>2, <2>1, <2>2
  <1>6. options.eventbridge =>
            /\ IsInjective(sent') /\ Range(sent') \subseteq succeeded \cup failed
            /\ Holds(batches', (succeeded \cup failed) \ Range(sent'))
    BY <1>1, <1>2, SendOne DEF SendInv, SentInv
  <1>7. SentInv'
    BY <1>1, <1>4, <1>5, <1>6 DEF SentInv, Fits
  <1> QED
    BY <1>3, <1>7 DEF SendInv

\* The other steps send nothing.
LEMMA SendOther ==
    IInv /\ SendInv
    /\ (ForwardFailure \/ ForwardingDone \/ SendingDone \/ PostResult \/ PollNext
            \/ CallRaises \/ Exit \/ (\E t \in SpokeTasks : BuildEnds(t)) \/ UNCHANGED vars)
    => SendInv'
  <1> SUFFICES ASSUME IInv, SendInv,
                      ForwardFailure \/ ForwardingDone \/ SendingDone \/ PostResult \/ PollNext
                          \/ CallRaises \/ Exit \/ (\E t \in SpokeTasks : BuildEnds(t))
                          \/ UNCHANGED vars
               PROVE  SendInv'
    OBVIOUS
  <1>1. UNCHANGED <<options, succeeded, failed, sent, batches>>
    BY DEF ForwardFailure, ForwardingDone, SendingDone, PostResult, PollNext, CallRaises, Exit,
           BuildEnds, vars, resultVars, pollVars, outVars
  <1>2. FilesInv'
    BY <1>1 DEF SendInv, FilesInv
  <1>3. ForwardInv'
    BY <1>1 DEF SendInv, ForwardInv, ForwardFailure, ForwardingDone, SendingDone, PostResult,
           PollNext, CallRaises, Exit, BuildEnds, vars, resultVars, pollVars, outVars
  <1>4. AnswerInv'
    BY DEF SendInv, AnswerInv, ForwardFailure, ForwardingDone, SendingDone, PostResult,
           PollNext, CallRaises, Exit, BuildEnds, vars, resultVars, pollVars, outVars
  <1>5. \/ pc' = pc
        \/ pc = "forwarding" /\ pc' = "sending"
        \/ pc = "sending" /\ batches = <<>> /\ pc' \in {"posting", "exiting"}
        \/ pc = "posting" /\ pc' = "exiting"
        \/ pc = "exiting" /\ pc' = "exited"
        \/ pc' = "crashed"
    BY DEF ForwardFailure, ForwardingDone, SendingDone, PostResult, PollNext, CallRaises, Exit,
           BuildEnds, vars
  <1>6. SentInv'
    <2>1. /\ sent' \in Seq(Files) /\ batches' \in Seq(Seq(Files))
          /\ \A i \in DOMAIN batches' : Fits(batches'[i])
      BY <1>1 DEF SendInv, SentInv, Fits
    <2>2. /\ pc' \in {"running", "polling"} => pc = pc'
          /\ pc' \in {"posting", "exiting", "exited"} =>
                 pc \in {"posting", "exiting", "exited"} \/ batches = <<>>
          /\ pc' \in {"forwarding", "sending", "posting", "exiting", "exited"} =>
                 pc \in {"forwarding", "sending", "posting", "exiting", "exited"}
      BY <1>5
    <2> QED
      BY <1>1, <2>1, <2>2 DEF SendInv, SentInv
  <1> QED
    BY <1>2, <1>3, <1>4, <1>6 DEF SendInv

LEMMA SendInvStep == IInv /\ SendInv /\ [Next]_vars => SendInv'
  BY SendRunEnds, SendReadBuild, SendPollingDone, SendSendBatch, SendOther
     DEF Next, RunTasks, Ended

\* run_tasks keeps what the theorems about the report need.
THEOREM SendInductive == Spec => [](IInv /\ SendInv)
  BY InvInit, InvStep, SendInvInit, SendInvStep, PTL DEF Spec

\* Every variable has its type: what is sent to EventBridge is a sequence of batches of files.
THEOREM TypeCorrect == Spec => []TypeOK
  <1>1. IInv /\ SendInv => TypeOK
    BY DEF IInv, TypeInv, SendInv, FilesInv, ForwardInv, SentInv, AnswerInv, TypeOK
  <1> QED
    BY SendInductive, <1>1, PTL

\* No batch exceeds what put_events takes, whatever the limits, the sizes of the events and
\* their order; one event that is too large is in a batch of its own (runner.py,
\* generate_batches).
THEOREM BatchesFitAlways == Spec => []BatchesFit
  <1>1. SendInv => BatchesFit
    BY DEF SendInv, SentInv, Fits, BatchesFit
  <1> QED
    BY SendInductive, <1>1, PTL

\* A process that has exited by itself has sent the event of every result once, those of the
\* builds too, and has forwarded every failure, whatever the number of the batches.
THEOREM EveryResultIsReportedAlways == Spec => []EveryResultIsReported
  <1>1. SendInv => EveryResultIsReported
    <2> SUFFICES ASSUME SendInv, pc = "exited"
                 PROVE  /\ options.eventbridge =>
                               IsInjective(sent) /\ Range(sent) = succeeded \cup failed
                        /\ options.opscenter => forwarded = failed
      BY DEF EveryResultIsReported
    <2>1. batches = <<>> /\ (options.opscenter => forwarded = failed)
      BY DEF SendInv, SentInv, ForwardInv
    <2>2. ASSUME options.eventbridge
          PROVE  IsInjective(sent) /\ Range(sent) = succeeded \cup failed
      <3>1. /\ IsInjective(sent) /\ Range(sent) \subseteq succeeded \cup failed
            /\ UNION {Range(batches[i]) : i \in DOMAIN batches}
                   = (succeeded \cup failed) \ Range(sent)
        BY <2>2 DEF SendInv, SentInv, Holds
      <3>2. DOMAIN batches = {}
        BY <2>1
      <3> QED
        BY <3>1, <3>2
    <2> QED
      BY <2>1, <2>2
  <1> QED
    BY SendInductive, <1>1, PTL
=============================================================================
