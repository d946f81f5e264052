-------------------------- MODULE DeploymentProofs --------------------------
(***************************************************************************)
(* Proofs about Deployment: the order in which the tasks of a reference    *)
(* run, what never runs together, the portfolios that are created, and     *)
(* what the tasks read of each other, for any manifests, plans, accounts   *)
(* and number of workers.                                                  *)
(***************************************************************************)
EXTENDS Deployment, TaskReferenceProofs

-----------------------------------------------------------------------------
(* Plans, and how many there are of something *)

\* A plan is a sequence with something in it.
LEMMA PlanIs ==
  ASSUME NEW p \in Plans
  PROVE  /\ Len(p.requests) \in Nat \ {0}
         /\ \A i : i \in DOMAIN p.requests <=> i \in 1..Len(p.requests)
  <1> DEFINE r == p.requests
  <1>1. r \in Seq(DOMAIN Requests) /\ r # <<>>
    BY PlansAssumption
  <1> HIDE DEF r
  <1>2. Len(r) \in Nat /\ DOMAIN r = 1..Len(r) /\ Len(r) # 0
    BY <1>1, EmptySeq, LenProperties
  <1> QED
    BY <1>2 DEF r

\* How many there are, when one is added or some are taken out.
LEMMA OneMore ==
  ASSUME NEW S, IsFiniteSet(S), NEW x, x \notin S, NEW T, T = S \cup {x},
         NEW most \in Nat, Cardinality(S) < most
  PROVE  IsFiniteSet(T) /\ Cardinality(T) <= most
  <1>1. IsFiniteSet(T) /\ Cardinality(T) = Cardinality(S) + 1
    BY FS_AddElement, Zenon
  <1>2. Cardinality(S) \in Nat
    BY FS_CardinalityType
  <1> QED
    BY <1>1, <1>2

LEMMA NoMore ==
  ASSUME NEW S, IsFiniteSet(S), NEW T, T \subseteq S, NEW most \in Nat, Cardinality(S) <= most
  PROVE  IsFiniteSet(T) /\ Cardinality(T) <= most
  <1>1. IsFiniteSet(T) /\ Cardinality(T) <= Cardinality(S)
    BY FS_Subset
  <1>2. Cardinality(S) \in Nat /\ Cardinality(T) \in Nat
    BY <1>1, FS_CardinalityType
  <1> QED
    BY <1>1, <1>2

LEMMA None ==
  ASSUME NEW S, S = {}, NEW most \in Nat
  PROVE  IsFiniteSet(S) /\ Cardinality(S) <= most
  <1>1. IsFiniteSet(S) /\ Cardinality(S) = 0
    BY FS_EmptySet, Zenon
  <1> QED
    BY <1>1

-----------------------------------------------------------------------------
(* What the run of a task does to the accounts *)

IsAccounts(a) == {"portfolios", "content", "store", "attachments"} \subseteq DOMAIN a

\* A function stays what it is, but for some arguments.
Stays(f, S, g) ==
    \A x : x \notin S => (x \in DOMAIN g <=> x \in DOMAIN f) /\ (x \in DOMAIN f => g[x] = f[x])

\* No portfolio is there that was not, and the items and the parameters are what they were, but
\* for those that a task may make. No policy is detached.
Kept(before, may, after) ==
    /\ IsAccounts(after)
    /\ after.portfolios \subseteq before.portfolios \cup may.portfolios
    /\ before.attachments \subseteq after.attachments
    /\ Stays(before.content, may.content, after.content)
    /\ Stays(before.store, may.store, after.store)

KeptBy(before, may, result) ==
    /\ Len(result.steps) \in Nat
    /\ \A n \in 1..Len(result.steps) : Kept(before, may, result.steps[n])
KeptByAll(before, may, results) == \A result \in results : KeptBy(before, may, result)

LEMMA DoneKeeps ==
  ASSUME NEW before, NEW may, NEW output
  PROVE  KeptByAll(before, may, Done(output))
  BY DEF KeptByAll, KeptBy, Done, Result

LEMMA RaisesKeep ==
  ASSUME NEW before, NEW may
  PROVE  KeptByAll(before, may, Raises)
  BY DEF KeptByAll, KeptBy, Raises, RaisesAfter

LEMMA DoesKeeps ==
  ASSUME NEW before, NEW may, NEW after, Kept(before, may, after), NEW output
  PROVE  KeptByAll(before, may, Does(after, output))
  BY DEF KeptByAll, KeptBy, Does, Result

\* Two calls, or one before the task raises.
LEMMA CallsKeep ==
  ASSUME NEW before, NEW may, NEW one, NEW two, Kept(before, may, one), Kept(before, may, two),
         NEW output
  PROVE  /\ KeptByAll(before, may, {Result(<<one, two>>, output)})
         /\ KeptByAll(before, may, RaisesAfter(<<one>>))
  <1>1. Len(<<one, two>>) = 2 /\ <<one, two>>[1] = one /\ <<one, two>>[2] = two
    OBVIOUS
  <1>2. \A n \in 1..2 : n = 1 \/ n = 2
    OBVIOUS
  <1>3. KeptBy(before, may, Result(<<one, two>>, output))
    BY <1>1, <1>2 DEF KeptBy, Result
  <1>4. KeptByAll(before, may, RaisesAfter(<<one>>))
    BY DEF KeptByAll, KeptBy, RaisesAfter
  <1> QED
    BY <1>3, <1>4 DEF KeptByAll

\* A run that may end in two ways, or in as many as there are things that it finds.
LEMMA EitherKeeps ==
  ASSUME NEW before, NEW may, NEW R, NEW Q, KeptByAll(before, may, R), KeptByAll(before, may, Q)
  PROVE  KeptByAll(before, may, R \cup Q)
  BY DEF KeptByAll

LEMMA AnyKeeps ==
  ASSUME NEW before, NEW may, NEW RR, \A R \in RR : KeptByAll(before, may, R)
  PROVE  KeptByAll(before, may, UNION RR)
  BY DEF KeptByAll

\* What is neither a portfolio nor an item nor a parameter, and what is one of those that may be.
LEMMA OthersKept ==
  ASSUME NEW a, IsAccounts(a), NEW may, NEW v
  PROVE  /\ Kept(a, may, [a EXCEPT !.principals = v]) /\ Kept(a, may, [a EXCEPT !.shares = v])
         /\ Kept(a, may, [a EXCEPT !.accepted = v]) /\ Kept(a, may, [a EXCEPT !.products = v])
         /\ Kept(a, may, [a EXCEPT !.stacks = v]) /\ Kept(a, may, [a EXCEPT !.policies = v])
         /\ Kept(a, may, [a EXCEPT !.units = v])
         /\ a.attachments \subseteq v => Kept(a, may, [a EXCEPT !.attachments = v])
         /\ v \subseteq a.portfolios \cup may.portfolios => Kept(a, may, [a EXCEPT !.portfolios = v])
         /\ Stays(a.content, may.content, v) => Kept(a, may, [a EXCEPT !.content = v])
         /\ Stays(a.store, may.store, v) => Kept(a, may, [a EXCEPT !.store = v])
  <1>1. Stays(a.content, may.content, a.content) /\ Stays(a.store, may.store, a.store)
    BY DEF Stays
  <1> QED
    BY <1>1 DEF Kept, IsAccounts

LEMMA KeptTwice ==
  ASSUME NEW a, NEW may, NEW b, Kept(a, may, b), NEW c, Kept(b, may, c)
  PROVE  Kept(a, may, c)
  BY DEF Kept, Stays

LEMMA OnlyThose ==
  ASSUME NEW f, NEW S, NEW x \in S, NEW v
  PROVE  Stays(f, S, Updated(f, [y \in {x} |-> v])) /\ Stays(f, S, Without(f, {x}))
  BY DEF Stays, Updated, Without

LEMMA StacksKeep ==
  ASSUME NEW a, IsAccounts(a), NEW may, NEW task, NEW name, NEW content
  PROVE  Kept(a, may, SetStack(a, task, name, content)) /\ Kept(a, may, DeleteStack(a, task, name))
  BY OthersKept DEF SetStack, DeleteStack

\* The tasks that look for something.
LEMMA LooksKeep ==
  ASSUME NEW a, NEW may, NEW outputs, NEW task
  PROVE  /\ KeptByAll(a, may, GetPortfolioLocal(a, task))
         /\ KeptByAll(a, may, GetPortfolioImported(a, task))
         /\ KeptByAll(a, may, GetAllProductsAndTheirVersions(a, outputs, task))
         /\ KeptByAll(a, may, DescribePortfolioShares(a, outputs, task))
         /\ KeptByAll(a, may, DescribeProvisioningParameters(a, task))
         /\ KeptByAll(a, may, GetSSMParameter(a, task))
         /\ KeptByAll(a, may, GetSSMParameterByPath(a, task))
         /\ KeptByAll(a, may, GetS3Object(a, task))
         /\ KeptByAll(a, may, Boto3(a, task))
  <1>1. \A S : KeptByAll(a, may, UNION {Done(id) : id \in S})
    BY DoneKeeps DEF KeptByAll
  <1>2. KeptByAll(a, may, GetPortfolioLocal(a, task)) /\ KeptByAll(a, may, GetPortfolioImported(a, task))
    BY <1>1, DoneKeeps, RaisesKeep DEF GetPortfolioLocal, GetPortfolioImported
  <1>3. /\ KeptByAll(a, may, GetAllProductsAndTheirVersions(a, outputs, task))
        /\ KeptByAll(a, may, DescribePortfolioShares(a, outputs, task))
        /\ KeptByAll(a, may, DescribeProvisioningParameters(a, task))
    BY DoneKeeps, RaisesKeep
       DEF GetAllProductsAndTheirVersions, DescribePortfolioShares, DescribeProvisioningParameters
  <1>4. KeptByAll(a, may, GetSSMParameter(a, task)) /\ KeptByAll(a, may, GetSSMParameterByPath(a, task))
    BY DoneKeeps DEF GetSSMParameter, GetSSMParameterByPath
  <1>5. KeptByAll(a, may, GetS3Object(a, task))
    BY DoneKeeps, RaisesKeep DEF GetS3Object
  <1>6. KeptByAll(a, may, Boto3(a, task))
    BY DoneKeeps, RaisesKeep DEF Boto3, KeptByAll
  <1> QED
    BY <1>2, <1>3, <1>4, <1>5, <1>6

\* The tasks of a portfolio that change who has it and what is in it.
LEMMA AssociationsKeep ==
  ASSUME NEW a, IsAccounts(a), NEW may, NEW outputs, NEW task
  PROVE  /\ KeptByAll(a, may, CreateAssociations(a, outputs, task))
         /\ KeptByAll(a, may, TerminateAssociations(a, outputs, task))
         /\ KeptByAll(a, may, ShareAndAcceptPortfolioForAccount(a, outputs, task))
         /\ KeptByAll(a, may, SharePortfolioViaOrgs(a, outputs, task))
  <1>1. \A v : Kept(a, may, [a EXCEPT !.principals = v]) /\ Kept(a, may, [a EXCEPT !.shares = v])
    BY OthersKept
  <1>2. \A v, w : Kept(a, may, [[a EXCEPT !.shares = v] EXCEPT !.accepted = w])
    <2> TAKE v, w
    <2> DEFINE b == [a EXCEPT !.shares = v]
    <2>1. Kept(a, may, b) /\ IsAccounts(b)
      BY <1>1 DEF Kept
    <2> HIDE DEF b
    <2>2. Kept(b, may, [b EXCEPT !.accepted = w])
      BY <2>1, OthersKept
    <2>3. Kept(a, may, [b EXCEPT !.accepted = w])
      BY <2>1, <2>2, KeptTwice
    <2> QED
      BY <2>3 DEF b
  <1>3. /\ KeptByAll(a, may, CreateAssociations(a, outputs, task))
        /\ KeptByAll(a, may, TerminateAssociations(a, outputs, task))
    BY <1>1, DoneKeeps, RaisesKeep, DoesKeeps DEF CreateAssociations, TerminateAssociations
  <1>4. KeptByAll(a, may, ShareAndAcceptPortfolioForAccount(a, outputs, task))
    BY <1>1, <1>2, DoneKeeps, DoesKeeps, CallsKeep DEF ShareAndAcceptPortfolioForAccount
  <1>5. KeptByAll(a, may, SharePortfolioViaOrgs(a, outputs, task))
    BY <1>1, DoneKeeps, DoesKeeps, CallsKeep, EitherKeeps DEF SharePortfolioViaOrgs
  <1> QED
    BY <1>3, <1>4, <1>5

LEMMA ProductsKeep ==
  ASSUME NEW a, IsAccounts(a), NEW may, NEW outputs, NEW task
  PROVE  /\ KeptByAll(a, may, CopyIntoSpokeLocalPortfolio(a, outputs, task))
         /\ KeptByAll(a, may, ImportIntoSpokeLocalPortfolio(a, outputs, task))
         /\ KeptByAll(a, may, DisassociateProductsFromPortfolio(a, outputs, task))
  <1>1. \A i, p : Kept(a, may, SetProducts(a, i, p))
    BY OthersKept DEF SetProducts
  <1>2. \A i, p, j, q : Kept(a, may, SetProducts(SetProducts(a, i, p), j, q))
    <2> TAKE i, p, j, q
    <2> DEFINE b == SetProducts(a, i, p)
    <2>1. Kept(a, may, b) /\ IsAccounts(b)
      BY <1>1 DEF Kept
    <2> HIDE DEF b
    <2>2. Kept(b, may, SetProducts(b, j, q))
      BY <2>1, OthersKept DEF SetProducts
    <2>3. Kept(a, may, SetProducts(b, j, q))
      BY <2>1, <2>2, KeptTwice
    <2> QED
      BY <2>3 DEF b
  <1>3. KeptByAll(a, may, CopyIntoSpokeLocalPortfolio(a, outputs, task))
    BY <1>1, <1>2, CallsKeep DEF CopyIntoSpokeLocalPortfolio
  <1>4. KeptByAll(a, may, ImportIntoSpokeLocalPortfolio(a, outputs, task))
    BY <1>1, DoesKeeps DEF ImportIntoSpokeLocalPortfolio
  <1>5. KeptByAll(a, may, DisassociateProductsFromPortfolio(a, outputs, task))
    BY <1>1, DoneKeeps, RaisesKeep, DoesKeeps DEF DisassociateProductsFromPortfolio
  <1> QED
    BY <1>3, <1>4, <1>5

LEMMA PortfolioStacksKeep ==
  ASSUME NEW a, IsAccounts(a), NEW may, NEW outputs, NEW task
  PROVE  /\ KeptByAll(a, may, CreateAssociationsForSpokeLocalPortfolio(a, outputs, task))
         /\ KeptByAll(a, may, CreateLaunchRoleConstraints(a, outputs, task))
         /\ KeptByAll(a, may, CreateUpdateResourceConstraints(a, outputs, task))
         /\ \A name : KeptByAll(a, may, TerminateStackOf(a, task, name))
  <1>1. \A name, content : /\ Kept(a, may, SetStack(a, task, name, content))
                           /\ Kept(a, may, DeleteStack(a, task, name))
    BY StacksKeep
  <1>2. KeptByAll(a, may, CreateAssociationsForSpokeLocalPortfolio(a, outputs, task))
    BY <1>1, RaisesKeep, DoesKeeps DEF CreateAssociationsForSpokeLocalPortfolio
  <1>3. KeptByAll(a, may, CreateLaunchRoleConstraints(a, outputs, task))
    BY <1>1, RaisesKeep, DoesKeeps DEF CreateLaunchRoleConstraints
  <1>4. KeptByAll(a, may, CreateUpdateResourceConstraints(a, outputs, task))
    BY <1>1, RaisesKeep, DoesKeeps DEF CreateUpdateResourceConstraints
  <1>5. \A name : KeptByAll(a, may, TerminateStackOf(a, task, name))
    BY <1>1, DoesKeeps DEF TerminateStackOf
  <1> QED
    BY <1>2, <1>3, <1>4, <1>5

\* The portfolio that a task creates if it has found none.
NewPortfolio(a, task) ==
    <<task.account_id, task.region, task.portfolio,
      Cardinality(Named(a, task.account_id, task.region, task.portfolio)) + 1>>
Creates(a, seen, task) ==
    IF task.section = "spoke-local-portfolios" /\ seen = {} THEN {NewPortfolio(a, task)} ELSE {}

\* All that the run of a task may make or delete: that portfolio, its item, its parameter.
Brings(task) == IF task.section \in {"stacks", "launches", "workspaces"} THEN {RefOf(task)} ELSE {}
Writes(task) == IF task.section = "ssm_outputs" THEN {task.name} ELSE {}
May(a, seen, task) ==
    [portfolios |-> Creates(a, seen, task), content |-> Brings(task), store |-> Writes(task)]

LEMMA SpokeLocalKeeps ==
  ASSUME NEW a, IsAccounts(a), NEW outputs, NEW seen, NEW task
  PROVE  /\ task.section = "spoke-local-portfolios" =>
               KeptByAll(a, May(a, seen, task), CreateSpokeLocalPortfolio(a, outputs, seen, task))
         /\ \A may : KeptByAll(a, may, TerminateSpokeLocalPortfolio(a, task))
  <1>1. ASSUME task.section = "spoke-local-portfolios"
        PROVE  KeptByAll(a, May(a, seen, task), CreateSpokeLocalPortfolio(a, outputs, seen, task))
    <2> DEFINE may == May(a, seen, task)
    <2>1. CASE seen # {}
      <3>1. CreateSpokeLocalPortfolio(a, outputs, seen, task) = UNION {Done(id) : id \in seen}
        BY <2>1 DEF CreateSpokeLocalPortfolio
      <3> HIDE DEF may
      <3>2. KeptByAll(a, may, UNION {Done(id) : id \in seen})
        BY DoneKeeps DEF KeptByAll
      <3> QED
        BY <3>1, <3>2 DEF may
    <2>2. CASE seen = {}
      <3> DEFINE v == a.portfolios \cup {NewPortfolio(a, task)}
      <3>1. may.portfolios = {NewPortfolio(a, task)}
        BY <1>1, <2>2 DEF Creates, May
      <3> HIDE DEF may
      <3>2. Kept(a, may, [a EXCEPT !.portfolios = v])
        <4>1. v \subseteq a.portfolios \cup may.portfolios
          BY <3>1
        <4> HIDE DEF v
        <4> QED
          BY <4>1, OthersKept
      <3>3. KeptByAll(a, may, CreatePortfolio(a, task))
        BY <3>2, DoesKeeps DEF CreatePortfolio, NewPortfolio
      <3>4. KeptByAll(a, may, CreateSpokeLocalPortfolio(a, outputs, seen, task))
        BY <2>2, <3>3, DoneKeeps, RaisesKeep DEF CreateSpokeLocalPortfolio
      <3> QED
        BY <3>4 DEF may
    <2> QED
      BY <2>1, <2>2
  <1>2. ASSUME NEW may PROVE KeptByAll(a, may, TerminateSpokeLocalPortfolio(a, task))
    <2> DEFINE Gone(id) == IF InUse(a, id) THEN Raises
                           ELSE Does([a EXCEPT !.portfolios = @ \ {id}], Empty)
    <2>1. ASSUME NEW id PROVE KeptByAll(a, may, Gone(id))
      <3>1. a.portfolios \ {id} \subseteq a.portfolios \cup may.portfolios
        OBVIOUS
      <3>2. Kept(a, may, [a EXCEPT !.portfolios = a.portfolios \ {id}])
        BY <3>1, OthersKept
      <3> QED
        BY <3>2, RaisesKeep, DoesKeeps
    <2> HIDE DEF Gone
    <2>2. \A S : KeptByAll(a, may, UNION {Gone(id) : id \in S})
      BY <2>1 DEF KeptByAll
    <2> QED
      BY <2>2, DoneKeeps DEF TerminateSpokeLocalPortfolio, Gone
  <1> QED
    BY <1>1, <1>2

LEMMA PortfolioTaskKeeps ==
  ASSUME NEW a, IsAccounts(a), NEW outputs, NEW seen, NEW task,
         task.section \in PortfolioSections
  PROVE  KeptByAll(a, May(a, seen, task), RunPortfolioTask(a, outputs, seen, task))
  <1> DEFINE may == May(a, seen, task)
  <1>1. /\ KeptByAll(a, may, GetPortfolioLocal(a, task))
        /\ KeptByAll(a, may, GetPortfolioImported(a, task))
        /\ KeptByAll(a, may, GetAllProductsAndTheirVersions(a, outputs, task))
        /\ KeptByAll(a, may, DescribePortfolioShares(a, outputs, task))
    BY LooksKeep
  <1>2. /\ KeptByAll(a, may, ShareAndAcceptPortfolioForAccount(a, outputs, task))
        /\ KeptByAll(a, may, SharePortfolioViaOrgs(a, outputs, task))
    BY AssociationsKeep
  <1>3. /\ KeptByAll(a, may, CopyIntoSpokeLocalPortfolio(a, outputs, task))
        /\ KeptByAll(a, may, ImportIntoSpokeLocalPortfolio(a, outputs, task))
        /\ KeptByAll(a, may, DisassociateProductsFromPortfolio(a, outputs, task))
    BY ProductsKeep
  <1> DEFINE Last5 == {"spoke-local-portfolios", "portfolio-puppet-role-association",
                       "portfolio-associations", "portfolio-constraints-launch",
                       "portfolio-constraints-resource_update"}
  <1>4. ASSUME task.section \in Last5 PROVE KeptByAll(a, may, RunTerminated(a, outputs, task))
    <2>1. CASE task.section = "spoke-local-portfolios"
      BY <2>1, SpokeLocalKeeps DEF RunTerminated
    <2>2. CASE task.section = "portfolio-puppet-role-association"
      BY <2>2, AssociationsKeep DEF RunTerminated
    <2>3. CASE task.section \in {"portfolio-associations", "portfolio-constraints-launch",
                                 "portfolio-constraints-resource_update"}
      BY <2>3, PortfolioStacksKeep DEF RunTerminated
    <2> QED
      BY <1>4, <2>1, <2>2, <2>3
  <1>5. ASSUME task.section \in Last5 PROVE KeptByAll(a, may, RunProvisioned(a, outputs, seen, task))
    <2>1. CASE task.section = "spoke-local-portfolios"
      BY <2>1, SpokeLocalKeeps DEF RunProvisioned
    <2>2. CASE task.section = "portfolio-puppet-role-association"
      BY <2>2, AssociationsKeep DEF RunProvisioned
    <2>3. CASE task.section \in {"portfolio-associations", "portfolio-constraints-launch",
                                 "portfolio-constraints-resource_update"}
      BY <2>3, PortfolioStacksKeep DEF RunProvisioned
    <2> QED
      BY <1>5, <2>1, <2>2, <2>3
  <1>6. task.section \in Last5 =>
            RunPortfolioTask(a, outputs, seen, task) =
                IF task.status = "terminated" THEN RunTerminated(a, outputs, task)
                ELSE RunProvisioned(a, outputs, seen, task)
    BY DEF RunPortfolioTask
  <1> HIDE DEF may
  <1>7. task.section \in Last5 => KeptByAll(a, may, RunPortfolioTask(a, outputs, seen, task))
    BY <1>4, <1>5, <1>6
  <1>8. ASSUME task.section \notin Last5
        PROVE  KeptByAll(a, may, RunPortfolioTask(a, outputs, seen, task))
    <2> DEFINE run == RunPortfolioTask(a, outputs, seen, task)
    <2>1. \/ run = GetPortfolioLocal(a, task)
          \/ run = GetPortfolioImported(a, task)
          \/ run = GetAllProductsAndTheirVersions(a, outputs, task)
          \/ run = DescribePortfolioShares(a, outputs, task)
          \/ run = ShareAndAcceptPortfolioForAccount(a, outputs, task)
          \/ run = SharePortfolioViaOrgs(a, outputs, task)
          \/ run = CopyIntoSpokeLocalPortfolio(a, outputs, task)
          \/ run = ImportIntoSpokeLocalPortfolio(a, outputs, task)
          \/ run = DisassociateProductsFromPortfolio(a, outputs, task)
      BY <1>8 DEF RunPortfolioTask, PortfolioSections
    <2> HIDE DEF run
    <2> QED
      BY <1>1, <1>2, <1>3, <2>1, Zenon DEF run
  <1> QED
    BY <1>7, <1>8 DEF may

\* The tasks that have nothing to do with portfolios.
LEMMA ParameterTaskKeeps ==
  ASSUME NEW a, IsAccounts(a), NEW may, NEW task, task.section \in ParameterSections,
         Writes(task) \subseteq may.store
  PROVE  KeptByAll(a, may, RunParameterTask(a, task))
  <1>1. ASSUME task.section = "ssm_outputs"
        PROVE  KeptByAll(a, may, SSMOutputs(a, task)) /\ KeptByAll(a, may, TerminateSSMOutputs(a, task))
    <2>1. task.name \in may.store
      BY <1>1 DEF Writes
    <2>2. \A v : /\ Stays(a.store, may.store, Updated(a.store, [n \in {task.name} |-> v]))
                 /\ Stays(a.store, may.store, Without(a.store, {task.name}))
      BY <2>1, OnlyThose
    <2>3. \A v : Kept(a, may, [a EXCEPT !.store = Updated(a.store, [n \in {task.name} |-> v])])
      BY <2>2, OthersKept
    <2>4. Kept(a, may, [a EXCEPT !.store = Without(a.store, {task.name})])
      BY <2>2, OthersKept
    <2> QED
      BY <2>3, <2>4, DoesKeeps DEF SSMOutputs, TerminateSSMOutputs
  <1>3. /\ KeptByAll(a, may, GetSSMParameter(a, task))
        /\ KeptByAll(a, may, GetSSMParameterByPath(a, task))
        /\ KeptByAll(a, may, GetS3Object(a, task))
        /\ KeptByAll(a, may, Boto3(a, task))
        /\ KeptByAll(a, may, DescribeProvisioningParameters(a, task))
    BY LooksKeep
  <1> QED
    BY <1>1, <1>3 DEF RunParameterTask, ParameterSections

LEMMA OrganisationTaskKeeps ==
  ASSUME NEW a, IsAccounts(a), NEW may, NEW task
  PROVE  KeptByAll(a, may, RunOrganisationTask(a, task))
  <1>1. \A v : /\ Kept(a, may, [a EXCEPT !.policies = v])
               /\ Kept(a, may, [a EXCEPT !.attachments = a.attachments \cup {v}])
               /\ Kept(a, may, [a EXCEPT !.units = v])
    <2>1. \A v : a.attachments \subseteq a.attachments \cup {v}
      OBVIOUS
    <2> QED
      BY <2>1, OthersKept
  <1>2. /\ KeptByAll(a, may, GetOrCreatePolicy(a, task))
        /\ KeptByAll(a, may, AttachPolicy(a, task))
    BY <1>1, DoneKeeps, DoesKeeps DEF GetOrCreatePolicy, AttachPolicy
  <1>3. KeptByAll(a, may, GetOrCreateOrganizationalUnit(a, task))
    BY <1>1, DoneKeeps, RaisesKeep, DoesKeeps DEF GetOrCreateOrganizationalUnit
  <1> QED
    BY <1>2, <1>3 DEF RunOrganisationTask

LEMMA ItemKeeps ==
  ASSUME NEW a, IsAccounts(a), NEW may, NEW outputs, NEW task, NEW values, NEW mark,
         task.section \in ItemSections, Brings(task) \subseteq may.content
  PROVE  KeptByAll(a, may, RunItem(a, outputs, task, values, mark))
  <1>1. ASSUME task.section \in {"stacks", "launches", "workspaces"}
        PROVE  KeptByAll(a, may, Bring(a, task, mark)) /\ KeptByAll(a, may, TerminateItem(a, task))
    <2> DEFINE ref == RefOf(task)
    <2>1. ref \in may.content
      BY <1>1 DEF Brings
    <2> HIDE DEF ref
    <2>2. /\ Stays(a.content, may.content, Updated(a.content, [i \in {ref} |-> mark]))
          /\ Stays(a.content, may.content, Without(a.content, {ref}))
      BY <2>1 DEF Stays, Updated, Without
    <2>3. Kept(a, may, [a EXCEPT !.content = Updated(a.content, [i \in {ref} |-> mark])])
      BY <2>2, OthersKept
    <2>4. Kept(a, may, [a EXCEPT !.content = Without(a.content, {ref})])
      BY <2>2, OthersKept
    <2> QED
      BY <2>3, <2>4, DoesKeeps DEF Bring, TerminateItem, ref
  <1>2. CASE task.section \in {"stacks", "launches", "workspaces"}
    <2>1. /\ KeptByAll(a, may, ProvisionStack(a, task, values, mark))
          /\ KeptByAll(a, may, ProvisionProduct(a, outputs, task, values, mark))
      BY <1>1, <1>2, RaisesKeep DEF ProvisionStack, ProvisionProduct
    <2>2. /\ KeptByAll(a, may, ProvisionWorkspace(a, task, values, mark))
          /\ KeptByAll(a, may, TerminateWorkspace(a, task, values))
      BY <1>1, <1>2, DoneKeeps, RaisesKeep, EitherKeeps DEF ProvisionWorkspace, TerminateWorkspace
    <2>3. task.section \notin ActionSections
      BY <1>2 DEF ActionSections
    <2> QED
      BY <1>1, <1>2, <2>1, <2>2, <2>3 DEF RunItem
  <1>3. CASE task.section \in ActionSections
    <2>1. KeptByAll(a, may, RunAction(task, values))
      BY DoneKeeps, RaisesKeep, EitherKeeps DEF RunAction
    <2>2. task.section \notin {"stacks", "launches", "workspaces"}
      BY <1>3 DEF ActionSections
    <2> QED
      BY <1>3, <2>1, <2>2 DEF RunItem
  <1> QED
    BY <1>2, <1>3 DEF ItemSections

LEMMA ToolTaskKeeps ==
  ASSUME NEW a, IsAccounts(a), NEW may, NEW task, task.section \in ToolSections
  PROVE  KeptByAll(a, may, RunToolTask(a, task))
  <1>1. task.section \in MakerSections => KeptByAll(a, may, RunToolTask(a, task))
    <2>1. \A name : KeptByAll(a, may, Does(SetStack(a, task, name, {}), Empty))
      BY StacksKeep, DoesKeeps
    <2>2. task.section \in MakerSections
          => RunToolTask(a, task) = Does(SetStack(a, task, <<task.section>>, {}), Empty)
      BY DEF RunToolTask, MakerSections, StackMakers
    <2> QED
      BY <2>1, <2>2, Zenon
  <1>2. \A name : KeptByAll(a, may, Does(DeleteStack(a, task, name), Empty))
    BY StacksKeep, DoesKeeps
  <1>3. KeptByAll(a, may, Done(Empty)) /\ KeptByAll(a, may, Done(Empty) \cup Raises)
    BY DoneKeeps, RaisesKeep, EitherKeeps
  <1>4. task.section \notin MakerSections => KeptByAll(a, may, RunToolTask(a, task))
    BY <1>2, <1>3 DEF RunToolTask, ToolSections
  <1> QED
    BY <1>1, <1>4

LEMMA RunKeeps ==
  ASSUME NEW t, IsAccounts(aws), ~FactoryRaises(tasks[t])
  PROVE  KeptByAll(aws, May(aws, found[t], tasks[t]), Run(t))
  <1> DEFINE task == tasks[t]
             values == ValuesOf(ParametersOf(task), task, manifest.mappings, out)
  <1>1. task.section \in MadeSections
    BY DEF FactoryRaises
  <1>2. CASE ~CanRead(task)
    BY <1>2, RaisesKeep DEF Run
  <1>3. CASE CanRead(task) /\ task.section \in PortfolioSections
    BY <1>3, PortfolioTaskKeeps DEF Run
  <1>4. CASE CanRead(task) /\ task.section \notin PortfolioSections
    <2>1. Run(t) = IF task.section \in ParameterSections THEN RunParameterTask(aws, task)
                   ELSE IF task.section \in OrganisationSections THEN RunOrganisationTask(aws, task)
                   ELSE IF task.section \in ItemSections THEN RunItem(aws, out, task, values, Mark)
                   ELSE RunToolTask(aws, task)
      BY <1>4 DEF Run
    <2> HIDE DEF values
    <2>2. task.section \notin ParameterSections \cup OrganisationSections \cup ItemSections
          => task.section \in ToolSections
      BY <1>1, <1>4 DEF MadeSections
    <2>3. /\ Writes(task) \subseteq May(aws, found[t], task).store
          /\ Brings(task) \subseteq May(aws, found[t], task).content
      BY DEF May
    <2> HIDE DEF task
    <2> QED
      BY <2>1, <2>2, <2>3, ParameterTaskKeeps, OrganisationTaskKeeps, ItemKeeps, ToolTaskKeeps DEF task
  <1> QED
    BY <1>2, <1>3, <1>4

-----------------------------------------------------------------------------
(* How far a deployment is *)

\* The tasks that have a worker.
Busy == Running \cup Lost

\* The tasks begin when their reference is there, and at most as many as there are workers.
\* Those that have a worker are as many as the workers that are not free.
FlowInv ==
    /\ stage = "expanding" => DOMAIN status = {}
    /\ stage = "refused" => \A t \in DOMAIN status : status[t] = "pending"
    /\ IsFiniteSet(Busy)

\* A task has begun after the tasks of its reference that it depends on completed.
OrderInv ==
    \A t \in DOMAIN status : status[t] # "pending" =>
        \A d \in tasks[t].deps \cap DOMAIN status : status[d] = "completed"

\* Tasks that are under way, or that have kept what they locked, have no resource in common.
ResourceInv ==
    \A t, u \in Busy :
        t # u => tasks[t].resources_required \cap tasks[u].resources_required = {}

\* A worker is not lost while it runs a task.
MadeInv == \A t \in Running : ~FactoryRaises(tasks[t])

IInv == TypeOK /\ FlowInv /\ OrderInv /\ ResourceInv /\ MadeInv

\* The turns of a plan.
LEMMA TurnIs ==
  ASSUME TypeOK
  PROVE  /\ Len(plan.requests) \in Nat /\ turn \in 1..Len(plan.requests)
         /\ \A i \in 1..Len(plan.requests) : i \in DOMAIN plan.requests
         /\ turn \in 1..turn
  <1>1. plan \in Plans /\ turn \in DOMAIN plan.requests
    BY DEF TypeOK
  <1> QED
    BY <1>1, PlanIs

\* The deployment that is under way is one of those that are requested.
LEMMA RequestIs ==
  ASSUME TypeOK
  PROVE  plan.requests[turn] \in DOMAIN Requests
  <1>1. plan.requests \in Seq(DOMAIN Requests) /\ turn \in DOMAIN plan.requests
    BY PlansAssumption DEF TypeOK
  <1> QED
    BY <1>1

LEMMA InvInit == Init => IInv
  <1> SUFFICES ASSUME Init PROVE IInv
    OBVIOUS
  <1>1. /\ plan \in Plans /\ turn = 1 /\ stage = "expanding" /\ refusal = ""
        /\ DOMAIN status = {} /\ DOMAIN found = {} /\ DOMAIN out = {} /\ faults = {}
    BY EmptyIs DEF Init
  <1>2. 1 \in DOMAIN plan.requests
    <2>1. /\ Len(plan.requests) \in Nat \ {0}
          /\ \A i : i \in DOMAIN plan.requests <=> i \in 1..Len(plan.requests)
      BY <1>1, PlanIs, Zenon
    <2> QED
      BY <2>1
  <1>3. Running = {} /\ Busy = {} /\ InStatus("completed") = {}
    BY <1>1 DEF Running, Lost, InStatus, Busy
  <1>4. IsFiniteSet(Busy) /\ Cardinality(Busy) <= Workers
    BY <1>3, None, WorkersAssumption
  <1>5. TypeOK
    BY <1>1, <1>2, <1>3, <1>4 DEF TypeOK, Busy
  <1> QED
    BY <1>1, <1>3, <1>4, <1>5 DEF IInv, FlowInv, OrderInv, ResourceInv, MadeInv

\* Which of the sets of tasks a step changes, when one task gets another status.
LEMMA StatusStep ==
  ASSUME NEW t \in DOMAIN status, NEW s, status' = [status EXCEPT ![t] = s]
  PROVE  /\ DOMAIN status' = DOMAIN status /\ status'[t] = s
         /\ \A u \in DOMAIN status \ {t} : status'[u] = status[u]
         /\ \A v : InStatus(v)' = IF v = s THEN InStatus(v) \cup {t} ELSE InStatus(v) \ {t}
  BY DEF InStatus

LEMMA GenerateStep == IInv /\ Generate => IInv'
  <1> SUFFICES ASSUME IInv, Generate PROVE IInv'
    OBVIOUS
  <1>1. /\ stage = "expanding" /\ stage' = IF refusal' = "" THEN "deploying" ELSE "refused"
        /\ status' = [t \in TasksToRun |-> "pending"]
        /\ UNCHANGED <<plan, turn, found, out, faults>>
    BY DEF Generate
  <1>2. TasksToRun \subseteq DOMAIN tasks'
    BY DEF TasksToRun
  <1>3. Running = {} /\ Busy = {} /\ InStatus("completed") = {}
    BY <1>1 DEF IInv, FlowInv, Running, Lost, InStatus, Busy
  <1>4. /\ DOMAIN status' = TasksToRun /\ \A t \in DOMAIN status' : status'[t] = "pending"
        /\ Running' = {} /\ Busy' = {} /\ InStatus("completed")' = {}
    BY <1>1 DEF Running, Lost, InStatus, Busy
  <1>5. IsFiniteSet(Busy') /\ Cardinality(Busy') <= Workers
    BY <1>4, None, WorkersAssumption
  <1>6. TypeOK'
    BY <1>1, <1>2, <1>3, <1>4, <1>5 DEF IInv, TypeOK, Busy
  <1>7. FlowInv'
    BY <1>1, <1>4, <1>5 DEF FlowInv
  <1> QED
    BY <1>4, <1>6, <1>7 DEF IInv, OrderInv, ResourceInv, MadeInv

\* A task that begins: what it depends on completed, and nobody has what it locks.
LEMMA BeginStep ==
  ASSUME IInv, NEW t \in DOMAIN status, Begin(t)
  PROVE  IInv'
  <1> DEFINE s == IF FactoryRaises(tasks[t]) THEN "lost" ELSE "running"
  <1>1. /\ stage = "deploying" /\ status[t] = "pending"
        /\ \A d \in tasks[t].deps \cap DOMAIN status : status[d] = "completed"
        /\ \A u \in Running \cup Lost : tasks[t].resources_required \cap tasks[u].resources_required = {}
        /\ Cardinality(Running \cup Lost) < Workers
        /\ status' = [status EXCEPT ![t] = s]
        /\ found' = Updated(found, [u \in {t} |-> LooksFor(tasks[t])])
        /\ UNCHANGED <<plan, turn, stage, files, out, faults>>
    BY DEF Begin, MayBegin
  <1>2. s \in {"lost", "running"}
    OBVIOUS
  <1> HIDE DEF s
  <1>3. /\ DOMAIN status' = DOMAIN status /\ status'[t] = s
        /\ \A u \in DOMAIN status \ {t} : status'[u] = status[u]
        /\ \A v : InStatus(v)' = IF v = s THEN InStatus(v) \cup {t} ELSE InStatus(v) \ {t}
    BY <1>1, StatusStep
  <1>4. t \notin Busy /\ t \notin InStatus("completed")
    BY <1>1 DEF Running, Lost, InStatus, Busy
  <1>5. Busy' = Busy \cup {t} /\ InStatus("completed")' = InStatus("completed")
    BY <1>2, <1>3, <1>4 DEF Running, Lost, Busy
  <1>6. IsFiniteSet(Busy') /\ Cardinality(Busy') <= Workers
    <2>1. IsFiniteSet(Busy) /\ Cardinality(Busy) < Workers /\ Workers \in Nat
      BY <1>1, WorkersAssumption DEF IInv, FlowInv, Busy
    <2> QED
      BY <1>4, <1>5, <2>1, OneMore
  <1>7. DOMAIN found' = Busy'
    <2>1. DOMAIN found = Busy
      BY DEF IInv, TypeOK, Busy
    <2>2. DOMAIN found' = DOMAIN found \cup {t}
      BY <1>1 DEF Updated
    <2> QED
      BY <1>5, <2>1, <2>2, Zenon
  <1>8. TypeOK'
    BY <1>1, <1>2, <1>3, <1>5, <1>6, <1>7 DEF IInv, TypeOK, files, Busy
  <1>9. FlowInv'
    BY <1>1, <1>6 DEF FlowInv
  <1>10. OrderInv'
    BY <1>1, <1>3 DEF IInv, OrderInv, files
  <1>11. ResourceInv'
    BY <1>1, <1>5 DEF IInv, ResourceInv, files, Busy
  <1>12. MadeInv'
    <2>1. \A u \in Running' : u \in Running \/ (u = t /\ s = "running")
      BY <1>3 DEF Running
    <2> QED
      BY <1>1, <2>1 DEF IInv, MadeInv, files, s
  <1> QED
    BY <1>8, <1>9, <1>10, <1>11, <1>12 DEF IInv

\* A task that ends gives its worker and what it locked back. Nothing that began waits for it.
LEMMA LeaveStep ==
  ASSUME IInv, NEW t \in Running, NEW s \in {"completed", "failed"},
         status' = [status EXCEPT ![t] = s], found' = Without(found, {t}),
         UNCHANGED <<plan, turn, stage, files>>,
         faults' \subseteq 1..turn, DOMAIN out' = InStatus("completed")'
  PROVE  IInv'
  <1>0. t \in DOMAIN status /\ status[t] = "running"
    BY DEF Running, InStatus
  <1>1. /\ DOMAIN status' = DOMAIN status /\ status'[t] = s
        /\ \A u \in DOMAIN status \ {t} : status'[u] = status[u]
        /\ \A v : InStatus(v)' = IF v = s THEN InStatus(v) \cup {t} ELSE InStatus(v) \ {t}
    BY <1>0, StatusStep
  <1>2. t \notin Lost
    BY <1>0 DEF Lost, InStatus
  <1>3. Running' = Running \ {t} /\ Busy' = Busy \ {t}
    BY <1>1, <1>2 DEF Running, Lost, Busy
  <1>4. IsFiniteSet(Busy') /\ Cardinality(Busy') <= Workers
    <2>1. IsFiniteSet(Busy) /\ Cardinality(Busy) <= Workers /\ Workers \in Nat
      BY WorkersAssumption DEF IInv, TypeOK, FlowInv, Busy
    <2>2. Busy' \subseteq Busy
      BY <1>3
    <2> QED
      BY <2>1, <2>2, NoMore
  <1>5. DOMAIN found' = Busy'
    <2>1. DOMAIN found = Busy
      BY DEF IInv, TypeOK, Busy
    <2>2. DOMAIN found' = DOMAIN found \ {t}
      BY WithoutIs
    <2> QED
      BY <1>3, <2>1, <2>2, Zenon
  <1>6. TypeOK'
    BY <1>0, <1>1, <1>4, <1>5 DEF IInv, TypeOK, files, Busy
  <1>7. FlowInv'
    BY <1>0, <1>1, <1>4 DEF IInv, FlowInv
  <1>8. OrderInv'
    <2> SUFFICES ASSUME NEW u \in DOMAIN status, status'[u] # "pending",
                        NEW d \in tasks[u].deps \cap DOMAIN status
                 PROVE  status'[d] = "completed"
      BY <1>1 DEF OrderInv, files
    <2>1. status[u] # "pending"
      BY <1>0, <1>1
    <2>2. status[d] = "completed"
      BY <2>1 DEF IInv, OrderInv
    <2> QED
      BY <1>0, <1>1, <2>2
  <1>9. ResourceInv' /\ MadeInv'
    BY <1>3 DEF IInv, ResourceInv, MadeInv, files
  <1> QED
    BY <1>6, <1>7, <1>8, <1>9 DEF IInv

LEMMA EndStep ==
  ASSUME IInv, NEW t \in DOMAIN status, End(t)
  PROVE  IInv'
  <1>1. PICK result \in Run(t) :
          /\ Leave(t, result, Len(result.steps), IF result.raised THEN "failed" ELSE "completed")
          /\ out' = IF result.raised THEN out
                    ELSE Updated(out, [u \in {t} |-> result.output])
    BY DEF End
  <1> DEFINE s == IF result.raised THEN "failed" ELSE "completed"
  <1>2. /\ t \in Running /\ UNCHANGED <<plan, turn, stage, files, faults>>
        /\ status' = [status EXCEPT ![t] = s] /\ found' = Without(found, {t})
    BY <1>1 DEF End, Leave
  <1>3. s \in {"completed", "failed"} /\ (s = "completed" <=> ~result.raised)
    OBVIOUS
  <1>4. status[t] = "running" /\ t \notin InStatus("completed")
    BY <1>2 DEF Running, InStatus
  <1> HIDE DEF s
  <1>5. InStatus("completed")' = IF s = "completed" THEN InStatus("completed") \cup {t}
                                 ELSE InStatus("completed")
    BY <1>2, <1>3, <1>4 DEF InStatus
  <1>6. DOMAIN out' = InStatus("completed")'
    <2>1. DOMAIN out = InStatus("completed")
      BY DEF IInv, TypeOK
    <2>2. CASE result.raised
      BY <1>1, <1>3, <1>5, <2>1, <2>2, Zenon DEF s
    <2>3. CASE ~result.raised
      <3>1. DOMAIN out' = DOMAIN out \cup {t}
        BY <1>1, <2>3, UpdatedIs
      <3> QED
        BY <1>3, <1>5, <2>1, <2>3, <3>1, Zenon
    <2> QED
      BY <2>2, <2>3
  <1>7. faults' \subseteq 1..turn
    BY <1>2 DEF IInv, TypeOK
  <1> QED
    BY <1>2, <1>3, <1>6, <1>7, LeaveStep

LEMMA InterruptStep ==
  ASSUME IInv, NEW t \in DOMAIN status, Interrupt(t)
  PROVE  IInv'
  <1>1. /\ t \in Running /\ UNCHANGED <<plan, turn, stage, files, out>>
        /\ status' = [status EXCEPT ![t] = "failed"] /\ found' = Without(found, {t})
        /\ faults' = faults \/ faults' = faults \cup {turn}
    BY DEF Interrupt, Leave
  <1>2. InStatus("completed")' = InStatus("completed")
    <2>1. status[t] = "running"
      BY <1>1 DEF Running, InStatus
    <2>2. t \notin InStatus("completed")
      BY <2>1 DEF InStatus
    <2> QED
      BY <1>1, <2>1, <2>2 DEF InStatus
  <1>3. faults' \subseteq 1..turn
    BY <1>1, TurnIs DEF IInv, TypeOK
  <1> QED
    BY <1>1, <1>2, <1>3, LeaveStep DEF IInv, TypeOK

\* The other steps begin and end no task.
LEMMA OtherStep == IInv /\ (Stop \/ Over \/ UNCHANGED vars) => IInv'
  <1> SUFFICES ASSUME IInv, Stop \/ Over \/ UNCHANGED vars PROVE IInv'
    OBVIOUS
  <1>1. /\ UNCHANGED <<plan, turn, files, status, found, out>>
        /\ faults' = faults \/ faults' = faults \cup {turn}
        /\ refusal' = refusal
        /\ stage' = stage \/ (stage \in {"deploying", "stopping"} /\ stage' \in {"stopping", "over"})
    BY DEF Stop, Over, vars, files
  <1>2. Running' = Running /\ Busy' = Busy /\ InStatus("completed")' = InStatus("completed")
    BY <1>1 DEF Running, Lost, InStatus, Busy
  <1>3. faults' \subseteq 1..turn
    BY <1>1, TurnIs DEF IInv, TypeOK
  <1>4. TypeOK'
    <2>1. (Running \cup Lost)' = Running \cup Lost
      BY <1>2 DEF Busy
    <2>2. Cardinality((Running \cup Lost)') <= Workers /\ DOMAIN found' = (Running \cup Lost)'
      BY <1>1, <2>1, Zenon DEF IInv, TypeOK
    <2> QED
      BY <1>1, <1>2, <1>3, <2>2 DEF IInv, TypeOK, files
  <1>5. FlowInv'
    BY <1>1, <1>2 DEF IInv, FlowInv
  <1>6. OrderInv' /\ ResourceInv' /\ MadeInv'
    BY <1>1, <1>2 DEF IInv, OrderInv, ResourceInv, MadeInv, files
  <1> QED
    BY <1>4, <1>5, <1>6 DEF IInv

LEMMA NextDeploymentStep == IInv /\ NextDeployment => IInv'
  <1> SUFFICES ASSUME IInv, NextDeployment PROVE IInv'
    OBVIOUS
  <1>1. /\ turn < Len(plan.requests) /\ turn' = turn + 1 /\ stage' = "expanding" /\ refusal' = ""
        /\ DOMAIN status' = {} /\ DOMAIN found' = {} /\ DOMAIN out' = {}
        /\ UNCHANGED <<plan, faults>>
    BY EmptyIs DEF NextDeployment
  <1>2. turn' \in DOMAIN plan'.requests /\ faults' \subseteq 1..turn'
    <2>1. /\ Len(plan.requests) \in Nat /\ turn \in 1..Len(plan.requests)
          /\ \A i \in 1..Len(plan.requests) : i \in DOMAIN plan.requests
      BY TurnIs DEF IInv
    <2>2. turn' \in 1..Len(plan.requests) /\ 1..turn \subseteq 1..turn'
      <3> DEFINE n == Len(plan.requests)
      <3>1. n \in Nat /\ turn \in 1..n /\ turn < n /\ turn' = turn + 1
        BY <1>1, <2>1
      <3> HIDE DEF n
      <3>2. turn' \in 1..n /\ 1..turn \subseteq 1..turn'
        BY <3>1
      <3> QED
        BY <3>2 DEF n
    <2>3. faults \subseteq 1..turn
      BY DEF IInv, TypeOK
    <2> QED
      BY <1>1, <2>1, <2>2, <2>3
  <1>3. Running' = {} /\ Busy' = {} /\ InStatus("completed")' = {}
    BY <1>1 DEF Running, Lost, InStatus, Busy
  <1>4. IsFiniteSet(Busy') /\ Cardinality(Busy') <= Workers
    BY <1>3, None, WorkersAssumption
  <1>5. TypeOK'
    BY <1>1, <1>2, <1>3, <1>4 DEF IInv, TypeOK, Busy
  <1> QED
    BY <1>1, <1>3, <1>4, <1>5 DEF IInv, FlowInv, OrderInv, ResourceInv, MadeInv

LEMMA InvStep == IInv /\ [Next]_vars => IInv'
  <1> SUFFICES ASSUME IInv, [Next]_vars PROVE IInv'
    OBVIOUS
  <1>1. CASE Generate
    BY <1>1, GenerateStep
  <1>2. CASE \E t \in DOMAIN status : Begin(t) \/ End(t) \/ Interrupt(t)
    BY <1>2, BeginStep, EndStep, InterruptStep
  <1>3. CASE NextDeployment
    BY <1>3, NextDeploymentStep
  <1>4. CASE Stop \/ Over \/ Terminating \/ UNCHANGED vars
    BY <1>4, OtherStep DEF Terminating
  <1> QED
    BY <1>1, <1>2, <1>3, <1>4 DEF Next

\* The deployments keep the invariant the proofs are about.
THEOREM Inductive == Spec => []IInv
  BY InvInit, InvStep, PTL DEF Spec

\* Every variable has its type, whatever is deployed and whatever fails: a deployment that was
\* refused says why, the outputs are those of the tasks that completed, and there are never more
\* tasks under way, those of lost workers among them, than there are workers.
THEOREM TypeCorrect == Spec => []TypeOK
  <1>1. IInv => TypeOK
    BY DEF IInv
  <1> QED
    BY Inductive, <1>1, PTL

\* A task that is under way, has ended or was interrupted has all its dependencies of the same
\* deployment behind it, and two tasks that require the same resource are never under way
\* together: not even when a worker is lost, which keeps what it has locked
\* (scheduler_factory.py, are_resources_are_free_for_task and lock_resources_for_task).
THEOREM OrderAndExclusion == Spec => [](OrderInv /\ ResourceInv)
  <1>1. IInv => OrderInv /\ ResourceInv
    BY DEF IInv
  <1> QED
    BY Inductive, <1>1, PTL
-----------------------------------------------------------------------------
(* The portfolios *)

\* What is deployed is a reference that could be generated.
TasksInv == stage \notin {"expanding", "refused"} => IsReference(tasks)

\* What a task has not found when it looked is still not there.
FoundInv ==
    \A t \in Running :
        tasks[t].section = "spoke-local-portfolios" /\ found[t] = {} =>
            Named(aws, tasks[t].account_id, tasks[t].region, tasks[t].portfolio) = {}

PortfoliosInv ==
    /\ IsAccounts(aws)
    /\ \A id, other \in aws.portfolios : (\A i \in 1..3 : id[i] = other[i]) => id = other

PInv == TasksInv /\ FoundInv /\ PortfoliosInv

LEMMA PInvInit == Init => PInv
  <1> SUFFICES ASSUME Init PROVE PInv
    OBVIOUS
  <1>1. stage = "expanding" /\ Running = {} /\ aws = Accounts
    BY EmptyIs DEF Init, Running, InStatus
  <1> QED
    BY <1>1, AccountsAssumption DEF PInv, TasksInv, FoundInv, PortfoliosInv, IsAccounts

LEMMA PGenerateStep == IInv /\ PInv /\ Generate => PInv'
  <1> SUFFICES ASSUME IInv, PInv, Generate PROVE PInv'
    OBVIOUS
  <1>1. PICK listed \in FileOrders(Request.files) :
          IF ExpansionsFail(Request.manifest, OptionsIn(Request, listed))
          THEN manifest' = Empty /\ tasks' = Empty /\ refusal' = "not expanded"
          ELSE \E expanded \in Expansions(Request.manifest, OptionsIn(Request, listed)) :
                  manifest' = expanded /\ Write(generate(expanded))
    BY DEF Generate
  <1>2. ASSUME refusal' = "" PROVE IsReference(tasks')
    <2>1. /\ ~ExpansionsFail(Request.manifest, OptionsIn(Request, listed))
          /\ \E expanded \in Expansions(Request.manifest, OptionsIn(Request, listed)) : Write(generate(expanded))
      BY <1>1, <1>2
    <2>2. PICK expanded \in Expansions(Request.manifest, OptionsIn(Request, listed)) : Write(generate(expanded))
      BY <2>1
    <2>3. IsManifest(expanded)
      <3>1. plan.requests[turn] \in DOMAIN Requests
        BY RequestIs DEF IInv
      <3> QED
        BY <2>1, <3>1, ManifestsAssumption DEF Request
    <2>4. generate(expanded).raised = "" /\ tasks' = generate(expanded).task
      BY <1>2, <2>2 DEF Write
    <2> QED
      BY <2>3, <2>4, GeneratedIsReference
  <1>3. stage' = (IF refusal' = "" THEN "deploying" ELSE "refused") /\ UNCHANGED aws
    BY DEF Generate
  <1>4. TasksInv'
    BY <1>2, <1>3 DEF TasksInv
  <1>5. Running' = {}
    BY DEF Generate, Running, InStatus
  <1> QED
    BY <1>3, <1>4, <1>5 DEF PInv, FoundInv, PortfoliosInv

LEMMA PBeginStep ==
  ASSUME IInv, PInv, NEW t \in DOMAIN status, Begin(t)
  PROVE  PInv'
  <1>1. /\ found' = Updated(found, [u \in {t} |-> LooksFor(tasks[t])])
        /\ UNCHANGED <<stage, files, aws>>
        /\ status[t] = "pending" /\ status' = [status EXCEPT ![t] = IF FactoryRaises(tasks[t])
                                                                   THEN "lost" ELSE "running"]
    BY DEF Begin, MayBegin
  <1>2. DOMAIN found = Busy
    BY DEF IInv, TypeOK, Busy
  <1>3. \A u \in Running' : (u \in Running /\ u # t) \/ u = t
    BY <1>1 DEF Running, InStatus
  <1>4. /\ found'[t] = LooksFor(tasks[t])
        /\ \A u \in Running : u # t => found'[u] = found[u]
    BY <1>1, <1>2 DEF Updated, Busy
  <1>5. FoundInv'
    <2>1. ASSUME NEW u \in Running', tasks[u].section = "spoke-local-portfolios", found'[u] = {}
          PROVE  Named(aws, tasks[u].account_id, tasks[u].region, tasks[u].portfolio) = {}
      <3>1. CASE u = t
        BY <1>4, <2>1, <3>1 DEF LooksFor
      <3>2. CASE u # t
        BY <1>3, <1>4, <2>1, <3>2 DEF PInv, FoundInv
      <3> QED
        BY <3>1, <3>2
    <2>2. tasks' = tasks /\ aws' = aws
      BY <1>1 DEF files
    <2> QED
      BY <2>1, <2>2 DEF FoundInv, Named
  <1> QED
    BY <1>1, <1>5 DEF PInv, TasksInv, PortfoliosInv, files

\* A task that ends, or is interrupted, has made its portfolio or not, and nothing of others.
LEMMA LeaveKeeps ==
  ASSUME IInv, PInv, NEW t \in Running, NEW result \in Run(t), NEW n \in 0..Len(result.steps),
         NEW becomes, Leave(t, result, n, becomes)
  PROVE  Kept(aws, May(aws, found[t], tasks[t]), aws')
  <1> DEFINE may == May(aws, found[t], tasks[t])
  <1>1. KeptBy(aws, may, result)
    BY RunKeeps DEF IInv, MadeInv, PInv, PortfoliosInv, KeptByAll
  <1> HIDE DEF may
  <1>2. CASE n = 0
    <2>1. aws' = aws /\ IsAccounts(aws)
      BY <1>2 DEF Leave, AwsAfter, PInv, PortfoliosInv
    <2>2. Kept(aws, may, aws)
      BY <2>1 DEF Kept, Stays
    <2> QED
      BY <2>1, <2>2 DEF may
  <1>3. CASE n # 0
    <2>1. n \in 1..Len(result.steps) /\ aws' = result.steps[n]
      BY <1>3 DEF Leave, AwsAfter
    <2>2. Kept(aws, may, result.steps[n])
      BY <1>1, <2>1 DEF KeptBy
    <2> QED
      BY <2>1, <2>2 DEF may
  <1> QED
    BY <1>2, <1>3 DEF may

LEMMA PLeaveStep ==
  ASSUME IInv, PInv, NEW t \in Running, NEW result \in Run(t), NEW n \in 0..Len(result.steps),
         NEW becomes \in {"completed", "failed"}, Leave(t, result, n, becomes),
         UNCHANGED <<stage, files>>
  PROVE  PInv'
  <1> DEFINE task == tasks[t]
  <1>1. t \in DOMAIN status /\ status[t] = "running"
    BY DEF Running, InStatus
  <1>2. Kept(aws, May(aws, found[t], task), aws')
    BY LeaveKeeps
  <1>3. /\ Running' = Running \ {t} /\ found' = Without(found, {t})
        /\ DOMAIN found = Busy
    BY <1>1 DEF Leave, Running, InStatus, IInv, TypeOK, Busy
  <1>4. \A u \in Running' : u \in Running /\ u # t /\ found'[u] = found[u]
    BY <1>3 DEF Without, Busy
  \* What it may have made was not there.
  <1>5. ASSUME NEW id \in aws'.portfolios, id \notin aws.portfolios
        PROVE  /\ task.section = "spoke-local-portfolios" /\ id = NewPortfolio(aws, task)
               /\ Named(aws, task.account_id, task.region, task.portfolio) = {}
    <2>1. id \in Creates(aws, found[t], task)
      BY <1>2, <1>5 DEF Kept, May
    <2>2. task.section = "spoke-local-portfolios" /\ found[t] = {} /\ id = NewPortfolio(aws, task)
      BY <2>1 DEF Creates
    <2> QED
      BY <2>2 DEF PInv, FoundInv
  <1>6. /\ NewPortfolio(aws, task)[1] = task.account_id /\ NewPortfolio(aws, task)[2] = task.region
        /\ NewPortfolio(aws, task)[3] = task.portfolio
    BY DEF NewPortfolio
  <1>7. FoundInv'
    <2> SUFFICES ASSUME NEW u \in Running', tasks[u].section = "spoke-local-portfolios",
                        found'[u] = {},
                        NEW id \in Named(aws', tasks[u].account_id, tasks[u].region, tasks[u].portfolio)
                 PROVE  FALSE
      BY DEF FoundInv, files
    <2>1. Named(aws, tasks[u].account_id, tasks[u].region, tasks[u].portfolio) = {}
      BY <1>4 DEF PInv, FoundInv
    <2>2. /\ id \in aws'.portfolios /\ id \notin aws.portfolios
          /\ id[1] = tasks[u].account_id /\ id[2] = tasks[u].region
      BY <2>1 DEF Named
    <2>3. /\ task.section = "spoke-local-portfolios"
          /\ task.account_id = tasks[u].account_id /\ task.region = tasks[u].region
      BY <1>5, <1>6, <2>2
    <2>4. stage \notin {"expanding", "refused"}
      BY <1>1 DEF IInv, FlowInv
    <2>5. u \in Running /\ u # t /\ u \in DOMAIN tasks /\ t \in DOMAIN tasks
      BY <1>1, <1>4 DEF Running, InStatus, IInv, TypeOK
    <2>6. /\ ListPortfolios(task) \in task.resources_required
          /\ ListPortfolios(tasks[u]) \in tasks[u].resources_required
      BY <2>3, <2>4, <2>5 DEF PInv, TasksInv, IsReference, LocksPortfolios
    <2>7. ListPortfolios(task) = ListPortfolios(tasks[u])
      BY <2>3 DEF ListPortfolios
    <2>8. task.resources_required \cap tasks[u].resources_required = {}
      BY <2>5 DEF IInv, ResourceInv, Busy
    <2> QED
      BY <2>6, <2>7, <2>8
  <1>8. PortfoliosInv'
    <2>1. IsAccounts(aws')
      BY <1>2 DEF Kept
    <2>2. ASSUME NEW id \in aws'.portfolios, NEW other \in aws'.portfolios,
                 \A i \in 1..3 : id[i] = other[i]
          PROVE  id = other
      <3>1. 1 \in 1..3 /\ 2 \in 1..3 /\ 3 \in 1..3
        OBVIOUS
      <3>2. id[1] = other[1] /\ id[2] = other[2] /\ id[3] = other[3]
        BY <2>2, <3>1
      <3>3. CASE id \in aws.portfolios /\ other \in aws.portfolios
        BY <2>2, <3>3 DEF PInv, PortfoliosInv
      <3>4. CASE id \notin aws.portfolios /\ other \notin aws.portfolios
        BY <1>5, <3>4
      <3>5. CASE id \notin aws.portfolios /\ other \in aws.portfolios
        <4>1. other \notin Named(aws, task.account_id, task.region, task.portfolio)
          BY <1>5, <3>5
        <4> QED
          BY <1>5, <1>6, <3>2, <3>5, <4>1 DEF Named
      <3>6. CASE id \in aws.portfolios /\ other \notin aws.portfolios
        <4>1. id \notin Named(aws, task.account_id, task.region, task.portfolio)
          BY <1>5, <3>6
        <4> QED
          BY <1>5, <1>6, <3>2, <3>6, <4>1 DEF Named
      <3> QED
        BY <3>3, <3>4, <3>5, <3>6
    <2> QED
      BY <2>1, <2>2 DEF PortfoliosInv
  <1>9. TasksInv'
    BY DEF PInv, TasksInv, files
  <1> QED
    BY <1>7, <1>8, <1>9 DEF PInv

LEMMA PInvStep == IInv /\ PInv /\ [Next]_vars => PInv'
  <1> SUFFICES ASSUME IInv, PInv, [Next]_vars PROVE PInv'
    OBVIOUS
  <1>1. CASE Generate
    BY <1>1, PGenerateStep
  <1>2. ASSUME NEW t \in DOMAIN status, Begin(t) PROVE PInv'
    BY <1>2, PBeginStep
  <1>3. ASSUME NEW t \in DOMAIN status, End(t) PROVE PInv'
    <2>1. t \in Running /\ UNCHANGED <<stage, files>>
      BY <1>3 DEF End
    <2>2. PICK result \in Run(t) :
            Leave(t, result, Len(result.steps), IF result.raised THEN "failed" ELSE "completed")
      BY <1>3 DEF End
    <2>3. Len(result.steps) \in Nat
      BY <2>1, RunKeeps DEF IInv, MadeInv, PInv, PortfoliosInv, KeptByAll, KeptBy
    <2>4. Len(result.steps) \in 0..Len(result.steps)
      BY <2>3
    <2> QED
      BY <2>1, <2>2, <2>4, PLeaveStep
  <1>4. ASSUME NEW t \in DOMAIN status, Interrupt(t) PROVE PInv'
    <2>1. t \in Running /\ UNCHANGED <<stage, files>>
      BY <1>4 DEF Interrupt
    <2>2. PICK result \in Run(t) : \E n \in 0..Len(result.steps) : Leave(t, result, n, "failed")
      BY <1>4 DEF Interrupt
    <2>3. PICK n \in 0..Len(result.steps) : Leave(t, result, n, "failed")
      BY <2>2
    <2> QED
      BY <2>1, <2>3, PLeaveStep
  <1>5. CASE NextDeployment
    <2>1. stage' = "expanding" /\ UNCHANGED aws /\ Running' = {}
      BY <1>5, EmptyIs DEF NextDeployment, Running, InStatus
    <2> QED
      BY <2>1 DEF PInv, TasksInv, FoundInv, PortfoliosInv
  <1>6. CASE Stop \/ Over \/ Terminating \/ UNCHANGED vars
    <2>1. /\ UNCHANGED <<files, status, found, aws>>
          /\ stage' \in {"expanding", "refused"} <=> stage \in {"expanding", "refused"}
      BY <1>6 DEF Stop, Over, Terminating, vars, files
    <2>2. Running' = Running
      BY <2>1 DEF Running, InStatus
    <2> QED
      BY <2>1, <2>2 DEF PInv, TasksInv, FoundInv, PortfoliosInv, Named, files
  <1> QED
    BY <1>1, <1>2, <1>3, <1>4, <1>5, <1>6 DEF Next

\* Whoever looks for a portfolio before it creates it, at most one is created.
THEOREM OnePortfolioPerNameAlways == Spec => []OnePortfolioPerName
  <1>1. PInv => OnePortfolioPerName
    <2> SUFFICES ASSUME PInv, NEW id \in aws.portfolios, NEW other \in aws.portfolios,
                        SubSeq(id, 1, 3) = SubSeq(other, 1, 3)
                 PROVE  id = other
      BY DEF OnePortfolioPerName
    <2>1. \A i \in 1..3 : id[i] = other[i]
      OBVIOUS
    <2> QED
      BY <2>1 DEF PInv, PortfoliosInv
  <1> QED
    BY InvInit, InvStep, PInvInit, PInvStep, <1>1, PTL DEF Spec

-----------------------------------------------------------------------------
(* The end of a deployment *)

\* The tasks of a deployment that are in a set, wait for one of it, or wait for such a task.
Dependents(C) == {t \in DOMAIN status : tasks[t].deps \cap C # {}}
Behind(S) ==
    {t \in DOMAIN status : \A C \in SUBSET DOMAIN status :
        S \subseteq C /\ Dependents(C) \subseteq C => t \in C}

\* A deployment that ends by itself has left out only what was waiting for a task that failed.
EndsWhenBlocked ==
    stage = "deploying" /\ stage' = "over" =>
        InStatus("pending") \subseteq Behind(InStatus("failed"))

LEMMA BehindIs ==
  ASSUME NEW S \in SUBSET DOMAIN status
  PROVE  S \subseteq Behind(S) /\ Dependents(Behind(S)) \subseteq Behind(S)
  <1>1. S \subseteq Behind(S)
    BY DEF Behind
  <1>2. ASSUME NEW t \in Dependents(Behind(S)), NEW C \in SUBSET DOMAIN status,
               S \subseteq C, Dependents(C) \subseteq C
        PROVE  t \in C
    <2>1. PICK d \in Behind(S) : d \in tasks[t].deps
      BY DEF Dependents
    <2>2. d \in C
      BY <1>2, <2>1 DEF Behind
    <2> QED
      BY <1>2, <2>1, <2>2 DEF Dependents
  <1>3. Dependents(Behind(S)) \subseteq DOMAIN status
    BY DEF Dependents
  <1> QED
    BY <1>1, <1>2, <1>3 DEF Behind

\* If others were left there would be one of them that waits for none of them: it could begin.
LEMMA OverStep == IInv /\ PInv /\ Over => EndsWhenBlocked
  <1> SUFFICES ASSUME IInv, PInv, Over, stage = "deploying"
               PROVE  InStatus("pending") \subseteq Behind(InStatus("failed"))
    BY DEF EndsWhenBlocked
  <1> DEFINE behind == Behind(InStatus("failed"))
             others == InStatus("pending") \ behind
  <1>1. Running = {} /\ Lost = {} /\ \A t \in DOMAIN status : ~MayBegin(t)
    BY DEF Over
  <1>2. InStatus("failed") \subseteq behind /\ Dependents(behind) \subseteq behind
    BY BehindIs DEF InStatus
  <1> HIDE DEF behind
  <1>3. ASSUME others # {} PROVE FALSE
    <2>1. Acyclic(tasks)
      BY DEF PInv, TasksInv, IsReference
    <2>2. others \in SUBSET DOMAIN tasks /\ others \subseteq DOMAIN status
      BY DEF InStatus, IInv, TypeOK
    <2>3. PICK t \in others : tasks[t].deps \cap others = {}
      BY <1>3, <2>1, <2>2 DEF Acyclic
    <2>4. t \in DOMAIN status /\ status[t] = "pending" /\ t \notin behind
      BY <2>3 DEF InStatus
    <2>5. Cardinality(Running \cup Lost) < Workers
      <3>1. Cardinality(Running \cup Lost) = 0
        BY <1>1, FS_EmptySet
      <3> QED
        BY <3>1, WorkersAssumption
    <2>6. PICK d \in tasks[t].deps \cap DOMAIN status : status[d] # "completed"
      BY <1>1, <2>4, <2>5 DEF MayBegin
    <2>7. status[d] \in {"pending", "failed"}
      BY <1>1, <2>6 DEF Running, Lost, InStatus, IInv, TypeOK
    <2>8. d \in behind
      BY <1>2, <2>3, <2>6, <2>7 DEF InStatus
    <2> QED
      BY <1>2, <2>4, <2>6, <2>8 DEF Dependents
  <1> QED
    BY <1>3 DEF behind

\* The generation and the run of a task reference fit together: as the one writes no cycle, the
\* other does not come to a stop at which tasks wait for each other, or for resources that
\* nobody has. What is left out then has a failed task before it.
THEOREM EndsOnlyWhenBlocked == Spec => [][EndsWhenBlocked]_vars
  <1>1. IInv /\ PInv /\ [Next]_vars => [EndsWhenBlocked]_vars
    <2> SUFFICES ASSUME IInv, PInv, Next PROVE EndsWhenBlocked
      OBVIOUS
    <2>1. CASE Over
      BY <2>1, OverStep
    <2>2. CASE ~Over
      <3>1. ~(stage = "deploying" /\ stage' = "over")
        BY <2>2 DEF Next, Generate, Stop, NextDeployment, Terminating, Begin, End, Interrupt, vars
      <3> QED
        BY <3>1 DEF EndsWhenBlocked
    <2> QED
      BY <2>1, <2>2
  <1> QED
    BY InvInit, InvStep, PInvInit, PInvStep, <1>1, PTL DEF Spec

-----------------------------------------------------------------------------
(* depends_on, from the manifest to the run *)

\* The tasks that an entry of depends_on asks a task to wait for.
Asked(t, d) == RefsBy(ToSet(TasksOfItems(manifest)), tasks[t], d)

\* The tasks of the reference wait for what the manifest says that they depend on.
WaitsInv ==
    stage \notin {"expanding", "refused"} =>
        \A t \in DOMAIN tasks : WaitsFor(ToSet(TasksOfItems(manifest)), tasks[t])

\* A task begins when all that its depends_on ask for is completed.
AfterItsDependencies ==
    \A t \in DOMAIN status : status[t] # "pending" =>
        \A d \in ToSet(Get(tasks[t], "depends_on", <<>>)) : d.affinity \in Affinities(d) =>
            /\ Asked(t, d) # {} /\ Asked(t, d) \subseteq DOMAIN tasks
            /\ \A r \in Asked(t, d) \cap DOMAIN status : status[r] = "completed"

LEMMA WInvInit == Init => WaitsInv
  BY DEF Init, WaitsInv

LEMMA WGenerateStep == IInv /\ Generate => WaitsInv'
  <1> SUFFICES ASSUME IInv, Generate, refusal' = "" PROVE WaitsInv'
    <2>1. Generate /\ refusal' # "" => stage' = "refused"
      BY DEF Generate
    <2> QED
      BY <2>1 DEF WaitsInv
  <1>1. PICK listed \in FileOrders(Request.files) :
          IF ExpansionsFail(Request.manifest, OptionsIn(Request, listed))
          THEN manifest' = Empty /\ tasks' = Empty /\ refusal' = "not expanded"
          ELSE \E expanded \in Expansions(Request.manifest, OptionsIn(Request, listed)) :
                  manifest' = expanded /\ Write(generate(expanded))
    BY DEF Generate
  <1>2. ~ExpansionsFail(Request.manifest, OptionsIn(Request, listed))
    BY <1>1
  <1>3. PICK expanded \in Expansions(Request.manifest, OptionsIn(Request, listed)) :
          manifest' = expanded /\ Write(generate(expanded))
    BY <1>1, <1>2
  <1>4. IsManifest(expanded)
    <2>1. plan.requests[turn] \in DOMAIN Requests
      BY RequestIs DEF IInv
    <2> QED
      BY <1>2, <2>1, ManifestsAssumption DEF Request
  <1>5. /\ generate(expanded).raised = "" /\ tasks' = generate(expanded).task
        /\ manifest' = expanded
    BY <1>3 DEF Write
  <1>6. \A t \in DOMAIN tasks' : WaitsFor(ToSet(TasksOfItems(expanded)), tasks'[t])
    BY <1>4, <1>5, DependsOnIsHonoured
  <1> QED
    BY <1>5, <1>6 DEF WaitsInv

LEMMA WInvStep == IInv /\ WaitsInv /\ [Next]_vars => WaitsInv'
  <1> SUFFICES ASSUME IInv, WaitsInv, [Next]_vars PROVE WaitsInv'
    OBVIOUS
  <1>1. CASE Generate
    BY <1>1, WGenerateStep
  <1>2. CASE NextDeployment
    BY <1>2 DEF NextDeployment, WaitsInv
  <1>3. CASE \/ Stop \/ Over \/ Terminating \/ UNCHANGED vars
             \/ \E t \in DOMAIN status : Begin(t) \/ End(t) \/ Interrupt(t)
    <2>1. /\ manifest' = manifest /\ tasks' = tasks
          /\ stage' \in {"expanding", "refused"} <=> stage \in {"expanding", "refused"}
      BY <1>3 DEF Stop, Over, Terminating, Begin, End, Interrupt, vars, files
    <2> QED
      BY <2>1 DEF WaitsInv
  <1> QED
    BY <1>1, <1>2, <1>3 DEF Next

\* What the manifest says with depends_on is kept by the run: a task that is under way, has
\* ended or was interrupted has behind it the completed tasks of everything that its item
\* depends on, within its region, its account or both if the entry says so, and there is at
\* least one such task (task_reference.py, complete_generator.py and the schedulers). For a
\* single account the tasks of other accounts are not waited for.
THEOREM DependsOnIsKept == Spec => []AfterItsDependencies
  <1>1. IInv /\ PInv /\ WaitsInv => AfterItsDependencies
    <2> SUFFICES ASSUME IInv, PInv, WaitsInv, NEW t \in DOMAIN status, status[t] # "pending",
                        NEW d \in ToSet(Get(tasks[t], "depends_on", <<>>)),
                        d.affinity \in Affinities(d)
                 PROVE  /\ Asked(t, d) # {} /\ Asked(t, d) \subseteq DOMAIN tasks
                        /\ \A r \in Asked(t, d) \cap DOMAIN status : status[r] = "completed"
      BY DEF AfterItsDependencies
    <2>1. t \in DOMAIN tasks
      BY DEF IInv, TypeOK
    <2>2. stage \notin {"expanding", "refused"}
      BY DEF IInv, FlowInv
    <2>3. Asked(t, d) # {} /\ Asked(t, d) \subseteq tasks[t].deps
      BY <2>1, <2>2 DEF WaitsInv, WaitsFor, IsAwaited, Asked
    <2>4. tasks[t].deps \subseteq DOMAIN tasks
      BY <2>1, <2>2 DEF PInv, TasksInv, IsReference
    <2>5. \A r \in tasks[t].deps \cap DOMAIN status : status[r] = "completed"
      BY DEF IInv, OrderInv
    <2> QED
      BY <2>3, <2>4, <2>5
  <1> QED
    BY InvInit, InvStep, PInvInit, PInvStep, WInvInit, WInvStep, <1>1, PTL DEF Spec

-----------------------------------------------------------------------------
(* The outputs of the tasks of portfolios *)

\* Whatever a task is to read of the tasks of portfolios, it waits for and is run with it.
AwaitedInv ==
    stage \notin {"expanding", "refused"} =>
        \A t \in DOMAIN status :
            /\ PortfolioReads(tasks[t]) \subseteq tasks[t].deps \cap DOMAIN status
            /\ tasks[t].deps \subseteq DOMAIN tasks

\* What a task reads of the tasks of portfolios is there from when it begins, and stays there.
ReadsAreThere ==
    \A t \in DOMAIN status : status[t] # "pending" =>
        PortfolioReads(tasks[t]) \subseteq DOMAIN out \cap tasks[t].deps

LEMMA AInvInit == Init => AwaitedInv
  BY DEF Init, AwaitedInv

\* What is read by a task that a deployment for one account runs is in that account or the hub.
LEMMA AGenerateStep == IInv /\ Generate => AwaitedInv'
  <1> SUFFICES ASSUME IInv, Generate, refusal' = "" PROVE AwaitedInv'
    <2>1. Generate /\ refusal' # "" => stage' = "refused"
      BY DEF Generate
    <2> QED
      BY <2>1 DEF AwaitedInv
  <1>1. PICK listed \in FileOrders(Request.files) :
          IF ExpansionsFail(Request.manifest, OptionsIn(Request, listed))
          THEN manifest' = Empty /\ tasks' = Empty /\ refusal' = "not expanded"
          ELSE \E expanded \in Expansions(Request.manifest, OptionsIn(Request, listed)) :
                  manifest' = expanded /\ Write(generate(expanded))
    BY DEF Generate
  <1>2. ~ExpansionsFail(Request.manifest, OptionsIn(Request, listed))
    BY <1>1
  <1>3. PICK expanded \in Expansions(Request.manifest, OptionsIn(Request, listed)) : Write(generate(expanded))
    BY <1>1, <1>2
  <1>4. IsManifest(expanded)
    <2>1. plan.requests[turn] \in DOMAIN Requests
      BY RequestIs DEF IInv
    <2> QED
      BY <1>2, <2>1, ManifestsAssumption DEF Request
  <1>5. generate(expanded).raised = "" /\ tasks' = generate(expanded).task
    BY <1>3 DEF Write
  <1>6. \A t \in DOMAIN tasks' : /\ IsEntry(t, tasks'[t]) /\ tasks'[t].deps \subseteq DOMAIN tasks'
                                 /\ Awaits(t, tasks'[t]) /\ IsPlaced(t, tasks'[t])
    BY <1>4, <1>5, GeneratedIsReference, ParametersAreReadLate, ReferencesAreAwaited DEF IsReference
  <1>7. DOMAIN status' = TasksToRun
    BY DEF Generate
  <1>8. ASSUME NEW t \in DOMAIN status', NEW r \in PortfolioReads(tasks'[t])
        PROVE  r \in tasks'[t].deps /\ r \in DOMAIN status'
    <2> DEFINE task == tasks'[t]
               read == tasks'[r]
    <2>1. t \in DOMAIN tasks'
      BY <1>7 DEF TasksToRun
    <2>2. r \in task.deps /\ IsNear(r, task.account_id)
      <3>1. CASE \E k \in DOMAIN task \cap References : r = task[k]
        BY <1>6, <2>1, <3>1 DEF Awaits, AwaitsReferences
      <3>2. CASE /\ task.section = "spoke-local-portfolios" /\ task.status # "terminated"
                 /\ task.account_id # Puppet /\ r = LocalRef(Puppet, task)
        <4>1. t[1] = "spoke-local-portfolios"
          BY <1>6, <2>1, <3>2 DEF IsPlaced
        <4>2. r \in task.deps
          BY <1>6, <2>1, <3>2, <4>1 DEF Awaits, AwaitsHub
        <4>3. IsNear(LocalRef(Puppet, task), task.account_id)
          BY NearAre
        <4> QED
          BY <3>2, <4>2, <4>3
      <3> QED
        BY <1>8, <3>1, <3>2 DEF PortfolioReads
    <2>3. r \in DOMAIN tasks' /\ r[1] \in Placed /\ AccountIn(r) \in {Puppet, task.account_id}
      BY <1>6, <2>1, <2>2 DEF IsNear
    <2>4. read.account_id = AccountIn(r)
      BY <1>6, <2>3 DEF IsPlaced
    <2>5. read.section # "ssm_outputs"
      <3>1. Placed \cap Kinds = {}
        BY DEF Placed, Kinds, Readers, Provisioned
      <3> QED
        BY <1>6, <2>3, <3>1 DEF IsEntry, Kinds
    <2>6. r # CREATE_POLICIES
      <3>1. CREATE_POLICIES[1] \notin Placed
        BY DEF CREATE_POLICIES, Placed
      <3> QED
        BY <2>3, <3>1
    <2> HIDE DEF task, read
    <2>7. r \in DOMAIN status'
      <3>1. CASE ~Has(Request.options, "single_account")
        BY <1>7, <2>3, <3>1 DEF TasksToRun
      <3>2. CASE Has(Request.options, "single_account")
        <4> DEFINE own == {Puppet, Request.options.single_account}
        <4>1. task.account_id \in own \cup {""}
          BY <1>7, <1>8, <3>2 DEF TasksToRun, task
        <4>2. read.account_id \in own \cup {""}
          BY <2>3, <2>4, <4>1
        <4> HIDE DEF own
        <4> QED
          BY <1>7, <2>3, <2>5, <2>6, <3>2, <4>2 DEF TasksToRun, own, read
      <3> QED
        BY <3>1, <3>2
    <2> QED
      BY <2>2, <2>7 DEF task
  <1>9. \A t \in DOMAIN status' : tasks'[t].deps \subseteq DOMAIN tasks'
    BY <1>6, <1>7 DEF TasksToRun
  <1> QED
    BY <1>8, <1>9 DEF AwaitedInv

LEMMA AInvStep == IInv /\ AwaitedInv /\ [Next]_vars => AwaitedInv'
  <1> SUFFICES ASSUME IInv, AwaitedInv, [Next]_vars PROVE AwaitedInv'
    OBVIOUS
  <1>1. CASE Generate
    BY <1>1, AGenerateStep
  <1>2. CASE NextDeployment
    BY <1>2 DEF NextDeployment, AwaitedInv
  <1>3. CASE \/ Stop \/ Over \/ Terminating \/ UNCHANGED vars
             \/ \E t \in DOMAIN status : Begin(t) \/ End(t) \/ Interrupt(t)
    <2>1. /\ tasks' = tasks /\ DOMAIN status' = DOMAIN status
          /\ stage' \in {"expanding", "refused"} <=> stage \in {"expanding", "refused"}
      BY <1>3 DEF Stop, Over, Terminating, Begin, End, Interrupt, Leave, vars, files
    <2> QED
      BY <2>1 DEF AwaitedInv
  <1> QED
    BY <1>1, <1>2, <1>3 DEF Next

\* A task of a portfolio never begins without what it reads: the id of the portfolio, the
\* products of the hub and of the spoke and the description of the shares are among the outputs
\* of the deployment when it begins, and what it reads is among the dependencies that are made
\* before it is run (get_output_from_reference_dependency, tasks.py). That holds of a deployment
\* for a single account too: of what is read none is in another spoke, so that nothing that is
\* read is left out of it.
THEOREM ReadsAreAlwaysThere == Spec => []ReadsAreThere
  <1>1. IInv /\ AwaitedInv => ReadsAreThere
    <2> SUFFICES ASSUME IInv, AwaitedInv, NEW t \in DOMAIN status, status[t] # "pending",
                        NEW r \in PortfolioReads(tasks[t])
                 PROVE  r \in DOMAIN out \cap tasks[t].deps
      BY DEF ReadsAreThere
    <2>1. stage \notin {"expanding", "refused"}
      BY DEF IInv, FlowInv
    <2>2. r \in tasks[t].deps \cap DOMAIN status
      BY <2>1 DEF AwaitedInv
    <2>3. status[r] = "completed"
      BY <2>2 DEF IInv, OrderInv
    <2>4. r \in InStatus("completed")
      BY <2>2, <2>3 DEF InStatus
    <2>5. DOMAIN out = InStatus("completed")
      BY DEF IInv, TypeOK
    <2> QED
      BY <2>2, <2>4, <2>5
  <1> QED
    BY InvInit, InvStep, AInvInit, AInvStep, <1>1, PTL DEF Spec

-----------------------------------------------------------------------------
(* What is read was made before *)

\* The tasks are what their names say, and those that read wait for those that write. What an
\* output is of is deployed with it.
EntriesInv ==
    stage \notin {"expanding", "refused"} =>
        /\ \A t \in DOMAIN tasks :
              /\ IsTask(tasks[t]) /\ IsEntry(t, tasks[t])
              /\ OutputsFirst(tasks, t) /\ ItemsFirst(tasks, t, "boto3_parameters")
        /\ \A o \in DOMAIN status : o[1] = "ssm_outputs" =>
              tasks[o].generating \in DOMAIN status /\ FollowsItsItem(tasks, o)

\* Stacks and products are there by the references of items.
ContentInv == \A ref \in DOMAIN aws.content : ref = <<ref[1], ref[2], ref[3], ref[4]>>

\* A stack or launch that completed is what this deployment made of it, or gone.
IsBrought(d, a) ==
    IF tasks[d].status = "terminated" THEN d \notin DOMAIN a.content
    ELSE d \in DOMAIN a.content /\ a.content[d] = Mark
BroughtInv == \A d \in InStatus("completed") : d[1] \in Provisioned => IsBrought(d, aws)

\* An output that completed is in the parameter store with what this deployment made, or gone.
IsWritten(o, a) ==
    IF tasks[o].status = "terminated" THEN Tail(o) \notin DOMAIN a.store
    ELSE Tail(o) \in DOMAIN a.store /\ a.store[Tail(o)] = Mark
WrittenInv == \A o \in InStatus("completed") : o[1] = "ssm_outputs" => IsWritten(o, aws)

\* A policy whose task completed is attached.
IsPolicy(task) == task.section \in {"service-control-policies", "tag-policies"}
AttachmentOf(task) == <<task.section, task.name, PolicyTarget(task)>>
AttachedInv ==
    \A t \in InStatus("completed") : IsPolicy(tasks[t]) => AttachmentOf(tasks[t]) \in aws.attachments

\* What completed reading has read what this deployment made, if it waited for it.
HasRead(r, output) ==
    \A d \in tasks[r].deps \cap DOMAIN status :
        /\ r[1] = "ssm_parameters" /\ r = ParameterOf(d) /\ d[1] = "ssm_outputs"
                /\ tasks[d].status # "terminated" =>
              Mark \in {output[n] : n \in DOMAIN output}
        /\ r[1] = "boto3_parameters" /\ d = SourceOf(r) => output = Mark
ReadInv == \A r \in InStatus("completed") : HasRead(r, out[r])

FInv == EntriesInv /\ ContentInv /\ BroughtInv /\ WrittenInv /\ AttachedInv /\ ReadInv

\* References that differ in their first word have the same rest.
LEMMA SameTail ==
  ASSUME NEW o, IsList(o), o # <<>>
  PROVE  Tail(ParameterOf(o)) = Tail(o) /\ ParameterOf(o)[1] = "ssm_parameters"
  <1> DEFINE p == ParameterOf(o)
             S == ToSet(o) \cup {"ssm_parameters"}
  <1>1. o \in Seq(S) /\ 1 \in DOMAIN o
    BY DEF IsList
  <1>2. /\ p \in Seq(S) /\ Len(p) = Len(o) /\ p[1] = "ssm_parameters"
        /\ \A i \in 2..Len(o) : p[i] = o[i]
    BY <1>1 DEF ParameterOf
  <1> QED
    BY <1>1, <1>2

LEMMA TailIs ==
  ASSUME NEW o, IsList(o), o # <<>>, NEW u, IsList(u), u # <<>>, o[1] = u[1], Tail(o) = Tail(u)
  PROVE  o = u
  <1> DEFINE S == ToSet(o) \cup ToSet(u)
  <1>1. o \in Seq(S) /\ u \in Seq(S) /\ Len(o) \in Nat \ {0} /\ Len(u) \in Nat \ {0}
    BY EmptySeq, LenProperties DEF IsList
  <1> HIDE DEF S
  <1>2. /\ Len(Tail(o)) = Len(o) - 1 /\ \A i \in 1..Len(Tail(o)) : Tail(o)[i] = o[i + 1]
        /\ Len(Tail(u)) = Len(u) - 1 /\ \A i \in 1..Len(Tail(u)) : Tail(u)[i] = u[i + 1]
    BY <1>1, HeadTailProperties
  <1>3. Len(o) = Len(u) /\ Len(o) \in Nat /\ Len(Tail(o)) = Len(o) - 1
    <2> DEFINE n == Len(o)
               m == Len(u)
               k == Len(Tail(o))
    <2>1. n \in Nat /\ m \in Nat /\ k = n - 1 /\ k = m - 1
      BY <1>1, <1>2
    <2> HIDE DEF n, m, k
    <2>2. n = m
      BY <2>1
    <2> QED
      BY <2>1, <2>2 DEF n, m, k
  <1>4. ASSUME NEW i \in 1..Len(o) PROVE o[i] = u[i]
    <2>1. CASE i = 1
      BY <2>1
    <2>2. CASE i # 1
      <3> DEFINE n == Len(o)
      <3>1. n \in Nat /\ i \in 1..n /\ Len(Tail(o)) = n - 1
        BY <1>3
      <3> HIDE DEF n
      <3>2. i - 1 \in 1..(n - 1) /\ (i - 1) + 1 = i
        BY <2>2, <3>1
      <3> QED
        BY <1>2, <1>3, <3>1, <3>2
    <2> QED
      BY <2>1, <2>2
  <1> QED
    BY <1>1, <1>3, <1>4, SeqEqual

\* Once a task has begun all of them are of the reference, and what it waited for completed.
LEMMA BegunIs ==
  ASSUME IInv, EntriesInv, NEW t \in DOMAIN status, status[t] # "pending"
  PROVE  /\ \A u \in DOMAIN status : IsTask(tasks[u]) /\ IsEntry(u, tasks[u])
         /\ OutputsFirst(tasks, t) /\ ItemsFirst(tasks, t, "boto3_parameters")
         /\ t[1] = "ssm_outputs" =>
               tasks[t].generating \in DOMAIN status /\ FollowsItsItem(tasks, t)
         /\ \A d \in tasks[t].deps \cap DOMAIN status : d \in InStatus("completed")
  <1>1. stage \notin {"expanding", "refused"}
    BY DEF IInv, FlowInv
  <1>2. DOMAIN status \subseteq DOMAIN tasks
    BY Zenon DEF IInv, TypeOK
  <1>3. \A d \in tasks[t].deps \cap DOMAIN status : d \in InStatus("completed")
    BY DEF IInv, OrderInv, InStatus
  <1> QED
    BY <1>1, <1>2, <1>3 DEF EntriesInv

LEMMA RunningIs ==
  ASSUME IInv, EntriesInv, NEW t \in Running
  PROVE  /\ t \in DOMAIN status /\ IsTask(tasks[t])
         /\ \A u \in DOMAIN status : IsEntry(u, tasks[u])
         /\ t[1] = "ssm_outputs" =>
               tasks[t].generating \in DOMAIN status /\ FollowsItsItem(tasks, t)
         /\ \A d \in tasks[t].deps \cap DOMAIN status : d \in InStatus("completed")
  <1>1. t \in DOMAIN status /\ status[t] = "running"
    BY DEF Running, InStatus
  <1> QED
    BY <1>1, BegunIs

\* A run that did not raise was one that could read its dependencies.
LEMMA CouldRead ==
  ASSUME NEW t, NEW result \in Run(t), ~result.raised
  PROVE  CanRead(tasks[t])
  BY DEF Run, Raises, RaisesAfter

\* The stack or launch of a task that completes.
LEMMA BringsIt ==
  ASSUME IInv, EntriesInv, IsAccounts(aws), NEW t \in Running, t[1] \in Provisioned,
         NEW result \in Run(t), ~result.raised
  PROVE  Len(result.steps) = 1 /\ IsBrought(t, result.steps[1])
  <1> DEFINE task == tasks[t]
             values == ValuesOf(ParametersOf(task), task, manifest.mappings, out)
  <1>1. task.section = t[1] /\ t = RefOf(task)
    BY RunningIs DEF IsEntry, Kinds
  <1>2. CanRead(task)
    BY CouldRead
  <1>3. /\ task.section \notin PortfolioSections /\ task.section \notin ParameterSections
        /\ task.section \notin OrganisationSections /\ task.section \in ItemSections
        /\ task.section \in {"stacks", "launches"}
    BY <1>1 DEF Provisioned, PortfolioSections, ParameterSections, OrganisationSections, ItemSections
  <1>4. Run(t) = RunItem(aws, out, task, values, Mark)
    BY <1>2, <1>3 DEF Run
  <1> DEFINE mark == Mark
  <1> HIDE DEF values, mark
  <1>5. result \in IF task.status = "terminated" THEN TerminateItem(aws, task)
                   ELSE Bring(aws, task, mark)
    BY <1>3, <1>4 DEF RunItem, ProvisionStack, ProvisionProduct, Raises, RaisesAfter, mark
  <1>6. CASE task.status = "terminated"
    <2>1. result = Result(<<[aws EXCEPT !.content = Without(@, {t})]>>, Empty)
      BY <1>1, <1>5, <1>6 DEF TerminateItem, Does
    <2>2. /\ Len(result.steps) = 1
          /\ result.steps[1] = [aws EXCEPT !.content = Without(@, {t})]
      BY <2>1 DEF Result
    <2> QED
      BY <1>6, <2>2 DEF IsBrought, Without, IsAccounts
  <1>7. CASE task.status # "terminated"
    <2>1. result = Result(<<[aws EXCEPT !.content = Updated(@, [i \in {t} |-> mark])]>>, Empty)
      BY <1>1, <1>5, <1>7 DEF Bring, Does
    <2>2. /\ Len(result.steps) = 1
          /\ result.steps[1] = [aws EXCEPT !.content = Updated(@, [i \in {t} |-> mark])]
      BY <2>1 DEF Result
    <2> QED
      BY <1>7, <2>2 DEF IsBrought, Updated, IsAccounts, mark
  <1> QED
    BY <1>6, <1>7

\* The parameter of an output that completes: the item that the output is of completed before.
LEMMA WritesIt ==
  ASSUME IInv, EntriesInv, BroughtInv, IsAccounts(aws), NEW t \in Running, t[1] = "ssm_outputs",
         NEW result \in Run(t), ~result.raised
  PROVE  Len(result.steps) = 1 /\ IsWritten(t, result.steps[1])
  <1> DEFINE task == tasks[t]
             d == task.generating
  <1>1. /\ task.section = "ssm_outputs" /\ task.name = Tail(t)
        /\ d \in task.deps /\ d[1] \in Provisioned
    BY RunningIs DEF IsEntry, Kinds
  <1>2. d \in DOMAIN status /\ task.status = tasks[d].status
    BY RunningIs DEF FollowsItsItem
  <1>3. task.status # "terminated" => aws.content[d] = Mark
    <2>1. d \in InStatus("completed")
      BY <1>1, <1>2, RunningIs
    <2> QED
      BY <1>1, <1>2, <2>1 DEF BroughtInv, IsBrought
  <1>4. CanRead(task)
    BY CouldRead
  <1>5. Run(t) = RunParameterTask(aws, task)
    <2>1. task.section \notin PortfolioSections /\ task.section \in ParameterSections
      BY <1>1 DEF PortfolioSections, ParameterSections
    <2> QED
      BY <1>4, <2>1 DEF Run
  <1>6. Run(t) = IF task.status = "terminated" THEN TerminateSSMOutputs(aws, task)
                 ELSE SSMOutputs(aws, task)
    BY <1>1, <1>5 DEF RunParameterTask
  <1> DEFINE mark == Mark
             name == Tail(t)
  <1>9. \A a : IsWritten(t, a) <=> IF task.status = "terminated" THEN name \notin DOMAIN a.store
                                   ELSE name \in DOMAIN a.store /\ a.store[name] = mark
    BY Zenon DEF IsWritten
  <1> HIDE DEF mark, name
  <1>7. CASE task.status # "terminated"
    <2>1. result = Result(<<[aws EXCEPT !.store = Updated(@, [n \in {name} |-> mark])]>>, Empty)
      BY <1>1, <1>3, <1>6, <1>7 DEF SSMOutputs, Does, mark, name
    <2>2. /\ Len(result.steps) = 1
          /\ result.steps[1] = [aws EXCEPT !.store = Updated(@, [n \in {name} |-> mark])]
      BY <2>1 DEF Result
    <2>3. "store" \in DOMAIN aws
      BY DEF IsAccounts
    <2> DEFINE store == aws.store
               written == Updated(store, [n \in {name} |-> mark])
    <2>4. result.steps[1].store = written
      BY <2>2, <2>3
    <2> HIDE DEF store
    <2>5. name \in DOMAIN written /\ written[name] = mark
      BY DEF Updated
    <2> HIDE DEF written
    <2> QED
      BY <1>7, <1>9, <2>2, <2>4, <2>5
  <1>8. CASE task.status = "terminated"
    <2>1. result = Result(<<[aws EXCEPT !.store = Without(@, {name})]>>, Empty)
      BY <1>1, <1>6, <1>8 DEF TerminateSSMOutputs, Does, name
    <2>2. /\ Len(result.steps) = 1
          /\ result.steps[1] = [aws EXCEPT !.store = Without(@, {name})]
      BY <2>1 DEF Result
    <2>3. "store" \in DOMAIN aws
      BY DEF IsAccounts
    <2>4. result.steps[1].store = Without(aws.store, {name})
      BY <2>2, <2>3
    <2> DEFINE store == aws.store
    <2> HIDE DEF store
    <2>6. DOMAIN Without(store, {name}) = DOMAIN store \ {name}
      BY WithoutIs
    <2>5. name \notin DOMAIN Without(aws.store, {name})
      BY <2>6 DEF store
    <2> QED
      BY <1>8, <1>9, <2>2, <2>4, <2>5
  <1> QED
    BY <1>7, <1>8

\* The policy of a task that completes, which is there or is attached.
LEMMA AttachesIt ==
  ASSUME IsAccounts(aws), NEW t, IsPolicy(tasks[t]), NEW result \in Run(t), ~result.raised
  PROVE  \/ Len(result.steps) = 0 /\ AttachmentOf(tasks[t]) \in aws.attachments
         \/ Len(result.steps) = 1 /\ AttachmentOf(tasks[t]) \in result.steps[1].attachments
  <1> DEFINE task == tasks[t]
             attachment == AttachmentOf(task)
  <1>1. CanRead(task)
    BY CouldRead
  <1>2. /\ task.section \notin PortfolioSections /\ task.section \notin ParameterSections
        /\ task.section \in OrganisationSections
    BY DEF IsPolicy, PortfolioSections, ParameterSections, OrganisationSections
  <1>3. Run(t) = RunOrganisationTask(aws, task)
    BY <1>1, <1>2 DEF Run
  <1>4. Run(t) = IF attachment \in aws.attachments THEN Done(Empty)
                 ELSE Does([aws EXCEPT !.attachments = @ \cup {attachment}], Empty)
    BY <1>3 DEF RunOrganisationTask, AttachPolicy, AttachmentOf, IsPolicy
  <1> HIDE DEF attachment
  <1>5. CASE attachment \in aws.attachments
    <2>1. result = Result(<<>>, Empty)
      BY <1>4, <1>5 DEF Done
    <2> QED
      BY <1>5, <2>1 DEF Result, attachment
  <1>6. CASE attachment \notin aws.attachments
    <2>1. result = Result(<<[aws EXCEPT !.attachments = @ \cup {attachment}]>>, Empty)
      BY <1>4, <1>6 DEF Does
    <2>2. /\ Len(result.steps) = 1
          /\ result.steps[1] = [aws EXCEPT !.attachments = @ \cup {attachment}]
      BY <2>1 DEF Result
    <2> QED
      BY <2>2 DEF IsAccounts, attachment
  <1> QED
    BY <1>5, <1>6

\* What a task that reads has read when it completes.
LEMMA ReadsIt ==
  ASSUME IInv, EntriesInv, ContentInv, BroughtInv, WrittenInv, NEW t \in Running,
         NEW result \in Run(t), ~result.raised
  PROVE  HasRead(t, result.output)
  <1> DEFINE task == tasks[t]
  <1>1. CanRead(task)
    BY CouldRead
  <1>2. ASSUME t[1] \in Readers
        PROVE  task.section = t[1] /\ Run(t) = RunParameterTask(aws, task)
    <2>1. task.section = t[1]
      BY <1>2, RunningIs DEF IsEntry, Kinds
    <2>2. task.section \notin PortfolioSections /\ task.section \in ParameterSections
      BY <1>2, <2>1 DEF Readers, PortfolioSections, ParameterSections
    <2> QED
      BY <1>1, <2>1, <2>2 DEF Run
  <1>3. ASSUME t[1] = "ssm_parameters", NEW o \in task.deps \cap DOMAIN status,
               o[1] = "ssm_outputs", tasks[o].status # "terminated", t = ParameterOf(o)
        PROVE  Mark \in {result.output[n] : n \in DOMAIN result.output}
    <2>1. task.name = Tail(t)
      BY <1>3, RunningIs DEF IsEntry
    <2>2. o \in InStatus("completed") /\ IsWritten(o, aws)
      BY <1>3, RunningIs DEF WrittenInv
    <2>3. Tail(t) = Tail(o)
      <3>1. IsList(o) /\ o # <<>>
        <4>1. IsEntry(o, tasks[o])
          BY <1>3, RunningIs
        <4> QED
          BY <1>3, <4>1 DEF IsEntry
      <3> QED
        BY <1>3, <3>1, SameTail
    <2> DEFINE mark == Mark
               name == Tail(t)
               key == Tail(Tail(name))
    <2>4. name \in DOMAIN aws.store /\ aws.store[name] = mark
      BY <1>3, <2>2, <2>3 DEF IsWritten
    <2> HIDE DEF mark, name, key
    <2>5. Run(t) = GetSSMParameter(aws, task)
      BY <1>2, <1>3 DEF RunParameterTask, Readers
    <2>6. result = Result(<<>>, [n \in {key} |-> mark])
      BY <2>1, <2>4, <2>5 DEF GetSSMParameter, Done, Has, name, key
    <2>7. result.output = [n \in {key} |-> mark]
      BY <2>6 DEF Result
    <2>8. mark \in {result.output[n] : n \in DOMAIN result.output}
      BY <2>7
    <2> QED
      BY <2>8 DEF mark
  <1>4. ASSUME t[1] = "boto3_parameters", NEW d \in task.deps \cap DOMAIN status, d = SourceOf(t)
        PROVE  result.output = Mark
    <2> DEFINE kind == IF task.reads[2] = "stack" THEN "stacks" ELSE "launches"
               found1 == {s \in DOMAIN aws.content :
                            /\ s[1] = kind /\ s[2] = task.reads[3]
                            /\ s[3] = task.account_id /\ s[4] = task.region}
    <2>1. d = <<kind, task.reads[3], task.account_id, task.region>>
      BY <1>4 DEF SourceOf
    <2>2. d[1] \in Provisioned
      BY <2>1 DEF Provisioned
    <2>3. IsBrought(d, aws)
      BY <1>4, <2>2, RunningIs DEF BroughtInv
    <2>4. Run(t) = Boto3(aws, task)
      BY <1>2, <1>4 DEF RunParameterTask, Readers
    <2>5. Run(t) = IF found1 = {} THEN Raises ELSE UNION {Done(aws.content[s]) : s \in found1}
      BY <2>4 DEF Boto3
    <2>6. \A s \in found1 : s = d
      BY <2>1 DEF ContentInv
    <2> HIDE DEF found1
    <2>7. PICK s \in found1 : result \in Done(aws.content[s])
      BY <2>5 DEF Raises, RaisesAfter
    <2>8. result.output = aws.content[d]
      BY <2>6, <2>7 DEF Done, Result
    <2>9. d \in DOMAIN aws.content
      BY <2>6, <2>7 DEF found1
    <2> QED
      BY <2>3, <2>8, <2>9 DEF IsBrought
  <1> QED
    BY <1>3, <1>4 DEF HasRead

LEMMA FInvInit == Init => FInv
  <1> SUFFICES ASSUME Init PROVE FInv
    OBVIOUS
  <1>1. stage = "expanding" /\ InStatus("completed") = {} /\ aws = Accounts
    BY EmptyIs DEF Init, InStatus
  <1> QED
    BY <1>1, AccountsAssumption
       DEF FInv, EntriesInv, ContentInv, BroughtInv, WrittenInv, AttachedInv, ReadInv

LEMMA FGenerateStep == IInv /\ FInv /\ Generate => FInv'
  <1> SUFFICES ASSUME IInv, FInv, Generate PROVE FInv'
    OBVIOUS
  <1>1. InStatus("completed")' = {} /\ aws' = aws
    BY DEF Generate, InStatus
  <1>2. ContentInv' /\ BroughtInv' /\ WrittenInv' /\ AttachedInv' /\ ReadInv'
    BY <1>1 DEF FInv, ContentInv, BroughtInv, WrittenInv, AttachedInv, ReadInv
  <1>3. EntriesInv'
    <2> SUFFICES ASSUME refusal' = "" PROVE EntriesInv'
      <3>1. Generate /\ refusal' # "" => stage' = "refused"
        BY DEF Generate
      <3> QED
        BY <3>1 DEF EntriesInv
    <2>1. PICK listed \in FileOrders(Request.files) :
            IF ExpansionsFail(Request.manifest, OptionsIn(Request, listed))
            THEN manifest' = Empty /\ tasks' = Empty /\ refusal' = "not expanded"
            ELSE \E expanded \in Expansions(Request.manifest, OptionsIn(Request, listed)) :
                    manifest' = expanded /\ Write(generate(expanded))
      BY DEF Generate
    <2>2. ~ExpansionsFail(Request.manifest, OptionsIn(Request, listed))
      BY <2>1
    <2>3. PICK expanded \in Expansions(Request.manifest, OptionsIn(Request, listed)) : Write(generate(expanded))
      BY <2>1, <2>2
    <2>4. IsManifest(expanded)
      <3>1. plan.requests[turn] \in DOMAIN Requests
        BY RequestIs DEF IInv
      <3> QED
        BY <2>2, <3>1, ManifestsAssumption DEF Request
    <2>5. generate(expanded).raised = "" /\ tasks' = generate(expanded).task
      BY <2>3 DEF Write
    <2>6. \A t \in DOMAIN tasks' : /\ IsTask(tasks'[t]) /\ IsEntry(t, tasks'[t])
                                   /\ OutputsFirst(tasks', t)
                                   /\ ItemsFirst(tasks', t, "boto3_parameters")
      BY <2>4, <2>5, ParametersAreReadLate
    <2>7. DOMAIN status' = TasksToRun
      BY DEF Generate
    <2>8. ASSUME NEW o \in DOMAIN status', o[1] = "ssm_outputs"
          PROVE  tasks'[o].generating \in DOMAIN status' /\ FollowsItsItem(tasks', o)
      <3> DEFINE g == tasks'[o].generating
      <3>1. o \in DOMAIN tasks' /\ FollowsItsItem(tasks', o)
        <4>1. o \in DOMAIN tasks'
          BY <2>7, <2>8 DEF TasksToRun
        <4> QED
          BY <2>4, <2>5, <2>8, <4>1, OutputsFollowTheirItems
      <3>2. g \in DOMAIN tasks' /\ IsEntry(g, tasks'[g]) /\ IsEntry(o, tasks'[o])
        BY <2>6, <3>1 DEF FollowsItsItem
      <3>3. g[1] \in Provisioned /\ tasks'[o].section = "ssm_outputs"
        BY <2>8, <3>2 DEF IsEntry, Kinds
      <3>4. g \in DOMAIN status'
        <4>1. CASE ~Has(Request.options, "single_account")
          BY <2>7, <3>2, <4>1 DEF TasksToRun
        <4>2. CASE Has(Request.options, "single_account")
          <5> DEFINE own == {Puppet, Request.options.single_account}
          <5>1. g[3] \in own
            BY <2>7, <2>8, <3>3, <4>2 DEF TasksToRun
          <5> DEFINE item == tasks'[g]
          <5>2. item.account_id \in {g[3], ""}
            <6>1. g = RefOf(item) /\ ("ou_name" \in DOMAIN item => item.account_id = "")
              BY <3>2, <3>3 DEF IsEntry
            <6> HIDE DEF item, g
            <6>2. g[3] = Get(item, "ou_name", item.account_id)
              BY <6>1 DEF RefOf
            <6> QED
              BY <6>1, <6>2 DEF Get
          <5>3. g # CREATE_POLICIES /\ item.section # "ssm_outputs"
            <6>1. g[1] \in {"stacks", "launches"} /\ item.section = g[1]
              BY <3>2, <3>3 DEF Provisioned, Kinds, IsEntry
            <6>2. CREATE_POLICIES[1] = "create-policies"
              BY DEF CREATE_POLICIES
            <6> HIDE DEF item, g
            <6> QED
              BY <6>1, <6>2
          <5> HIDE DEF own, g
          <5> QED
            BY <2>7, <3>2, <4>2, <5>1, <5>2, <5>3 DEF TasksToRun, own, g
        <4> QED
          BY <4>1, <4>2
      <3> QED
        BY <3>1, <3>4
    <2> QED
      BY <2>6, <2>8 DEF EntriesInv
  <1> QED
    BY <1>2, <1>3 DEF FInv

\* A task that completes has made, written or read what it is to; what others have is theirs.
LEMMA FLeaveStep ==
  ASSUME IInv, PInv, FInv, NEW t \in Running, NEW result \in Run(t), NEW n \in 0..Len(result.steps),
         NEW becomes \in {"completed", "failed"}, Leave(t, result, n, becomes),
         becomes = "completed" => ~result.raised /\ n = Len(result.steps),
         out' = IF becomes = "completed" THEN Updated(out, [u \in {t} |-> result.output]) ELSE out,
         UNCHANGED <<turn, stage, files>>
  PROVE  FInv'
  <1> DEFINE task == tasks[t]
  <1>1. Kept(aws, May(aws, found[t], task), aws') /\ IsAccounts(aws)
    BY LeaveKeeps DEF PInv, PortfoliosInv
  <1>2. t \in DOMAIN status /\ IsEntry(t, task)
    BY RunningIs DEF FInv
  <1>3. /\ DOMAIN status' = DOMAIN status /\ tasks' = tasks
        /\ t \notin InStatus("completed")
        /\ InStatus("completed")' = IF becomes = "completed" THEN InStatus("completed") \cup {t}
                                    ELSE InStatus("completed")
    BY <1>2 DEF Leave, InStatus, Running, files
  <1>4. Mark' = Mark
    BY DEF Mark
  <1>5. /\ \A d : IsBrought(d, aws)' <=> IsBrought(d, aws')
        /\ \A o : IsWritten(o, aws)' <=> IsWritten(o, aws')
    BY <1>3, <1>4 DEF IsBrought, IsWritten
  <1>6. ASSUME becomes = "completed"
        PROVE  /\ ~result.raised
               /\ Len(result.steps) = 0 => aws' = aws
               /\ Len(result.steps) = 1 => aws' = result.steps[1]
    BY <1>6 DEF Leave, AwsAfter
  <1>7. /\ Stays(aws.content, Brings(task), aws'.content)
        /\ Stays(aws.store, Writes(task), aws'.store)
        /\ aws.attachments \subseteq aws'.attachments
    BY <1>1 DEF Kept, May
  <1>8. ContentInv'
    <2> SUFFICES ASSUME NEW ref \in DOMAIN aws'.content
                 PROVE  ref = <<ref[1], ref[2], ref[3], ref[4]>>
      BY DEF ContentInv
    <2>1. CASE ref \in Brings(task)
      <3>1. ref = RefOf(task)
        BY <2>1 DEF Brings
      <3> QED
        BY <3>1 DEF RefOf
    <2>2. CASE ref \notin Brings(task)
      <3>1. ref \in DOMAIN aws.content
        BY <1>7, <2>2 DEF Stays
      <3> QED
        BY <3>1 DEF FInv, ContentInv
    <2> QED
      BY <2>1, <2>2
  <1>9. BroughtInv'
    <2> SUFFICES ASSUME NEW d \in InStatus("completed")', d[1] \in Provisioned
                 PROVE  IsBrought(d, aws')
      BY <1>5 DEF BroughtInv
    <2>1. CASE d = t
      <3>1. becomes = "completed"
        BY <1>3, <2>1
      <3> QED
        BY <1>1, <1>6, <2>1, <3>1, BringsIt DEF FInv
    <2>2. CASE d # t
      <3>1. d \in InStatus("completed") /\ IsBrought(d, aws)
        BY <1>3, <2>2 DEF FInv, BroughtInv
      <3>2. d \notin Brings(task)
        <4> SUFFICES ASSUME task.section \in {"stacks", "launches", "workspaces"}, d = RefOf(task)
                     PROVE  FALSE
          BY DEF Brings
        <4>1. d[1] = task.section
          BY DEF RefOf
        <4>2. t = RefOf(task)
          BY <1>2, <4>1 DEF IsEntry, Kinds
        <4> QED
          BY <2>2, <4>2
      <3> QED
        BY <1>7, <3>1, <3>2 DEF IsBrought, Stays
    <2> QED
      BY <2>1, <2>2
  <1>10. WrittenInv'
    <2> SUFFICES ASSUME NEW o \in InStatus("completed")', o[1] = "ssm_outputs"
                 PROVE  IsWritten(o, aws')
      BY <1>5 DEF WrittenInv
    <2>1. CASE o = t
      <3>1. becomes = "completed"
        BY <1>3, <2>1
      <3> QED
        BY <1>1, <1>6, <2>1, <3>1, WritesIt DEF FInv
    <2>2. CASE o # t
      <3>1. o \in InStatus("completed") /\ IsWritten(o, aws)
        BY <1>3, <2>2 DEF FInv, WrittenInv
      <3>2. Tail(o) \notin Writes(task)
        <4> SUFFICES ASSUME task.section = "ssm_outputs", Tail(o) = task.name
                     PROVE  FALSE
          BY DEF Writes
        <4>1. t[1] = "ssm_outputs" /\ o[1] = "ssm_outputs"
          BY <1>2 DEF IsEntry, Kinds
        <4>2. IsEntry(o, tasks[o])
          BY <3>1, RunningIs DEF FInv, InStatus
        <4>3. /\ IsList(t) /\ t # <<>> /\ task.name = Tail(t)
              /\ IsList(o) /\ o # <<>>
          BY <1>2, <4>1, <4>2 DEF IsEntry
        <4> QED
          BY <2>2, <4>1, <4>3, TailIs
      <3> QED
        BY <1>7, <3>1, <3>2 DEF IsWritten, Stays
    <2> QED
      BY <2>1, <2>2
  <1>11. ReadInv'
    <2>1. \A r, output : HasRead(r, output)' <=> HasRead(r, output)
      BY <1>3, <1>4, <1>5 DEF HasRead, SourceOf
    <2> SUFFICES ASSUME NEW r \in InStatus("completed")'
                 PROVE  HasRead(r, out'[r])
      BY <2>1 DEF ReadInv
    <2>2. CASE r = t
      <3>1. becomes = "completed" /\ out'[t] = result.output
        BY <1>3, <2>2 DEF Updated
      <3> QED
        BY <2>2, <3>1, ReadsIt DEF FInv
    <2>3. CASE r # t
      <3>1. r \in InStatus("completed") /\ r \in DOMAIN out
        BY <1>3, <2>3, Zenon DEF IInv, TypeOK
      <3>2. out'[r] = out[r]
        BY <2>3, <3>1 DEF Updated
      <3> QED
        BY <3>1, <3>2 DEF FInv, ReadInv
    <2> QED
      BY <2>2, <2>3
  <1>12. EntriesInv'
    BY <1>3 DEF FInv, EntriesInv
  <1>13. AttachedInv'
    <2> SUFFICES ASSUME NEW u \in InStatus("completed")', IsPolicy(tasks[u])
                 PROVE  AttachmentOf(tasks[u]) \in aws'.attachments
      BY <1>3 DEF AttachedInv
    <2>1. CASE u = t
      <3>1. becomes = "completed"
        BY <1>3, <2>1
      <3> QED
        BY <1>1, <1>6, <2>1, <3>1, AttachesIt
    <2>2. CASE u # t
      <3>1. u \in InStatus("completed")
        BY <1>3, <2>2
      <3> QED
        BY <1>7, <3>1 DEF FInv, AttachedInv
    <2> QED
      BY <2>1, <2>2
  <1> QED
    BY <1>8, <1>9, <1>10, <1>11, <1>12, <1>13 DEF FInv

LEMMA FInvStep == IInv /\ PInv /\ FInv /\ [Next]_vars => FInv'
  <1> SUFFICES ASSUME IInv, PInv, FInv, [Next]_vars PROVE FInv'
    OBVIOUS
  <1>1. CASE Generate
    BY <1>1, FGenerateStep
  <1>2. ASSUME NEW t \in DOMAIN status, End(t) PROVE FInv'
    <2>1. t \in Running /\ UNCHANGED <<turn, stage, files>>
      BY <1>2 DEF End
    <2>2. PICK result \in Run(t) :
            /\ Leave(t, result, Len(result.steps), IF result.raised THEN "failed" ELSE "completed")
            /\ out' = IF result.raised THEN out
                      ELSE Updated(out, [u \in {t} |-> result.output])
      BY <1>2 DEF End
    <2> DEFINE becomes == IF result.raised THEN "failed" ELSE "completed"
    <2>3. Len(result.steps) \in Nat
      BY <2>1, RunKeeps DEF IInv, MadeInv, PInv, PortfoliosInv, KeptByAll, KeptBy
    <2>4. Len(result.steps) \in 0..Len(result.steps)
      BY <2>3
    <2>5. becomes \in {"completed", "failed"} /\ (becomes = "completed" <=> ~result.raised)
      OBVIOUS
    <2>6. /\ Leave(t, result, Len(result.steps), becomes)
          /\ out' = IF becomes = "completed" THEN Updated(out, [u \in {t} |-> result.output]) ELSE out
      BY <2>2
    <2> HIDE DEF becomes
    <2> QED
      BY <2>1, <2>4, <2>5, <2>6, FLeaveStep
  <1>3. ASSUME NEW t \in DOMAIN status, Interrupt(t) PROVE FInv'
    <2>1. t \in Running /\ UNCHANGED <<turn, stage, files>> /\ out' = out
      BY <1>3 DEF Interrupt
    <2>2. PICK result \in Run(t) : \E n \in 0..Len(result.steps) : Leave(t, result, n, "failed")
      BY <1>3 DEF Interrupt
    <2>3. PICK n \in 0..Len(result.steps) : Leave(t, result, n, "failed")
      BY <2>2
    <2> DEFINE becomes == "failed"
    <2>4. becomes \in {"completed", "failed"} /\ becomes # "completed"
      OBVIOUS
    <2>5. Leave(t, result, n, becomes)
      BY <2>3
    <2> HIDE DEF becomes
    <2> QED
      BY <2>1, <2>4, <2>5, FLeaveStep
  <1>4. CASE NextDeployment
    <2>1. stage' = "expanding" /\ InStatus("completed")' = {} /\ UNCHANGED aws
      BY <1>4, EmptyIs DEF NextDeployment, InStatus
    <2> QED
      BY <2>1 DEF FInv, EntriesInv, ContentInv, BroughtInv, WrittenInv, AttachedInv, ReadInv
  <1>5. CASE Stop \/ Over \/ Terminating \/ UNCHANGED vars \/ \E t \in DOMAIN status : Begin(t)
    <2>1. /\ UNCHANGED <<turn, tasks, out, aws>> /\ DOMAIN status' = DOMAIN status
          /\ stage' \in {"expanding", "refused"} <=> stage \in {"expanding", "refused"}
      BY <1>5 DEF Stop, Over, Terminating, Begin, vars, files
    <2>2. InStatus("completed")' = InStatus("completed")
      BY <1>5 DEF Stop, Over, Terminating, Begin, MayBegin, vars, InStatus
    <2>3. Mark' = Mark
      BY <2>1 DEF Mark
    <2>4. /\ \A d : IsBrought(d, aws)' <=> IsBrought(d, aws)
          /\ \A o : IsWritten(o, aws)' <=> IsWritten(o, aws)
      BY <2>1, <2>3 DEF IsBrought, IsWritten
    <2>5. \A r, output : HasRead(r, output)' <=> HasRead(r, output)
      BY <2>1, <2>3, <2>4 DEF HasRead, SourceOf
    <2>6. EntriesInv' /\ ContentInv' /\ AttachedInv'
      BY <2>1, <2>2 DEF FInv, EntriesInv, ContentInv, AttachedInv
    <2> QED
      BY <2>1, <2>2, <2>4, <2>5, <2>6 DEF FInv, BroughtInv, WrittenInv, ReadInv
  <1> QED
    BY <1>1, <1>2, <1>3, <1>4, <1>5 DEF Next

\* What an item reads is what something it depends on has made in the same deployment, although
\* one task reads a parameter for all its consumers and does not itself depend on what they do:
\* the third pass of the generation makes it wait for the outputs and the items behind each of
\* them, the run keeps that order, and no other task of the deployment makes a stack, a product
\* or a parameter of the same name (complete_generator.py:289 to 330). But for the stacks and
\* launches that read their own last output.
THEOREM ParametersAreFreshAlways == Spec => []ParametersAreFresh
  <1>1. IInv /\ FInv => ParametersAreFresh
    <2> SUFFICES ASSUME IInv, FInv, NEW t \in InStatus("completed"),
                        NEW d \in tasks[t].deps \cap DOMAIN status
                 PROVE  /\ \A r \in ReadFor(t, "ssm_parameters") : \A o \in WrittenBy(d) :
                              r = ParameterOf(o) => Mark \in {out[r][n] : n \in DOMAIN out[r]}
                        /\ \A r \in ReadFor(t, "boto3_parameters")
                                        \ ReadFor(d, "boto3_parameters") :
                              d = SourceOf(r) => out[r] = Mark
      BY DEF ParametersAreFresh
    <2>1. t \in DOMAIN status /\ status[t] # "pending"
      BY DEF InStatus
    <2>2. /\ IsTask(tasks[t]) /\ IsEntry(t, tasks[t]) /\ IsEntry(d, tasks[d])
          /\ OutputsFirst(tasks, t) /\ ItemsFirst(tasks, t, "boto3_parameters")
      BY <2>1, BegunIs DEF FInv
    <2>3. ASSUME NEW kind \in Consumed, NEW r \in ReadFor(t, kind)
          PROVE  /\ r \in ReadBy(tasks[t], kind) /\ IsReader(kind, r)
                 /\ r \in InStatus("completed")
      <3>1. r \in ReadBy(tasks[t], kind) /\ r \in DOMAIN status
        BY <2>3 DEF ReadFor, ReadBy
      <3>2. PICK p \in DOMAIN Get(tasks[t], kind, Empty) : r = Get(tasks[t], kind, Empty)[p]
        BY <3>1 DEF ReadBy
      <3>3. kind \in DOMAIN tasks[t] /\ p \in DOMAIN tasks[t][kind] /\ r = tasks[t][kind][p]
        BY <3>2, EmptyIs DEF Get
      <3>4. IsReader(kind, r)
        BY <2>2, <2>3, <3>3 DEF IsTask, IsBare, AreReaders
      <3>5. r \in tasks[t].deps
        BY <2>2, <2>3, <3>3 DEF IsEntry
      <3> QED
        BY <2>1, <3>1, <3>4, <3>5, BegunIs DEF FInv
    <2>4. ASSUME NEW r \in ReadFor(t, "ssm_parameters"), NEW o \in WrittenBy(d), r = ParameterOf(o)
          PROVE  Mark \in {out[r][n] : n \in DOMAIN out[r]}
      <3>1. r \in ReadBy(tasks[t], "ssm_parameters") /\ HasRead(r, out[r])
        BY <2>3 DEF FInv, ReadInv, Consumed
      <3>2. o \in Get(tasks[d], "ssm_outputs", {}) /\ o \in DOMAIN status
        BY DEF WrittenBy
      <3>3. o \in tasks[r].deps
        BY <2>2, <2>4, <3>1, <3>2 DEF OutputsFirst
      <3>4. o[1] = "ssm_outputs"
        <4>1. IsTask(tasks[d])
          BY <2>1, BegunIs DEF FInv
        <4>2. "ssm_outputs" \in DOMAIN tasks[d] /\ o \in tasks[d].ssm_outputs
          BY <3>2 DEF Get
        <4> QED
          BY <4>1, <4>2 DEF IsTask, IsBare, AreOutputs
      <3>5. tasks[o].status # "terminated"
        BY DEF WrittenBy
      <3>6. r[1] = "ssm_parameters"
        <4>1. IsEntry(o, tasks[o])
          BY <2>1, <3>2, BegunIs DEF FInv
        <4>2. IsList(o) /\ o # <<>>
          BY <3>4, <4>1 DEF IsEntry
        <4> QED
          BY <2>4, <4>2, SameTail
      <3> QED
        BY <2>4, <3>1, <3>2, <3>3, <3>4, <3>5, <3>6 DEF HasRead
    <2>5. ASSUME NEW r \in ReadFor(t, "boto3_parameters") \ ReadFor(d, "boto3_parameters"),
                 d = SourceOf(r)
          PROVE  out[r] = Mark
      <3>1. /\ r \in ReadBy(tasks[t], "boto3_parameters") /\ HasRead(r, out[r])
            /\ r[1] = "boto3_parameters" /\ r \in DOMAIN status
        BY <2>3 DEF FInv, ReadInv, Consumed, IsReader, InStatus
      <3>2. r \notin ReadBy(tasks[d], "boto3_parameters")
        BY <2>5, <3>1 DEF ReadFor, ReadBy
      <3>3. tasks[d].section \in ALL_SECTION_NAMES
        <4>1. d[1] \in Provisioned
          BY <2>5 DEF SourceOf, Provisioned
        <4>2. tasks[d].section \in Provisioned
          BY <2>2, <4>1 DEF IsEntry, Kinds
        <4> QED
          BY <4>2, ReadersAreNoItems
      <3>4. d \in tasks[r].deps
        BY <2>2, <3>1, <3>2, <3>3 DEF ItemsFirst
      <3> QED
        BY <2>5, <3>1, <3>4 DEF HasRead
    <2> QED
      BY <2>4, <2>5
  <1> QED
    BY InvInit, InvStep, PInvInit, PInvStep, FInvInit, FInvStep, <1>1, PTL DEF Spec

\* A task that completed has brought the accounts to what the manifest asks for of it, and there
\* it stays while others run: its stack or product is that of this deployment or is gone, its
\* output is in the parameter store or is gone, its policy is attached. The spoke local portfolios,
\* which several tasks make together, are left out.
ItemsAsAsked ==
    \A t \in InStatus("completed") :
        tasks[t].section # "spoke-local-portfolios" => ItemAsAsked(t)

THEOREM ItemsAreAsAsked == Spec => []ItemsAsAsked
  <1>1. IInv /\ FInv => ItemsAsAsked
    <2> SUFFICES ASSUME IInv, FInv, NEW t \in InStatus("completed"),
                        tasks[t].section # "spoke-local-portfolios"
                 PROVE  ItemAsAsked(t)
      BY DEF ItemsAsAsked
    <2> DEFINE task == tasks[t]
    <2>1. IsEntry(t, task)
      BY BegunIs DEF FInv, InStatus
    <2>2. CASE task.section \in {"stacks", "launches"}
      <3>1. t[1] \in Provisioned
        BY <2>1, <2>2 DEF IsEntry, Kinds, Provisioned
      <3> QED
        BY <2>2, <3>1 DEF FInv, BroughtInv, IsBrought, ItemAsAsked
    <2>3. CASE task.section = "ssm_outputs"
      <3>1. t[1] = "ssm_outputs" /\ task.name = Tail(t)
        BY <2>1, <2>3 DEF IsEntry, Kinds
      <3> QED
        BY <2>3, <3>1 DEF FInv, WrittenInv, IsWritten, ItemAsAsked
    <2>4. CASE task.section \in {"service-control-policies", "tag-policies"}
      BY <2>4 DEF FInv, AttachedInv, IsPolicy, AttachmentOf, ItemAsAsked
    <2>5. CASE task.section \notin {"stacks", "launches", "ssm_outputs",
                                    "service-control-policies", "tag-policies"}
      BY <2>5 DEF ItemAsAsked
    <2> QED
      BY <2>2, <2>3, <2>4, <2>5
  <1> QED
    BY InvInit, InvStep, PInvInit, PInvStep, FInvInit, FInvStep, <1>1, PTL DEF Spec
=============================================================================
