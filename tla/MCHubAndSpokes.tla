--------------------------- MODULE MCHubAndSpokes ---------------------------
(***************************************************************************)
(* The references of three tasks x, y, z after CREATE_POLICIES, in the     *)
(* accounts of the hub and of two spokes: every kind of task that the      *)
(* split tells apart, with every choice of dependencies in which y may     *)
(* depend on x, and z on one of them or on both.                           *)
(***************************************************************************)
EXTENDS HubAndSpokes, TLC

CONSTANTS policies, x, y, z, h, s1, s2

MCTasks    == {policies, x, y, z}
MCAccounts == {h, s1, s2}

Kind(e, s, as) == [execution : {e}, section : {s}, account : as]

ShareAccount == "portfolio-share-and-accept-account"
ShareOrgs    == "portfolio-share-and-accept-aws-organizations"
GetProducts  == "portfolio-get-all-products-and-their-versions"

\* The kinds of task: one spoke is enough where the account is not the question.
Kinds ==
    Kind("hub", "other", {s1}) \cup Kind("async", "other", {h})
        \cup Kind("spoke", "other", {h, s1, s2})
        \cup Kind("spoke", ShareAccount, {s1}) \cup Kind("spoke", GetProducts, {h, s1})
        \cup Kind("hub-and-spoke-split", "other", {h, s1})
        \cup Kind("hub-and-spoke-split", ShareOrgs, {s1})

\* The kinds of x, which depends on neither y nor z, and of z, on which neither depends. Those
\* in the account of the hub are left to y, which is the dependency and the dependent of others,
\* but for the spoke mode.
KindsOfX == {k \in Kinds : k.account = s1} \cup Kind("spoke", "other", {h})
KindsOfZ == {k \in KindsOfX : k.section = "other"}

\* y is an SSM output of x, in the execution mode of x, in the account of x or of the hub.
OutputOf(k) ==
    [execution : {k.execution}, section : {"ssm-outputs"}, account : {h, k.account}]

Policies == [execution |-> "hub", section |-> "create-policies", account |-> h]

TaskReference(kx, ky, kz, dy, dz) ==
    LET kind == (policies :> Policies) @@ (x :> kx) @@ (y :> ky) @@ (z :> kz)
    IN  [account   |-> [t \in MCTasks |-> kind[t].account],
         execution |-> [t \in MCTasks |-> kind[t].execution],
         section   |-> [t \in MCTasks |-> kind[t].section],
         deps      |-> (policies :> {}) @@ (x :> {policies}) @@ (y :> dy) @@ (z :> dz)]

\* z depends on another: a z that waits for nobody would add no more than orders.
DepsOfZ == SUBSET {x, y} \ {{}}

MCReferences ==
    {TaskReference(kx, ky, kz, dy \cup {policies}, dz \cup {policies}) :
        kx \in KindsOfX, ky \in Kinds, kz \in KindsOfZ, dy \in SUBSET {x}, dz \in DepsOfZ}
    \cup
    UNION {{TaskReference(kx, ky, kz, {x}, dz \cup {policies}) :
        ky \in OutputOf(kx), kz \in KindsOfZ, dz \in DepsOfZ} :
            kx \in {k \in KindsOfX : k.section = "other"}}

\* Some of them, for the runs that follow whole behaviours.
FewReferences ==
    {r \in MCReferences :
        /\ r.execution[x] = "spoke" /\ r.account[x] = s1 /\ r.section[x] = "other"
        /\ r.execution[y] = "spoke" /\ r.account[y] # s2
        /\ r.execution[z] # "spoke"}
=============================================================================
