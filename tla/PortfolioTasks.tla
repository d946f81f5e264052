---------------------------- MODULE PortfolioTasks ----------------------------
(***************************************************************************)
(* What the tasks of portfolios do when they run (workflow/portfolio).     *)
(* aws is what is in the accounts: a record of the portfolios, the         *)
(* products in them, their shares and principals, the stacks that the tool *)
(* makes, and what ActionTasks adds to it.  out has the output of each     *)
(* task that completed.                                                    *)
(*                                                                         *)
(* A portfolio is identified by its account, region, name and a number. A  *)
(* product goes by its name, as it does in the code, and is the set of its *)
(* versions.  A pattern is its text and the names that it matches: those   *)
(* of products, or of the principals of the account, which go by what      *)
(* their resource is named after, as the roles of a constraint do.         *)
(***************************************************************************)
EXTENDS PortfolioGenerators

\* What a run may come to: what is in the accounts after each call that changes it, the
\* output, and whether it raises. A run is a set of results: AWS may answer in several ways.
Result(steps, output) == [steps |-> steps, output |-> output, raised |-> FALSE]
Done(output) == {Result(<<>>, output)}
Does(aws, output) == {Result(<<aws>>, output)}
RaisesAfter(steps) == {[steps |-> steps, output |-> Empty, raised |-> TRUE]}
Raises == RaisesAfter(<<>>)

\* The output of find_portfolio that found nothing is no dict: who reads an id from it
\* raises. An empty output has no id.
NotFound == <<"False">>

Named(aws, account, region, name) ==
    {id \in aws.portfolios : id[1] = account /\ id[2] = region /\ id[3] = name}

\* AWS tells an account of its own portfolios and of those shared with it: with the account,
\* once it has accepted, or with a unit that it is in.
SharedWith(aws, account) ==
    {id \in aws.portfolios :
        \/ <<id, account>> \in aws.accepted
        \/ \E ou \in DOMAIN Organization.within :
              <<id, ou>> \in aws.shares /\ account \in Organization.within[ou]}

Sees(aws, account, id) ==
    id \in aws.portfolios /\ (id[1] = account \/ id \in SharedWith(aws, account))

Products(aws, id) == Get(aws.products, id, Empty)

WithVersions(products, new) ==
    [p \in DOMAIN products \cup DOMAIN new |-> Get(products, p, {}) \cup Get(new, p, {})]

SetProducts(aws, id, products) ==
    [aws EXCEPT !.products = Updated(@, [i \in {id} |-> products])]

SetStack(aws, task, name, content) ==
    [aws EXCEPT !.stacks = Updated(@, [s \in {<<task.account_id, task.region, name>>} |-> content])]

\* ensure_deleted.
DeleteStack(aws, task, name) ==
    [aws EXCEPT !.stacks = Without(@, {<<task.account_id, task.region, name>>})]

-----------------------------------------------------------------------------
(* Looking for a portfolio *)

GetPortfolioLocal(aws, task) ==
    LET found == Named(aws, task.account_id, task.region, task.portfolio) IN
    IF found # {} THEN UNION {Done(id) : id \in found}
    ELSE IF task.status = "terminated" THEN Done(Empty)
    ELSE Raises

GetPortfolioImported(aws, task) ==
    LET found == {id \in SharedWith(aws, task.account_id) :
                     id[2] = task.region /\ id[3] = task.portfolio} IN
    IF found = {} THEN Raises ELSE UNION {Done(id) : id \in found}

\* Without an id there are no products; a portfolio that the account does not see is an error.
GetAllProductsAndTheirVersions(aws, out, task) ==
    LET id == out[task.portfolio_task] IN
    IF id = Empty THEN Done(Empty)
    ELSE IF Sees(aws, task.account_id, id) THEN Done(Products(aws, id))
    ELSE Raises

-----------------------------------------------------------------------------
(* spoke-local-portfolios *)

CreatePortfolio(aws, task) ==
    LET n == Cardinality(Named(aws, task.account_id, task.region, task.portfolio)) + 1
        id == <<task.account_id, task.region, task.portfolio, n>>
    IN Does([aws EXCEPT !.portfolios = @ \cup {id}], id)

\* ensure_portfolio: what was found a moment ago decides what is created now. In the hub
\* it is only looked for.
CreateSpokeLocalPortfolio(aws, out, found, task) ==
    IF found # {} THEN UNION {Done(id) : id \in found}
    ELSE IF task.account_id = Puppet THEN Done(NotFound)
    ELSE IF out[LocalRef(Puppet, task)] = NotFound THEN Raises
    ELSE CreatePortfolio(aws, task)

\* AWS deletes a portfolio when nothing uses it.
InUse(aws, id) ==
    \/ Products(aws, id) # Empty
    \/ \E s \in aws.shares \cup aws.principals : s[1] = id
    \/ \E s \in DOMAIN aws.stacks : \E use \in aws.stacks[s] : use[2] = id

TerminateSpokeLocalPortfolio(aws, task) ==
    LET found == Named(aws, task.account_id, task.region, task.portfolio)
        Delete1(id) == IF InUse(aws, id) THEN Raises
                       ELSE Does([aws EXCEPT !.portfolios = @ \ {id}], Empty)
    IN IF task.account_id = Puppet \/ found = {} THEN Done(Empty)
       ELSE UNION {Delete1(id) : id \in found}

-----------------------------------------------------------------------------
(* The puppet role *)

\* Both wait until AWS shows what was asked for.
CreateAssociations(aws, out, task) ==
    LET id == out[task.portfolio_task] IN
    IF ~Sees(aws, task.account_id, id) THEN Raises
    ELSE IF <<id, task.account_id>> \in aws.principals THEN Done(Empty)
    ELSE Does([aws EXCEPT !.principals = @ \cup {<<id, task.account_id>>}], Empty)

TerminateAssociations(aws, out, task) ==
    LET id == out[task.portfolio_task] IN
    IF id = Empty THEN Done(Empty)
    ELSE IF ~Sees(aws, task.account_id, id) THEN Raises
    ELSE Does([aws EXCEPT !.principals = @ \ {<<id, task.account_id>>}], Empty)

-----------------------------------------------------------------------------
(* Shares *)

DescribePortfolioShares(aws, out, task) ==
    LET id == out[task.portfolio_task] IN
    IF id \in {Empty, NotFound} THEN Raises
    ELSE Done({s[2] : s \in {t \in aws.shares : t[1] = id}})

\* A share that is there already is not accepted again.
ShareAndAcceptPortfolioForAccount(aws, out, task) ==
    LET id == out[task.portfolio_task]
        shared == [aws EXCEPT !.shares = @ \cup {<<id, task.with>>}]
        accepted == [shared EXCEPT !.accepted = @ \cup {<<id, task.with>>}]
    IN IF task.with \in out[task.described_by] THEN Done(Empty)
       ELSE IF <<id, task.with>> \in aws.accepted THEN Does(shared, Empty)
       ELSE {Result(<<shared, accepted>>, Empty)}

\* Sharing with a unit may end with errors, of which those for duplicates do not count.
SharePortfolioViaOrgs(aws, out, task) ==
    LET id == out[task.portfolio_task]
        shared == [aws EXCEPT !.shares = @ \cup {<<id, task.with>>}]
    IN IF task.with \in out[task.described_by] THEN Done(Empty)
       ELSE Does(shared, Empty) \cup RaisesAfter(<<shared>>)

-----------------------------------------------------------------------------
(* Products *)

Versions(products, p) == products[p] \ {"-"}

\* What the spoke has gets the versions that it lacks; the rest is copied and then added to
\* the portfolio. A product without a version to copy has no copy to add.
CopyIntoSpokeLocalPortfolio(aws, out, task) ==
    LET id == out[task.portfolio_task]
        hub == out[task.hub_products_ref]
        known == DOMAIN hub \cap DOMAIN out[task.products_ref]
        new == DOMAIN hub \ known
        updated == SetProducts(aws, id,
            WithVersions(Products(aws, id), [p \in known |-> Versions(hub, p)]))
        added == SetProducts(updated, id,
            WithVersions(Products(updated, id), [p \in new |-> Versions(hub, p)]))
    IN IF \E p \in new : Versions(hub, p) = {} THEN RaisesAfter(<<updated>>)
       ELSE {Result(<<updated, added>>, Empty)}

\* The products of the hub themselves are added.
ImportIntoSpokeLocalPortfolio(aws, out, task) ==
    LET id == out[task.portfolio_task]
        hub == out[task.hub_products_ref]
        new == DOMAIN hub \ DOMAIN out[task.products_ref]
    IN Does(SetProducts(aws, id, WithVersions(Products(aws, id), [p \in new |-> hub[p]])), Empty)

DisassociateProductsFromPortfolio(aws, out, task) ==
    LET id == out[task.portfolio_task] IN
    IF id = Empty THEN Done(Empty)
    ELSE IF ~Sees(aws, task.account_id, id) THEN Raises
    ELSE Does(SetProducts(aws, id, Empty), Empty)

-----------------------------------------------------------------------------
(* Associations and constraints are made by stacks. They are named after the portfolio  *)
(* when they are made, and after the item when they are terminated.                     *)

AssociationsStack(name) == <<"associations-v2-for", name>>
LaunchConstraintsStack(name) == <<"launch-constraints-for", name>>
UpdateConstraintsStack(name) == <<"update-resource-constraints-for", name>>

\* A template has no two resources of one name: add_resource raises for the second, whether it
\* is the same or not. A use is a pattern with what it is used for, which names the resource.
Clash(uses) == \E u, v \in uses : u # v /\ Tail(u) = Tail(v)

\* The principals that match. There may be none.
CreateAssociationsForSpokeLocalPortfolio(aws, out, task) ==
    LET id == out[task.portfolio_task]
        stack == AssociationsStack(task.portfolio)
        uses == UNION {{pattern} \X pattern.matches : pattern \in task.associations}
        Resource(use) == <<"principal", id, use[2]>>
    IN IF id = NotFound \/ Clash(uses) THEN Raises
       ELSE IF uses = {} THEN Does(DeleteStack(aws, task, stack), Empty)
       ELSE IF ~Sees(aws, task.account_id, id) THEN Raises
       ELSE Does(SetStack(aws, task, stack, {Resource(use) : use \in uses}), Empty)

\* CloudFormation refuses a stack without resources.
CreateLaunchRoleConstraints(aws, out, task) ==
    LET id == out[task.portfolio_task]
        products == DOMAIN out[task.products_ref]
        roles == task.constraints
        uses == UNION {{pattern} \X (pattern.matches \cap products) \X roles[pattern] :
                          pattern \in DOMAIN roles}
        Resource(use) == <<"launch", id, use[2], use[3]>>
    IN IF uses = {} \/ Clash(uses) \/ ~Sees(aws, task.account_id, id) THEN Raises
       ELSE Does(SetStack(aws, task, LaunchConstraintsStack(task.portfolio),
                          {Resource(use) : use \in uses}), Empty)

\* A pattern that matches no product is an error here.
CreateUpdateResourceConstraints(aws, out, task) ==
    LET id == out[task.portfolio_task]
        products == DOMAIN out[task.products_ref]
        uses == UNION {{pattern} \X (pattern.matches \cap products) :
                          pattern \in DOMAIN task.constraints}
        Resource(use) == <<"update", id, use[2], task.constraints[use[1]]>>
    IN IF \/ \E pattern \in DOMAIN task.constraints : pattern.matches \cap products = {}
          \/ Clash(uses) \/ ~Sees(aws, task.account_id, id)
       THEN Raises
       ELSE Does(SetStack(aws, task, UpdateConstraintsStack(task.portfolio),
                          {Resource(use) : use \in uses}), Empty)

TerminateStackOf(aws, task, name) == Does(DeleteStack(aws, task, name), Empty)

-----------------------------------------------------------------------------
(* task_factory.create, for the tasks of portfolios *)

PortfolioSections ==
    {"spoke-local-portfolios", "portfolio-local", "portfolio-imported",
     "portfolio-puppet-role-association", "portfolio-share-and-accept-account",
     "portfolio-share-and-accept-aws_organizations", "describe-portfolio-shares",
     "portfolio-get-all-products", "portfolio-copy", "portfolio-import",
     "portfolio-disassociate-all-products", "portfolio-associations",
     "portfolio-constraints-launch", "portfolio-constraints-resource_update"}

RunTerminated(aws, out, task) ==
    CASE task.section = "spoke-local-portfolios" -> TerminateSpokeLocalPortfolio(aws, task)
      [] task.section = "portfolio-puppet-role-association" -> TerminateAssociations(aws, out, task)
      [] task.section = "portfolio-associations" ->
            TerminateStackOf(aws, task, AssociationsStack(task.item))
      [] task.section = "portfolio-constraints-launch" ->
            TerminateStackOf(aws, task, LaunchConstraintsStack(task.item))
      [] task.section = "portfolio-constraints-resource_update" ->
            TerminateStackOf(aws, task, UpdateConstraintsStack(task.item))

RunProvisioned(aws, out, found, task) ==
    CASE task.section = "spoke-local-portfolios" -> CreateSpokeLocalPortfolio(aws, out, found, task)
      [] task.section = "portfolio-puppet-role-association" -> CreateAssociations(aws, out, task)
      [] task.section = "portfolio-associations" ->
            CreateAssociationsForSpokeLocalPortfolio(aws, out, task)
      [] task.section = "portfolio-constraints-launch" ->
            CreateLaunchRoleConstraints(aws, out, task)
      [] task.section = "portfolio-constraints-resource_update" ->
            CreateUpdateResourceConstraints(aws, out, task)

RunPortfolioTask(aws, out, found, task) ==
    CASE task.section = "portfolio-local" -> GetPortfolioLocal(aws, task)
      [] task.section = "portfolio-imported" -> GetPortfolioImported(aws, task)
      [] task.section = "portfolio-get-all-products" -> GetAllProductsAndTheirVersions(aws, out, task)
      [] task.section = "describe-portfolio-shares" -> DescribePortfolioShares(aws, out, task)
      [] task.section = "portfolio-share-and-accept-account" ->
            ShareAndAcceptPortfolioForAccount(aws, out, task)
      [] task.section = "portfolio-share-and-accept-aws_organizations" ->
            SharePortfolioViaOrgs(aws, out, task)
      [] task.section = "portfolio-copy" -> CopyIntoSpokeLocalPortfolio(aws, out, task)
      [] task.section = "portfolio-import" -> ImportIntoSpokeLocalPortfolio(aws, out, task)
      [] task.section = "portfolio-disassociate-all-products" ->
            DisassociateProductsFromPortfolio(aws, out, task)
      [] OTHER -> IF task.status = "terminated" THEN RunTerminated(aws, out, task)
                  ELSE RunProvisioned(aws, out, found, task)
=============================================================================
