------------------------- MODULE PortfolioGenerators -------------------------
(***************************************************************************)
(* The tasks that the generators of commands/task_reference_helpers add    *)
(* for an item that uses a portfolio of the hub: launches, imported and    *)
(* spoke-local portfolios.  Each operator takes the table and returns it   *)
(* with its tasks added.  Most tasks are added once: who comes first says  *)
(* what such a task depends on.                                            *)
(***************************************************************************)
EXTENDS TaskTable

\* What a task made for the item of `task` takes over from it.
Portfolio(section, task, account, deps) ==
    Updated(Task(section, account, task.region, deps),
            [portfolio |-> task.portfolio, execution |-> task.execution])

WithStatus(new, task) == Updated(new, [status |-> task.status])

\* Its portfolio_task_reference: the task whose output has the id of the portfolio.
WithId(new, portfolioRef) == Updated(new, [portfolio_task |-> portfolioRef])

PortfolioRef(kind, account, task) == <<kind, account, task.region, task.portfolio>>
LocalRef(account, task) == PortfolioRef("portfolio-local", account, task)
AssociationRef(account, task) == PortfolioRef("portfolio-puppet-role-association", account, task)
ProductsRef(when, account, task) ==
    <<"portfolio-get-all-products", when, account, task.region, task.portfolio>>
ShareRef(task) ==
    PortfolioRef("portfolio_share_and_accept",
                 IF task.sharing_mode = "ACCOUNT" THEN task.account_id ELSE task.ou, task)
DescribeRef(task) == <<"describe-portfolio-shares", task.sharing_mode>> \o LocalRef(Puppet, task)
OfItem(kind, task) == <<kind, task.section, task.name, task.account_id, task.region>>
OfPortfolio(kind, task) == <<kind, task.portfolio, task.account_id, task.region>>

-----------------------------------------------------------------------------
(* Shared by the three generators *)

WithHubPortfolio(table, task, execution) ==
    PutNew(table, LocalRef(Puppet, task),
           Updated(WithStatus(Portfolio("portfolio-local", task, Puppet, {}), task),
                   [execution |-> execution]))

WithAssociation(table, task, account, portfolioRef, deps) ==
    PutNew(table, AssociationRef(account, task),
           WithId(Portfolio("portfolio-puppet-role-association", task, account,
                            {portfolioRef} \cup deps), portfolioRef))

ShareSection(task) ==
    IF task.sharing_mode = "ACCOUNT" THEN "portfolio-share-and-accept-account"
    ELSE "portfolio-share-and-accept-aws_organizations"

\* task_to_add.get("ou")[0:3] raises where there is none.
HasNoUnit(task) ==
    task.account_id # Puppet /\ task.sharing_mode # "ACCOUNT" /\ ~Has(task, "ou")

\* With AWS Organizations a portfolio is shared with the unit of the account.
WithShare(table, task) ==
    LET hub == LocalRef(Puppet, task)
        described == PutNew(table, DescribeRef(task),
            WithId(Portfolio("describe-portfolio-shares", task, Puppet, {hub}), hub))
    IN PutNew(described, ShareRef(task),
          Updated(WithId(Portfolio(ShareSection(task), task, task.account_id,
                                   {hub, CREATE_POLICIES, DescribeRef(task)}), hub),
                  [with |-> ShareRef(task)[2], described_by |-> DescribeRef(task)]))

WithProducts(table, task, when, account, portfolioRef, deps) ==
    PutNew(table, ProductsRef(when, account, task),
           WithId(Portfolio("portfolio-get-all-products", task, account,
                            {portfolioRef} \cup deps), portfolioRef))

\* Of the list of constraints, what each product gets.
RolesOf(constraints) ==
    [p \in UNION {c.products : c \in constraints} |->
        UNION {c.roles : c \in {d \in constraints : p \in d.products}}]

-----------------------------------------------------------------------------
(* handle_launches *)

handle_launches(table, ref, task) ==
    LET hub == LocalRef(Puppet, task)
        imported == PortfolioRef("portfolio-imported", task.account_id, task)
        inSpoke(t) ==
            LET shared == WithShare(t, task)
                withImported == PutNew(shared, imported,
                    Updated(Portfolio("portfolio-imported", task, task.account_id, {ShareRef(task)}),
                            [execution |-> "hub"]))
                associated == WithAssociation(withImported, task, task.account_id, imported, {})
            IN AddDeps(associated, ref, {AssociationRef(task.account_id, task)})
        fromHub == WithHubPortfolio(table, task, "hub")
        toSpoke == IF task.account_id = Puppet THEN fromHub ELSE inSpoke(fromHub)
        associated == WithAssociation(toSpoke, task, Puppet, hub, {})
        describe == <<"describe-provisioning-parameters", Puppet, task.region, task.portfolio,
                      task.product, task.version>>
        described == PutNew(associated, describe,
            Updated(Portfolio("describe-provisioning-parameters", task, Puppet,
                              {hub, AssociationRef(Puppet, task)}),
                    [execution |-> "hub", product |-> task.product]))
        withProducts == WithProducts(described, task, "", Puppet, hub, {AssociationRef(Puppet, task)})
    IN IF HasNoUnit(task) THEN Raise(table, "no unit")
       ELSE Set(AddDeps(withProducts, ref, {ProductsRef("", Puppet, task), describe}),
                ref, "products_ref", ProductsRef("", Puppet, task))

-----------------------------------------------------------------------------
(* handle_imported_portfolios *)

WithTerminatedStack(table, task, kind, section, deps) ==
    PutNew(table, OfItem(kind, task),
           Updated(Portfolio(section, task, task.account_id, deps),
                   [status |-> "terminated", item |-> task.name]))

\* The stacks of a portfolio that was a spoke local portfolio go, whatever the status. For
\* an item that is terminated the generator has not set the dependencies yet and raises.
WithoutSpokeLocal(table, task, deps) ==
    LET all == deps \cup {CREATE_POLICIES} IN
    WithTerminatedStack(
        WithTerminatedStack(table, task, "launch_constraints", "portfolio-constraints-launch", all),
        task, "resource_update_constraints", "portfolio-constraints-resource_update", all)

ImportedAssociations(table, task, target, deps) ==
    IF task.associations = {} THEN table
    ELSE Put(table, OfItem("portfolio_associations", task),
             Updated(WithId(WithStatus(Portfolio("portfolio-associations", task, task.account_id,
                                                 {target, CREATE_POLICIES} \cup deps), task),
                            target),
                     [item |-> task.name, associations |-> task.associations]))

handle_imported_portfolios(table, ref, task) ==
    LET was == Get(task, "was_a_spoke_local_portfolio", FALSE)
        hub == LocalRef(Puppet, task)
        deps == IF task.account_id = Puppet THEN {} ELSE {ShareRef(task)}
        shared == WithHubPortfolio(WithShare(table, task), task, task.execution)
        \* The task of the item is gone: nobody may depend on it.
        inSpoke == WithAssociation(
                       WithAssociation(Delete(shared, ref), task, Puppet, hub, {CREATE_POLICIES}),
                       task, task.account_id, hub, {CREATE_POLICIES} \cup deps)
        inHub == WithAssociation(table, task, Puppet, ref, {CREATE_POLICIES})
        provisioned == IF task.account_id = Puppet
                       THEN ImportedAssociations(inHub, task, AssociationRef(Puppet, task), deps)
                       ELSE ImportedAssociations(inSpoke, task, hub, deps)
        terminated == IF task.associations = {} THEN table
                      ELSE Delete(WithTerminatedStack(table, task, "portfolio_associations",
                                      "portfolio-associations", {CREATE_POLICIES}), ref)
    IN IF task.status # "terminated" /\ HasNoUnit(task) THEN Raise(table, "no unit")
       ELSE IF task.status # "terminated" /\ ~was THEN provisioned
       ELSE IF task.status # "terminated" THEN WithoutSpokeLocal(provisioned, task, deps)
       ELSE IF was THEN Raise(table, "dependencies are not set")
       ELSE terminated

-----------------------------------------------------------------------------
(* handle_spoke_local_portfolios, for a portfolio that is to go *)

\* Its stacks are those named after the item.
OwnStacks(task) ==
    (IF task.associations = {} THEN {} ELSE {<<"portfolio_associations", "portfolio-associations">>})
    \cup (IF ~Has(task.constraints, "launch") THEN {}
          ELSE {<<"launch_constraints", "portfolio-constraints-launch">>})
    \cup (IF ~Has(task.constraints, "resource_update") THEN {}
          ELSE {<<"resource_update_constraints", "portfolio-constraints-resource_update">>})

WithoutStacks(table, task) ==
    FoldLeft(LAMBDA t, s : WithTerminatedStack(t, task, s[1], s[2], {CREATE_POLICIES}),
             table, SetToSeq(OwnStacks(task)))

DisassociateRef(task) == PortfolioRef("portfolio-disassociate-all-products", task.account_id, task)

WithoutProducts(table, task) ==
    LET local == LocalRef(task.account_id, task)
        products == ProductsRef("", task.account_id, task)
    IN PutNew(WithProducts(table, task, "", task.account_id, local, {}), DisassociateRef(task),
              Updated(WithId(Portfolio("portfolio-disassociate-all-products", task,
                                       task.account_id, {products, local, CREATE_POLICIES}),
                             local),
                      [execution |-> "hub"]))

terminate_spoke_local_portfolio(table, ref, task) ==
    LET local == LocalRef(task.account_id, task)
        looked == PutNew(WithoutStacks(table, task), local,
            WithStatus(Portfolio("portfolio-local", task, task.account_id, {CREATE_POLICIES}), task))
        emptied == IF task.account_id = Puppet THEN looked ELSE WithoutProducts(looked, task)
        associated == PutNew(emptied, AssociationRef(task.account_id, task),
            WithId(WithStatus(Portfolio("portfolio-puppet-role-association", task,
                                        task.account_id, {local, CREATE_POLICIES}), task), local))
    IN AddDeps(associated, ref,
               {OfItem(s[1], task) : s \in OwnStacks(task)} \cup {AssociationRef(task.account_id, task)}
               \cup IF task.account_id = Puppet THEN {} ELSE {DisassociateRef(task)})

-----------------------------------------------------------------------------
(* handle_spoke_local_portfolios, for a portfolio that is to be there *)

CopyRef(task) ==
    <<"portfolio", task.product_generation_method, task.account_id, task.region, task.portfolio>>
After(task) == ProductsRef("after", task.account_id, task)

\* In the account of the hub there is nothing to share or to copy.
InHub(table, ref, task) ==
    WithProducts(WithAssociation(table, task, Puppet, ref, {CREATE_POLICIES}),
                 task, "after", Puppet, ref, {AssociationRef(Puppet, task)})

\* The portfolio of the hub is shared, the puppet role may use that of the spoke, and
\* what is in the one and not in the other is copied or imported.
InSpoke(table, ref, task) ==
    LET hub == LocalRef(Puppet, task)
        spoke == AssociationRef(task.account_id, task)
        before == ProductsRef("before", Puppet, task)
        products == ProductsRef("", task.account_id, task)
        hubKnown == AddDeps(WithHubPortfolio(table, task, task.execution), ref, {hub})
        hubReady == WithAssociation(hubKnown, task, Puppet, hub, {CREATE_POLICIES})
        shared == WithProducts(WithShare(hubReady, task), task, "before", Puppet, hub,
                               {AssociationRef(Puppet, task)})
        spokeReady == WithAssociation(shared, task, task.account_id, ref,
                                      {CREATE_POLICIES, ShareRef(task)})
        import == task.product_generation_method = "import"
    IN Put(WithProducts(spokeReady, task, "", task.account_id, ref, {spoke}), CopyRef(task),
           Updated(WithId(WithStatus(Portfolio(
                       IF import THEN "portfolio-import" ELSE "portfolio-copy",
                       task, task.account_id,
                       {ref, products, before} \cup IF import THEN {hub} ELSE {}), task), ref),
                   [products_ref |-> products, hub_products_ref |-> before,
                    hub_task |-> hub]))

\* Mutant: they are listed before or after the copy.
WithProductsBeforeOrAfter(table, ref, task) ==
    IF task.account_id = Puppet THEN table
    ELSE WithProducts(table, task, "after", task.account_id, ref,
                      {AssociationRef(task.account_id, task)})

\* The hub's were listed by InHub.
WithProductsAfter(table, ref, task) ==
    IF task.account_id = Puppet THEN table
    ELSE WithProducts(table, task, "after", task.account_id, ref,
                      {AssociationRef(task.account_id, task), CopyRef(task)})

\* Mutant: they wait for the item alone.
NoDependenciesForConstraints(task) == {}

\* What the constraints wait for.
DependenciesForConstraints(task) ==
    IF task.account_id = Puppet THEN {After(task)} ELSE {After(task), CopyRef(task)}

\* A stack that an older version of the tool has made with the name of the item.
TerminateRef(name, task) == <<"terminate-cloudformation-stack">> \o name
                            \o <<task.account_id, task.region>>

WithOldStack(table, name, task) ==
    PutNew(table, TerminateRef(name, task),
           Updated(Task("terminate-cloudformation-stack", task.account_id, task.region, {}),
                   [execution |-> task.execution, stack_name |-> name]))

\* The tasks that hold the list of associations of one item. It is the list of the item itself:
\* what is appended to it in one account is in it in the others.
HoldersOfList(table, own) ==
    {r \in DOMAIN table.task :
        LET task == table.task[r] IN
        /\ task.section = "portfolio-associations"
        /\ r = OfPortfolio("portfolio_associations", task)
        /\ task.item = table.task[own].item}

Appended(table, own, new) ==
    FoldLeft(LAMBDA t, r : Set(t, r, "associations", table.task[own].associations \cup new),
             table, SetToSeq(HoldersOfList(table, own)))

\* The associations of two items with one portfolio are put together. Who appends nothing does
\* not wait for its old stacks.
WithAssociations(table, ref, task) ==
    LET old == {<<"associations-for", task.name>>, <<"associations-v2-for", task.name>>}
        stacks == FoldLeft(LAMBDA t, name : WithOldStack(t, name, task), table, SetToSeq(old))
        oldRefs == {TerminateRef(name, task) : name \in old}
        own == OfPortfolio("portfolio_associations", task)
    IN IF task.associations = {} THEN table
       ELSE IF Known(stacks, own) /\ task.associations \subseteq stacks.task[own].associations
       THEN stacks
       ELSE IF Known(stacks, own)
       THEN Appended(AddDeps(stacks, own, oldRefs), own, task.associations)
       ELSE Put(stacks, own, Updated(
                WithId(WithStatus(Portfolio("portfolio-associations", task, task.account_id,
                                            {ref, CREATE_POLICIES} \cup oldRefs), task), ref),
                [item |-> task.name, associations |-> task.associations]))

\* The constraints of two items with one portfolio are put together too, unless they are to
\* be made in different places.
ConstraintsSoFar(table, own) == IF Known(table, own) THEN table.task[own].constraints ELSE Empty

WithConstraints(table, ref, task, kind, section, old, combined, conflict) ==
    LET own == OfPortfolio(kind, task)
        stacks == WithOldStack(table, <<old, task.name>>, task)
        first == PutNew(stacks, own, Updated(
                     WithId(WithStatus(Portfolio(section, task, task.account_id, {}), task), ref),
                     [item |-> task.name, constraints |-> Empty, products_ref |-> After(task)]))
        deps == {ref, TerminateRef(<<old, task.name>>, task)} \cup DependenciesForConstraints(task)
    IN IF first.task[own].execution # task.execution \/ conflict
       THEN Raise(table, "constraints of another item")
       ELSE Set(AddDeps(first, own, deps), own, "constraints", combined)

WithLaunchConstraints(table, ref, task) ==
    LET new == RolesOf(task.constraints.launch)
        old == ConstraintsSoFar(table, OfPortfolio("launch_constraints", task))
        combined == [p \in DOMAIN old \cup DOMAIN new |-> Get(old, p, {}) \cup Get(new, p, {})]
    IN IF ~Has(task.constraints, "launch") THEN table
       ELSE WithConstraints(table, ref, task, "launch_constraints", "portfolio-constraints-launch",
                            "launch-constraints-for", combined, FALSE)

\* Two items may not ask for different things of one product.
WithResourceUpdateConstraints(table, ref, task) ==
    LET new == task.constraints.resource_update
        old == ConstraintsSoFar(table, OfPortfolio("resource_update_constraints", task))
    IN IF table.raised # "" \/ ~Has(task.constraints, "resource_update") THEN table
       ELSE WithConstraints(table, ref, task, "resource_update_constraints",
                "portfolio-constraints-resource_update", "update-resource-constraints-for",
                Updated(old, new),
                \E p \in DOMAIN old \cap DOMAIN new : old[p] # new[p])

provision_spoke_local_portfolio(table, ref, task) ==
    LET base == IF task.account_id = Puppet THEN InHub(table, ref, task)
                ELSE InSpoke(table, ref, task)
        listed == WithProductsAfter(WithAssociations(base, ref, task), ref, task)
    IN WithResourceUpdateConstraints(WithLaunchConstraints(listed, ref, task), ref, task)

handle_spoke_local_portfolios(table, ref, task) ==
    IF task.status = "terminated" THEN terminate_spoke_local_portfolio(table, ref, task)
    ELSE IF HasNoUnit(task) THEN Raise(table, "no unit")
    ELSE provision_spoke_local_portfolio(table, ref, task)
=============================================================================
