--------------------------- MODULE ManifestRewrites ---------------------------
(***************************************************************************)
(* The expand command (commands/manifest.py): the manifest on disk, with   *)
(* what the rewrites of manifest_utils.py make of its items, and the parts *)
(* it can be cut into (isolate, explode).                                  *)
(***************************************************************************)
EXTENDS Parameters

WithItems(manifest, items) == [manifest EXCEPT !.items = items]
EachItem(manifest, Op(_)) == [manifest EXCEPT !.items = [n \in DOMAIN @ |-> Op(@[n])]]
Key(item) == <<item.section, item.name>>

\* SECTION_SINGULAR_TO_PLURAL.
SectionOf(type) ==
    CASE type = "launch" -> "launches"
      [] type = "stack" -> "stacks"
      [] type = "spoke-local-portfolio" -> "spoke-local-portfolios"
      [] type = "imported-portfolio" -> "imported-portfolios"
      [] type = "assertion" -> "assertions"
      [] type = "code-build-run" -> "code-build-runs"
      [] type = "lambda-invocation" -> "lambda-invocations"
      [] type = "app" -> "apps"
      [] type = "workspace" -> "workspaces"
      [] type = "service-control-policy" -> "service-control-policies"
      [] type = "simulate-policy" -> "simulate-policies"
      [] type = "tag-policy" -> "tag-policies"
      [] type = "c7n-aws-lambda" -> "c7n-aws-lambdas"
      [] type = "organizational-unit" -> "organizational-units"

rewrite_deploy_as_share_to(manifest) ==
    LET Share(item) ==
            IF item.section = "spoke-local-portfolios" /\ Has(item, "deploy_to")
            THEN Updated(Without(item, {"deploy_to"}), [share_with |-> item.deploy_to]) ELSE item
    IN EachItem(manifest, Share)

-----------------------------------------------------------------------------
(* A single account: the other accounts leave the manifest and the lists of the items. *)
(* An item is left out when nothing else is left of its targets.                       *)

OnlyAccount(item, id) ==
    LET key == DEPLOY_TO_NAMES(item.section)
        accounts == SelectSeq(Get(item[key], "accounts", <<>>), LAMBDA a : a.account_id = id)
        others == Get(item[key], "tags", <<>>) # <<>> \/ Get(item[key], "ous", <<>>) # <<>>
        target == IF Get(item[key], "accounts", <<>>) = <<>> THEN item[key]
                  ELSE IF accounts # <<>> THEN Updated(item[key], [accounts |-> accounts])
                  ELSE IF others THEN Without(item[key], {"accounts"})
                  ELSE Empty
    IN IF item.section \in ALL_SECTION_NAMES THEN Updated(item, [k \in {key} |-> target]) ELSE item

ForSingleAccount(manifest, id) ==
    LET own == SelectSeq(manifest.accounts, LAMBDA a : a.account_id = id)
        Only(item) == OnlyAccount(item, id)
        items == EachItem(manifest, Only).items
    IN [manifest EXCEPT
           !.accounts = IF own = <<>> THEN @ ELSE <<Head(own)>>,
           !.items = SelectSeq(items, LAMBDA i : i.section \notin ALL_SECTION_NAMES
                                                 \/ i[DEPLOY_TO_NAMES(i.section)] # Empty)]

-----------------------------------------------------------------------------
(* rewrite_cfct: each resource waits for the one before it, as if that were of its own *)
(* kind. An account is given by its id or by its name.                                 *)

AccountIdOf(manifest, account) ==
    LET named == SelectSeq(manifest.accounts, LAMBDA a : Get(a, "name", "") = account)
    IN IF named = <<>> THEN "" ELSE Last(named).account_id

TargetAccounts(manifest, resource, regions) ==
    [n \in DOMAIN resource.accounts |->
        Updated(regions, [account_id |->
            IF resource.accounts[n].by = "id" THEN resource.accounts[n].is
            ELSE AccountIdOf(manifest, resource.accounts[n].is)])]

DependsOnPrev(prev, type) ==
    IF prev = "" THEN <<>> ELSE <<[name |-> prev, type |-> type, affinity |-> type]>>

StackOf(manifest, resource, prev) ==
    [section |-> "stacks", name |-> resource.name, stack_set_name |-> resource.name,
     key |-> resource.resource_file, execution |-> "hub",
     parameters |-> resource.parameters, outputs |-> resource.export_outputs,
     depends_on |-> DependsOnPrev(prev, "stack"),
     deploy_to |->
        [tags |-> [n \in DOMAIN resource.units |->
            Updated(resource.regions, [tag |-> <<"autogenerated", resource.units[n]>>])],
         accounts |-> TargetAccounts(manifest, resource, resource.regions)]]

ScpOf(manifest, resource, prev) ==
    LET home == [regions |-> "home_region"] IN
    [section |-> "service-control-policies", name |-> resource.name,
     depends_on |-> DependsOnPrev(prev, "service-control-policy"),
     apply_to |->
        [ous |-> [n \in DOMAIN resource.units |-> Updated(home, [ou |-> resource.units[n]])],
         accounts |-> TargetAccounts(manifest, resource, home)]]

CfctResources(manifest) ==
    FlattenSeq([n \in DOMAIN manifest.cfct |-> manifest.cfct[n].resources])

CfctItems(manifest) ==
    LET resources == CfctResources(manifest)
        prev == [n \in DOMAIN resources |-> IF n = 1 THEN "" ELSE resources[n - 1].name]
    IN [n \in DOMAIN resources |->
            IF resources[n].deploy_method = "scp" THEN ScpOf(manifest, resources[n], prev[n])
            ELSE StackOf(manifest, resources[n], prev[n])]

rewrite_cfct(manifest) == WithItems(manifest, manifest.items \o CfctItems(manifest))

CfctRaises(manifest) ==
    LET items == CfctItems(manifest) IN
    \/ \E instance \in ToSet(manifest.cfct) : instance.version # "2021-03-15"
    \/ \E resource \in ToSet(CfctResources(manifest)) :
          \/ resource.deploy_method \notin {"stack_set", "scp"}
          \/ \E a \in ToSet(resource.accounts) : a.by = "name" /\ AccountIdOf(manifest, a.is) = ""
    \/ \E n \in DOMAIN items :
          \E other \in ToSet(manifest.items) \cup {items[m] : m \in 1..(n - 1)} :
             SameItem(items[n], other)

-----------------------------------------------------------------------------
(* The other rewrites of the items *)

\* A dependency that is only a name is one on a launch; the affinity is that of the type.
Dependency(d) ==
    LET typed == IF Has(d, "type") THEN d ELSE Updated(d, [type |-> "launch"])
    IN Updated([affinity |-> typed.type], typed)

rewrite_depends_on(manifest) ==
    LET Rewrite(item) ==
            IF ~Has(item, "depends_on") THEN item
            ELSE [item EXCEPT !.depends_on = [n \in DOMAIN @ |-> Dependency(@[n])]]
    IN EachItem(manifest, Rewrite)

SECTION_NAMES_THAT_SUPPORTS_PARAMETERS ==
    {"launches", "stacks", "lambda-invocations", "code-build-runs", "apps", "workspaces"}

WithBoto3Parameters(manifest) ==
    LET Rewrite(item) ==
            IF item.section \in SECTION_NAMES_THAT_SUPPORTS_PARAMETERS /\ Has(item, "parameters")
            THEN [item EXCEPT !.parameters = rewrite_ssm_parameters(@)] ELSE item
    IN EachItem(manifest, Rewrite)

\* The key of what is deployed, from its name and its version.
rewrite_stacks(manifest) ==
    LET Rewrite(item) ==
            IF item.section \in {"stacks", "apps", "workspaces"} /\ ~Has(item, "key")
            THEN Updated(Without(item, {"version"}),
                         [key |-> <<item.section, item.name, item.version>>]) ELSE item
    IN EachItem(manifest, Rewrite)

\* A policy is applied from the home region alone.
rewrite_scps(manifest) ==
    LET AtHome(targets) == [n \in DOMAIN targets |-> Updated(targets[n], [regions |-> "home_region"])]
        Rewrite(item) ==
            IF item.section \in {"service-control-policies", "tag-policies"}
            THEN [item EXCEPT !.apply_to =
                    [kind \in DOMAIN @ |->
                        IF kind \in {"tags", "accounts", "ous"} THEN AtHome(@[kind]) ELSE @[kind]]]
            ELSE item
    IN EachItem(manifest, Rewrite)

\* An item none of whose conditions holds gets a status that nothing looks for.
parse_conditions(manifest) ==
    LET Rewrite(item) ==
            IF /\ item.section # "organizational-units"
               /\ Get(item, "condition", {}) # {}
               /\ \A c \in item.condition : ~manifest.conditions[c]
            THEN Updated(item, [status |-> "ignored"]) ELSE item
    IN EachItem(manifest, Rewrite)

\* The cloudtrails are lambdas, and the lambdas there were are no more.
rewrite_c7n_cloudtrails(manifest) ==
    LET trails == ItemsOf(manifest.items, "c7n-aws-cloudtrails")
        others == SelectSeq(manifest.items, LAMBDA i :
                      i.section \notin {"c7n-aws-cloudtrails", "c7n-aws-lambdas"})
    IN IF trails = <<>> THEN manifest
       ELSE WithItems(manifest, others \o [n \in DOMAIN trails |->
                Updated(trails[n], [section |-> "c7n-aws-lambdas", mode |-> "cloudtrail"])])

\* A unit whose parent is there already: conversions has the paths that were looked up.
rewrite_organizational_units(manifest, conversions) ==
    LET Rewrite(item) ==
            IF item.section = "organizational-units" /\ Front(item.path) \in DOMAIN conversions
            THEN Updated([parent_ou_id |-> conversions[Front(item.path)]], item) ELSE item
    IN EachItem(manifest, Rewrite)

-----------------------------------------------------------------------------
(* Parts of a manifest *)

\* The sections that are not in this list keep all their items in every part.
MinimalSections ==
    {"launches", "stacks", "spoke-local-portfolios", "lambda-invocations", "assertions",
     "service-control-policies", "tag-policies", "apps", "workspaces"}

Edges(manifest) ==
    UNION {{<<Key(item), <<SectionOf(d.type), d.name>>>> : d \in ToSet(Get(item, "depends_on", <<>>))} :
              item \in {i \in ToSet(manifest.items) : i.section \in ALL_SECTION_NAMES}}

Reached(edges, from) ==
    FoldLeft(LAMBDA seen, n : seen \cup {e[2] : e \in {f \in edges : f[1] \in seen}},
             from, [n \in 1..Cardinality(edges) |-> n])

Backwards(edges) == {<<e[2], e[1]>> : e \in edges}

Part(manifest, keys) ==
    WithItems(manifest, SelectSeq(manifest.items, LAMBDA i :
        i.section \notin MinimalSections \/ Key(i) \in keys))

\* The items that are nodes of the graph. A dependency that is not in the manifest is a node too,
\* but one without an item.
ItemNodes(manifest) ==
    {Key(i) : i \in {j \in ToSet(manifest.items) : j.section \in ALL_SECTION_NAMES}}

\* The explode command loads what expand has written, and the files beside it once more: those of
\* a section raise unless their items have left the manifest, those of manifests/ come in as
\* they are, and the properties, which go by the name of the manifest, do not count.
Reloaded(manifest, order) == EachItem(WithFiles(manifest, order), WithExecution)

explode(manifest, order) ==
    LET reloaded == Reloaded(manifest, order)
        edges == Edges(reloaded) \cup Backwards(Edges(reloaded))
    IN {Part(reloaded, Reached(edges, {node})) : node \in ItemNodes(reloaded)}

\* The part of a node without an item cannot be written.
ExplodeRaises(manifest, order) ==
    LET reloaded == Reloaded(manifest, order) IN
    \/ LoadRaises(manifest, order)
    \/ \E edge \in Edges(reloaded) : edge[2] \notin ItemNodes(reloaded)

\* What the part of one item has, with what it needs and, if asked for, with what needs it.
Isolated(manifest, subset) ==
    LET edges == Edges(manifest)
        forwards == IF subset.include_dependencies THEN Reached(edges, {subset.item}) ELSE {}
        dependents == Reached(Backwards(edges), {subset.item})
        backwards == IF subset.include_reverse_dependencies /\ dependents # {subset.item}
                     THEN Reached(edges, dependents) ELSE {}
    IN {subset.item} \cup forwards \cup backwards

isolate(manifest, subset) == Part(manifest, Isolated(manifest, subset))

\* What a node without an item would have in it cannot be had.
IsolateRaises(manifest, subset) == Isolated(manifest, subset) \ ItemNodes(manifest) # {}

-----------------------------------------------------------------------------
(* expand: what is written to manifest-expanded.yaml. The options are the order in which *)
(* the files are listed, the single account or the single item, if there is one, whether *)
(* there is no role for AWS Organizations, and whether explode follows.                  *)

Rewritten(manifest) ==
    rewrite_c7n_cloudtrails(parse_conditions(rewrite_scps(rewrite_stacks(
        WithBoto3Parameters(rewrite_depends_on(rewrite_cfct(manifest)))))))

\* The accounts and the regions can be used as parameters of every item.
WithOwnParameters(manifest) ==
    [manifest EXCEPT !.parameters = Updated(@,
        [p \in {"SCTManifestAccounts", "SCTManifestSpokes", "SCTConfigRegions", "SCTAccountId"} |->
            [default |-> p]])]

\* Without a role for AWS Organizations the accounts stay as they are listed.
InOrganization(manifest, options) ==
    IF Has(options, "no_org_role") THEN manifest
    ELSE rewrite_organizational_units([manifest EXCEPT !.accounts = ExpandedAccounts(manifest)],
                                      options.conversions)

BeforeRewrites(manifest, options) ==
    LET shared == rewrite_deploy_as_share_to(
                      InOrganization(Loaded(manifest, options.order), options))
    IN IF Has(options, "single_account") THEN ForSingleAccount(shared, options.single_account)
       ELSE shared

expand(manifest, options) ==
    LET rewritten == Rewritten(BeforeRewrites(manifest, options))
    IN WithOwnParameters(IF Has(options, "subset") THEN isolate(rewritten, options.subset)
                         ELSE rewritten)

RewritesFail(manifest, options) ==
    \/ CfctRaises(manifest)
    \/ Has(options, "subset") /\ IsolateRaises(Rewritten(manifest), options.subset)

ExpandFails(manifest, options) ==
    \/ LoadRaises(manifest, options.order)
    \/ ~Has(options, "no_org_role") /\ ExpandRaises(Loaded(manifest, options.order))
    \/ RewritesFail(BeforeRewrites(manifest, options), options)

\* The expanded manifest, or the parts it is exploded into; either command may raise.
Expansions(manifest, options) ==
    IF Has(options, "explode") THEN explode(expand(manifest, options), options.order)
    ELSE {expand(manifest, options)}

ExpansionsFail(manifest, options) ==
    \/ ExpandFails(manifest, options)
    \/ Has(options, "explode") /\ ExplodeRaises(expand(manifest, options), options.order)

-----------------------------------------------------------------------------
(* What a manifest that was expanded looks like: its lists, its dicts, and the keys that *)
(* every item and every account has. A dependency has a type, a name and an affinity. An *)
(* item has none of the keys that the tasks of a reference use for themselves, and a     *)
(* spoke local portfolio names a portfolio, as the schema has it.                        *)

IsTargets(targets) ==
    /\ IsList(targets)
    /\ \A target \in ToSet(targets) : target.regions = "listed" => IsList(target.list)

IsItem(item) ==
    /\ {"section", "name"} \subseteq DOMAIN item
    /\ DOMAIN item \cap {"ssm_parameters", "boto3_parameters", "s3_objects", "ssm_outputs",
                       "ou_name"} = {}
    /\ DOMAIN item \cap References = {}
    /\ IsFiniteSet(Get(item, "outputs", {}))
    /\ \A output \in Get(item, "outputs", {}) : IsList(output.param_name)
    /\ IsDict(Get(item, "parameters", Empty))
    /\ IsList(Get(item, "depends_on", <<>>))
    /\ \A d \in ToSet(Get(item, "depends_on", <<>>)) : {"type", "name", "affinity"} \subseteq DOMAIN d
    /\ item.section = "spoke-local-portfolios" => "portfolio" \in DOMAIN item
    /\ item.section = "organizational-units" => "path" \in DOMAIN item /\ IsList(item.path)
    /\ \A kind \in {"tags", "accounts", "ous"} : IsTargets(Targets(item, kind))

IsAccount(account) ==
    /\ {"account_id", "regions_enabled"} \subseteq DOMAIN account
    /\ IsList(account.regions_enabled) /\ IsDict(Get(account, "parameters", Empty))

IsManifest(manifest) ==
    /\ IsDict(manifest.parameters)
    /\ IsList(manifest.items) /\ \A item \in ToSet(manifest.items) : IsItem(item)
    /\ \A item, other \in ToSet(manifest.items) : Key(item) = Key(other) => item = other
    /\ IsList(manifest.accounts) /\ \A account \in ToSet(manifest.accounts) : IsAccount(account)
=============================================================================
