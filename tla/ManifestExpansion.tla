-------------------------- MODULE ManifestExpansion --------------------------
(***************************************************************************)
(* From the manifest on disk to the accounts and the tasks of its items:   *)
(* load, expand_manifest and Manifest.get_tasks_for of manifest_utils.py.  *)
(*                                                                         *)
(* A Python dict is a function whose domain is the keys that are set.  The *)
(* items of a manifest are a sequence of dicts in the order their sections *)
(* are gone through; an item has at least a "section" and a "name".        *)
(***************************************************************************)
EXTENDS Naturals, Sequences, SequencesExt

CONSTANTS
    Puppet,         \* the account of the hub
    HomeRegion,     \* its home region
    Regions,        \* the regions of the configuration, in order
    Organization    \* what AWS Organizations and SSM tell of the accounts: a record of
                    \* active, the accounts that are; within, the accounts of each
                    \* unit, nested ones included; tags and overrides of each account

ASSUME OrganizationAssumption ==
    /\ DOMAIN Organization = {"active", "within", "tags", "overrides"}
    /\ Puppet \in Organization.active
    /\ \A ou \in DOMAIN Organization.within :
          Organization.within[ou] \subseteq DOMAIN Organization.tags

\* The lists of Python, and its dicts.
IsList(s) == s \in Seq(ToSet(s))
IsDict(d) == IsFiniteSet(DOMAIN d)

ASSUME RegionsAssumption == IsList(Regions)

\* The dicts of Python: d.get(key, default), d.update(with), and del d[key].
Get(d, key, default) == IF key \in DOMAIN d THEN d[key] ELSE default
Updated(d, with) ==
    [k \in DOMAIN d \cup DOMAIN with |-> IF k \in DOMAIN with THEN with[k] ELSE d[k]]
Without(d, keys) == [k \in DOMAIN d \ keys |-> d[k]]
Has(d, key) == key \in DOMAIN d
Empty == [k \in {} |-> k]

-----------------------------------------------------------------------------
(* constants.py *)

\* The sections in the order they are gone through.
SectionOrder ==
    <<"launches", "stacks", "spoke-local-portfolios", "imported-portfolios",
      "lambda-invocations", "code-build-runs", "assertions", "apps", "workspaces",
      "service-control-policies", "simulate-policies", "tag-policies",
      "organizational-units", "c7n-aws-lambdas">>

ALL_SECTION_NAMES == ToSet(SectionOrder) \ {"organizational-units"}

ALL_SPOKE_EXECUTABLE_SECTION_NAMES ==
    {"launches", "stacks", "lambda-invocations", "code-build-runs", "assertions", "apps",
     "workspaces", "simulate-policies"}

DEPLOY_TO_NAMES(section) ==
    CASE section \in {"launches", "stacks", "apps", "workspaces"} -> "deploy_to"
      [] section \in {"spoke-local-portfolios", "imported-portfolios"} -> "share_with"
      [] section = "lambda-invocations" -> "invoke_for"
      [] section = "code-build-runs" -> "run_for"
      [] section = "assertions" -> "assert_for"
      [] section = "simulate-policies" -> "simulate_for"
      [] section = "organizational-units" -> "create_in"
      [] OTHER -> "apply_to"

-----------------------------------------------------------------------------
(* load *)

SameItem(i, j) == i.section = j.section /\ i.name = j.name

ItemsOf(items, section) ==
    FoldLeft(LAMBDA own, i : IF i.section = section THEN Append(own, i) ELSE own, <<>>, items)

InSectionOrder(items) ==
    FlattenSeq([n \in DOMAIN SectionOrder |-> ItemsOf(items, SectionOrder[n])])

\* A key that is there keeps its place.
PutItem(items, item) ==
    IF \E n \in DOMAIN items : SameItem(items[n], item)
    THEN [n \in DOMAIN items |-> IF SameItem(items[n], item) THEN item ELSE items[n]]
    ELSE Append(items, item)

PutAll(items, new) == FoldLeft(PutItem, items, new)

\* The files beside the manifest in the order os.listdir has them: those in the
\* directory of a section first. A file of a section may not declare an item again, one
\* in manifests/ replaces it without a word.
FileOrders(files) ==
    {order \in SetToSeqs(files) :
        \A m, n \in DOMAIN order : order[m].dir = "manifests" /\ m < n => order[n].dir = "manifests"}

WithFiles(manifest, order) ==
    [manifest EXCEPT
        !.items = FoldLeft(LAMBDA items, file : PutAll(items, file.items), @, order)]

LoadRaises(manifest, order) ==
    \E n \in DOMAIN order :
        /\ order[n].dir # "manifests"
        /\ LET before == WithFiles(manifest, SubSeq(order, 1, n - 1)).items IN
           \E item \in ToSet(order[n].items), other \in ToSet(before) : SameItem(item, other)

\* manifest.properties overrides a version, a condition or a status.
WithProperties(item, properties) ==
    LET own == {p \in properties : SameItem(p, item)}
    IN [k \in DOMAIN item \cup {p.property : p \in own} |->
            IF \E p \in own : p.property = k THEN (CHOOSE p \in own : p.property = k).value
            ELSE item[k]]

WithExecution(item) ==
    IF item.section \in ALL_SPOKE_EXECUTABLE_SECTION_NAMES /\ ~Has(item, "execution")
    THEN Updated(item, [execution |-> "hub"]) ELSE item

Loaded(manifest, order) ==
    LET files == WithFiles(manifest, order) IN
    [files EXCEPT !.items =
        [n \in DOMAIN @ |-> WithExecution(WithProperties(@[n], manifest.properties))]]

-----------------------------------------------------------------------------
(* expand_manifest *)

\* expand_account, for an account that is active.
Expanded(manifest, listed, id) ==
    LET account == Updated(manifest.defaults, listed)
        parent == IF Has(account, "ou")
                  THEN [expanded_from |-> account.ou, account_id |-> id] ELSE Empty
    IN Updated(Updated(Without(account, {"ou"}), parent), [organization |-> "o"])

\* expand_ou leaves out what the entry excludes, and accounts that are not active.
Excluded(listed) ==
    LET exclude == Get(listed, "exclude", Empty) IN
    Get(exclude, "accounts", {})
        \cup UNION {Organization.within[ou] : ou \in Get(exclude, "ous", {})}

ExpandedOu(manifest, listed) ==
    LET ids == SetToSeq((Organization.within[listed.ou] \ Excluded(listed))
                            \cap Organization.active)
    IN [n \in DOMAIN ids |-> Expanded(manifest, listed, ids[n])]

ExpandedEntries(manifest) ==
    FlattenSeq([n \in DOMAIN manifest.accounts |->
        LET listed == manifest.accounts[n] IN
        IF Has(listed, "account_id") THEN <<Expanded(manifest, listed, listed.account_id)>>
        ELSE ExpandedOu(manifest, listed)])

Amends(account) == Has(account, "append") \/ Has(account, "overwrite")

\* An account that is seen again is updated with the later entry.
PutAccount(accounts, account) ==
    IF \E n \in DOMAIN accounts : accounts[n].account_id = account.account_id
    THEN [n \in DOMAIN accounts |-> IF accounts[n].account_id = account.account_id
                                    THEN Updated(accounts[n], account) ELSE accounts[n]]
    ELSE Append(accounts, account)

AccountsById(manifest) == FoldLeft(PutAccount, <<>>, ExpandedEntries(manifest))

\* The parameters in SSM that an account may take its settings from. The regions they name are
\* kept as "enabled_regions". Whoever looks for one looks for the other too.
External(account) == Get(account, "external_account_overrides", Empty)
Overrides(account) == Get(Organization.overrides, account.account_id, Empty)

FromParameters(account) ==
    IF ~Has(External(account), "default_region") THEN {}
    ELSE {key \in {"default_region", "enabled_regions"} \cap DOMAIN External(account) :
            External(account)[key].source = "ssm"}

WithExternalOverrides(account) ==
    Updated(account, [key \in FromParameters(account) \cap DOMAIN Overrides(account) |->
                        Overrides(account)[key]])

ExternalOverridesRaise(account) ==
    \/ Has(External(account), "default_region") /\ ~Has(External(account), "enabled_regions")
    \/ \E key \in FromParameters(account) \ DOMAIN Overrides(account) :
          Get(External(account)[key], "fail_if_missing", TRUE)

ExpandRaises(manifest) ==
    \/ \E listed \in ToSet(manifest.accounts) :
          Has(listed, "account_id") /\ listed.account_id \notin Organization.active
    \/ LET entries == ExpandedEntries(manifest) IN
       \E n \in DOMAIN entries :
          \/ /\ Amends(entries[n])
             /\ DOMAIN entries[n] \cap {"default_region", "regions_enabled", "tags"} # {}
          \/ /\ ~Amends(entries[n])
             /\ \E m \in 1..(n - 1) : entries[m].account_id = entries[n].account_id
    \/ \E account \in ToSet(AccountsById(manifest)) : ExternalOverridesRaise(account)

WithOrganizationTags(account) ==
    LET tags == Organization.tags[account.account_id] IN
    CASE Get(account, "organizations_account_tags", "ignored") = "append" ->
            Updated(account, [tags |-> Get(account, "tags", {}) \cup tags])
      [] Get(account, "organizations_account_tags", "ignored") = "honour" ->
            Updated(account, [tags |-> tags])
      [] OTHER -> account


Amended(account) ==
    IF Has(account, "overwrite") THEN Updated(Without(account, {"overwrite"}), account.overwrite)
    ELSE IF Has(account, "append") THEN
            LET new == account.append IN
            Updated(Without(account, {"append"}),
                    [tags |-> Get(account, "tags", {}) \cup Get(new, "tags", {}),
                     regions_enabled |-> Get(account, "regions_enabled", <<>>)
                                             \o Get(new, "regions_enabled", <<>>)])
    ELSE account

ExpandedAccounts(manifest) ==
    LET byId == AccountsById(manifest) IN
    [n \in DOMAIN byId |-> Amended(WithExternalOverrides(WithOrganizationTags(byId[n])))]

-----------------------------------------------------------------------------
(* Manifest.get_tasks_for *)

TargetKey(item) ==
    IF item.section = "spoke-local-portfolios" /\ ~Has(item, "share_with") THEN "deploy_to"
    ELSE DEPLOY_TO_NAMES(item.section)

Targets(item, kind) == Get(item[TargetKey(item)], kind, <<>>)

\* What the item gives to each of its tasks, with the defaults of the code.
CommonParameters(item) ==
    Updated([status |-> "provisioned", execution |-> "hub", depends_on |-> <<>>,
             associations |-> {}, constraints |-> Empty, outputs |-> {},
             sharing_mode |-> "ACCOUNT", product_generation_method |-> "copy"],
            Without(item, {TargetKey(item), "parameters"}))

\* The regions of a target: a list, or one of the words.
RegionWords == {"enabled", "default_region", "home_region", "all"}

RegionsFor(target, account) ==
    CASE target.regions = "listed" -> target.list
      [] target.regions = "enabled" -> account.regions_enabled
      [] target.regions = "default_region" -> <<account.default_region>>
      [] target.regions = "home_region" -> <<HomeRegion>>
      [] target.regions = "all" -> Regions

TasksAt(item, target, account) ==
    LET regions == RegionsFor(target, account)
    IN [n \in DOMAIN regions |-> Updated(CommonParameters(item),
                                         [account_id |-> account.account_id, region |-> regions[n]])]

\* Only a task that is found by a tag knows the unit its account was expanded from.
TasksByTag(item, accounts, target) ==
    FlattenSeq([n \in DOMAIN accounts |->
        IF target.tag \notin accounts[n].tags THEN <<>>
        ELSE LET at == TasksAt(item, target, accounts[n]) IN
             [m \in DOMAIN at |-> Updated(at[m], [ou |-> Get(accounts[n], "expanded_from", "")])]])

AccountOf(accounts, id) == accounts[SelectInSeq(accounts, LAMBDA a : a.account_id = id)]

TasksByOu(item, target) ==
    <<Updated(CommonParameters(item), [account_id |-> "", ou_name |-> target.ou,
                                       region |-> HomeRegion])>>

TasksFor(item, accounts) ==
    LET byTag == Targets(item, "tags")
        byAccount == Targets(item, "accounts")
        byOu == Targets(item, "ous")
    IN FlattenSeq([n \in DOMAIN byTag |-> TasksByTag(item, accounts, byTag[n])])
       \o FlattenSeq([n \in DOMAIN byAccount |->
              TasksAt(item, byAccount[n], AccountOf(accounts, byAccount[n].account_id))])
       \o FlattenSeq([n \in DOMAIN byOu |-> TasksByOu(item, byOu[n])])

\* Accounts without tags, an account that is not in the manifest, an account without the
\* regions asked for, and a section that cannot be deployed in that way.
TasksForRaises(item, accounts) ==
    \/ /\ Targets(item, "tags") # <<>>
       /\ \/ \E account \in ToSet(accounts) : ~Has(account, "tags")
          \/ item.section = "organizational-units"
    \/ \E target \in ToSet(Targets(item, "accounts")) :
          \/ item.section \in {"apps", "workspaces"}
          \/ \A account \in ToSet(accounts) : account.account_id # target.account_id
    \/ /\ Targets(item, "ous") # <<>>
       /\ item.section \notin {"service-control-policies", "tag-policies"}
    \/ \E target \in ToSet(Targets(item, "tags")) \cup ToSet(Targets(item, "accounts")) :
          target.regions \notin RegionWords \cup {"listed"}
    \/ \E target \in ToSet(Targets(item, "ous")) : target.regions # "home_region"
=============================================================================
