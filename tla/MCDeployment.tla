---------------------------- MODULE MCDeployment ----------------------------
(* The manifests that are deployed: each has what one part of the generation *)
(* has to tell apart. Three accounts, of which the hub is one, two regions.  *)
EXTENDS Deployment

MCRegions == <<"r1", "r2">>

\* a3 is not active, a2 is in a unit of its own. SSM has a region for a2 and none for a1.
MCOrganization ==
    [active    |-> {"hub", "a1", "a2"},
     within    |-> [o1 |-> {"a1", "a2", "a3"}, o2 |-> {"a2"}],
     tags      |-> [a \in {"hub", "a1", "a2", "a3"} |-> {"org"}],
     overrides |-> [a \in {"a2"} |-> [default_region |-> "r2"]]]

-----------------------------------------------------------------------------
(* Parts that manifests are made of *)

Entry(id) == [account_id |-> id, default_region |-> "r1", regions_enabled |-> <<"r1">>, tags |-> {id}]

ManifestOf(items) ==
    [defaults |-> Empty, accounts |-> <<Entry("hub"), Entry("a1")>>, items |-> items,
     properties |-> {}, parameters |-> Empty, mappings |-> Empty, conditions |-> Empty,
     cfct |-> <<>>]

RequestOf(given) == [manifest |-> given, files |-> {}, options |-> [conversions |-> Empty]]

At1(account) == [account_id |-> account, regions |-> "default_region"]
To(account) == [accounts |-> <<At1(account)>>]
ToBoth == [accounts |-> <<At1("a1"), At1("hub")>>]
Tagged(tag, regions) == [tags |-> <<[tag |-> tag, regions |-> regions]>>]

Stack(name) == [section |-> "stacks", name |-> name, version |-> "v1", deploy_to |-> To("a1")]

Launch(name, account) ==
    [section |-> "launches", name |-> name, portfolio |-> "p", product |-> "prod",
     version |-> "v1", deploy_to |-> To(account)]

SpokeLocal(name) ==
    [section |-> "spoke-local-portfolios", name |-> name, portfolio |-> "p",
     share_with |-> To("a1")]

Needing(item, names) ==
    Updated(item, [depends_on |-> [n \in DOMAIN names |-> [type |-> "stack", name |-> names[n]]]])

Reading(item, source) == Updated(item, [parameters |-> [value |-> source]])
Writing(item) == Updated(item, [outputs |-> {[param_name |-> <<"out">>]}])
Terminated(item) == Updated(item, [status |-> "terminated"])

FromSSM == [ssm |-> [name |-> <<"out">>]]
FromS3 == [s3 |-> [key |-> <<"object">>]]
FromStack(name) == [cloudformation_stack_output |-> [of |-> name, region |-> Region]]
FromLaunch(name) == [servicecatalog_provisioned_product_output |-> [of |-> name]]

-----------------------------------------------------------------------------
(* Two items with one portfolio: their associations are put together, over two accounts,   *)
(* and their constraints.                                                                  *)

Pattern(text, names) == [text |-> text, matches |-> names]
Of(name) == Pattern(name, {name})
AnyProduct == Pattern("*", {"prod", "new"})
AnyRole == Pattern("role*", {"role1", "role2"})
Launching(pattern, role) == [launch |-> {[products |-> {pattern}, roles |-> {role}]}]
Updating(pattern, value) == [resource_update |-> [p \in {pattern} |-> value]]

Asking(name, targets, associations, constraints) ==
    Updated(SpokeLocal(name), [share_with |-> targets, associations |-> associations,
                               constraints |-> constraints])

Spread ==
    <<Asking("w", ToBoth, {Of("role1")}, Empty),
      Asking("x", To("a1"), {Of("role2"), Pattern("no*", {})}, Empty)>>

Shared ==
    <<Asking("w", To("a1"), {}, Launching(AnyProduct, "r")),
      Asking("x", To("a1"), {}, Updated(Launching(AnyProduct, "s"), Updating(Of("prod"), "ALLOWED")))>>

\* Patterns that have something in common: for launches those of two items, with one role.
Twice ==
    <<Asking("w", To("hub"), {Of("role1"), AnyRole},
             Updated(Launching(AnyProduct, "r"),
                     [resource_update |-> [p \in {AnyProduct, Of("new")} |-> "ALLOWED"]])),
      Asking("x", To("hub"), {}, Launching(Of("prod"), "r"))>>

\* One that is then terminated.
Single == Asking("p", To("a1"), {}, Updating(Of("prod"), "ALLOWED"))

\* A portfolio that has some of the products; one that is not named after its item.
Kept(method) ==
    Updated(SpokeLocal("p"),
            [product_generation_method |-> method,
             share_with |-> [accounts |-> <<[account_id |-> "a1", regions |-> "listed", list |-> <<"r2">>],
                                            [account_id |-> "hub", regions |-> "listed", list |-> <<"r2">>]>>],
             constraints |-> Launching(AnyProduct, "r")])

Other == Asking("x", To("a1"), {Of("role1")}, Empty)

-----------------------------------------------------------------------------
(* A parameter that one item writes and two read, of which one does not wait; an output of *)
(* a stack and an object that are read by two items of which one waits for the other.      *)

Outputs == <<Writing(Stack("s1")), Needing(Reading(Stack("s2"), FromSSM), <<"s1">>),
             Reading(Stack("s3"), FromSSM)>>

StackOutputs ==
    <<Stack("s1"), Needing(Reading(Stack("s2"), FromStack("s1")), <<"s1">>),
      Needing(Reading(Stack("s3"), FromStack("s1")), <<"s1", "s2">>)>>

\* A stack that reads its own output, and one that reads it after that stack: both get what an
\* earlier deployment has left. The output of a launch.
Itself ==
    <<Reading(Stack("s1"), FromStack("s1")), Needing(Reading(Stack("s2"), FromStack("s1")), <<"s1">>)>>

OfLaunch ==
    <<Launch("l1", "a1"), Updated(Reading(Stack("s1"), FromLaunch("l1")),
                                  [depends_on |-> <<[type |-> "launch", name |-> "l1"]>>])>>

Objects == <<Reading(Stack("s1"), FromS3), Needing(Reading(Stack("s2"), FromS3), <<"s1">>)>>

Cycle == <<Needing(Stack("s1"), <<"s2">>), Needing(Stack("s2"), <<"s1">>)>>

\* A stack output without a region; an account that reads another parameter, of two.
Elsewhere == <<Stack("s1"), Needing(Reading(Stack("s2"),
                [cloudformation_stack_output |-> [of |-> "s1"]]), <<"s1">>)>>

Leaking ==
    [ManifestOf(<<Updated(Reading(Stack("s1"), FromSSM),
        [deploy_to |-> ToBoth])>>)
     EXCEPT !.accounts =
        <<Entry("hub"), Updated(Entry("a1"), [parameters |-> [value |-> [ssm |-> [name |-> <<"own">>]]]])>>]

\* Values that need no task: a mapping, and a default; and one that is nowhere.
Mapped ==
    [ManifestOf(<<Reading(Stack("s1"), [mapping |-> <<"m", "AWS::AccountId">>]),
                  Reading(Stack("s2"), [ssm |-> [name |-> <<"nowhere">>]]),
                  Reading(Stack("s3"), [ssm |-> [name |-> <<"nowhere">>, default |-> "d"]]),
                  Reading(Stack("s4"), [ssm |-> [name |-> <<"nowhere">>], default |-> "d"])>>)
     EXCEPT !.mappings = [path \in {<<"m", "default">>} |-> "value"]]

-----------------------------------------------------------------------------
(* Accounts that are put together from what the manifest, the organization and SSM say. *)

Accounts3 ==
    <<Entry("hub"),
      [ou |-> "o1", exclude |-> [ous |-> {"o2"}], default_region |-> "r1",
       regions_enabled |-> <<"r1">>, tags |-> {"unit"}],
      [account_id |-> "a1", append |-> [tags |-> {"extra"}, regions_enabled |-> <<"r2">>]],
      Updated(Entry("a2"),
              [organizations_account_tags |-> "append",
               external_account_overrides |->
                  [default_region |-> [source |-> "ssm"],
                   enabled_regions |-> [source |-> "ssm", fail_if_missing |-> FALSE]]])>>

Overwritten ==
    Append(SubSeq(Accounts3, 1, 3),
           [account_id |-> "a1", overwrite |-> [tags |-> {"other"}]])

\* A unit that amends accounts that were listed before, and one of them overwritten after it.
UnitAmends ==
    <<Entry("hub"), Updated(Entry("a1"), [organizations_account_tags |-> "append"]),
      Updated(Entry("a2"), [organizations_account_tags |-> "honour"]),
      [ou |-> "o1", append |-> [tags |-> {"unit"}, regions_enabled |-> <<"r2">>]],
      [account_id |-> "a1", overwrite |-> [tags |-> {"extra", "org"}]]>>

\* Without a role for AWS Organizations: an account that is not active, and is not amended.
AsListed == <<Entry("hub"), Updated(Entry("a3"), [append |-> [tags |-> {"extra"}]])>>

Item(section, name, key, targets) ==
    Updated([section |-> section, name |-> name], (key :> targets))

Tags3 ==
    <<Item("tag-policies", "t1", "apply_to", Tagged("unit", "home_region")),
      Item("tag-policies", "t2", "apply_to", Tagged("extra", "home_region")),
      Item("lambda-invocations", "t3", "invoke_for", Tagged("org", "default_region")),
      Updated(Item("code-build-runs", "t4", "run_for", Tagged("unit", "enabled")),
              [project_name |-> "project"])>>

WithAccounts(given, accounts) == [given EXCEPT !.accounts = accounts]

-----------------------------------------------------------------------------
(* Launches and shares *)

InUnit == <<Entry("hub"), [ou |-> "o1", exclude |-> [accounts |-> {"a2"}], default_region |-> "r1",
                           regions_enabled |-> <<"r1">>, tags |-> {"unit"}]>>

Launched(targets) ==
    <<Updated(Launch("l1", "a1"), [sharing_mode |-> "AWS_ORGANIZATIONS", deploy_to |-> targets])>>

Imported(account) ==
    [section |-> "imported-portfolios", name |-> "i", portfolio |-> "p",
     associations |-> {Of("role1")}, share_with |-> To(account)]

-----------------------------------------------------------------------------
(* AWS Organizations, workspaces and Cloud Custodian *)

Policies ==
    <<Item("service-control-policies", "scp", "apply_to",
           Updated(To("a1"), [ous |-> <<[ou |-> "o1", regions |-> "home_region"]>>])),
      Updated(Item("organizational-units", "unit", "create_in", To("hub")), [path |-> <<"x", "y">>]),
      Updated(Item("workspaces", "w", "deploy_to", Tagged("a1", "default_region")),
              [version |-> "v1"])>>

Custodian7 ==
    <<[section |-> "c7n-aws-cloudtrails", name |-> "c", custodian |-> "hub", apply_to |-> To("a1")]>>

\* The resources of a customization of Control Tower, one after the other.
Customization ==
    [version |-> "2021-03-15",
     resources |-> <<[name |-> "c1", deploy_method |-> "stack_set", resource_file |-> "file",
                      parameters |-> Empty, export_outputs |-> {}, units |-> <<>>,
                      accounts |-> <<[by |-> "id", is |-> "a1"]>>,
                      regions |-> [regions |-> "listed", list |-> <<"r1">>]],
                     [name |-> "c2", deploy_method |-> "stack_set", resource_file |-> "file",
                      parameters |-> Empty, export_outputs |-> {}, units |-> <<>>,
                      accounts |-> <<[by |-> "id", is |-> "a1"]>>,
                      regions |-> [regions |-> "listed", list |-> <<"r1">>]]>>]

-----------------------------------------------------------------------------
(* Files beside the manifest, properties, conditions, and parts of it *)

Beside ==
    [manifest |->
        [ManifestOf(<<Stack("s1"), Needing(Stack("s2"), <<"s1">>)>>) EXCEPT
            !.properties = {[section |-> "stacks", name |-> "s2", property |-> "condition",
                             value |-> {"no"}]},
            !.conditions = [c \in {"no"} |-> FALSE]],
     files |-> {[dir |-> "stacks", items |-> <<Stack("s3")>>],
                [dir |-> "manifests", items |-> <<Updated(Stack("s3"), [version |-> "v2"])>>]},
     options |-> [conversions |-> Empty]]

Exploded(request) == [request EXCEPT !.options = Updated(@, [explode |-> TRUE])]

\* What is exploded has no files of a section beside it.
Apart == Exploded([Beside EXCEPT !.files = {f \in @ : f.dir = "manifests"}])

\* A single account: what it writes, and what the hub does.
Alone ==
    [RequestOf([ManifestOf(
        <<Writing(Stack("s1")), Needing(Reading(Stack("s2"), FromSSM), <<"s1">>),
          Updated(Launch("l1", "a1"), [deploy_to |-> ToBoth])>>)
        EXCEPT !.accounts = <<Entry("hub"), Entry("a2"), Entry("a1")>>])
     EXCEPT !.options = [conversions |-> Empty, single_account |-> "a1"]]

PartOf(given, with, without) ==
    [RequestOf(given) EXCEPT !.options =
        [conversions |-> Empty,
         subset |-> [item |-> <<"stacks", "s2">>, include_dependencies |-> with,
                     include_reverse_dependencies |-> without]]]

Chain == ManifestOf(<<Stack("s1"), Needing(Stack("s2"), <<"s1">>), Stack("s3")>>)

-----------------------------------------------------------------------------
(* Manifests that are refused, for each reason there is *)

AtHub(item) == Updated(item, [deploy_to |-> To("hub")])
OnImported(item) ==
    Updated(item, [depends_on |-> <<[type |-> "imported-portfolio", name |-> "i"]>>])
With(entry) == WithAccounts(ManifestOf(<<Stack("s1")>>), <<Entry("hub"), Entry("a1"), entry>>)

Absent == <<Needing(Stack("s1"), <<"s2">>)>>

Refused ==
    [cycle     |-> ManifestOf(Cycle),
     unshared  |-> WithAccounts(ManifestOf(Launched(To("a1"))), InUnit),
     awaited   |-> ManifestOf(<<Imported("a1"), OnImported(Stack("s1"))>>),
     taskless  |-> ManifestOf(<<Imported("a1"), OnImported(Reading(Stack("s1"), FromSSM))>>),
     inactive  |-> With(Entry("a3")),
     again     |-> With([ou |-> "o1", default_region |-> "r1", regions_enabled |-> <<"r1">>]),
     amended2  |-> With([account_id |-> "a1", append |-> [tags |-> {"t"}], tags |-> {}]),
     noRegion  |-> With([account_id |-> "a1", append |-> Empty, external_account_overrides |->
                            [k \in {"default_region", "enabled_regions"} |-> [source |-> "ssm"]]]),
     twoTowers |-> [ManifestOf(<<Stack("c2")>>) EXCEPT !.cfct = <<Customization>>],
     unlisted  |-> ManifestOf(<<Updated(Stack("s1"), [deploy_to |-> To("a2")])>>),
     endless   |-> ManifestOf(<<Terminated(Item("tag-policies", "t1", "apply_to",
                                                Tagged("a1", "home_region")))>>),
     unwritten |-> ManifestOf(<<Writing(Updated(
                        Item("workspaces", "w", "deploy_to", Tagged("a1", "default_region")),
                        [version |-> "v1"]))>>),
     doubled   |-> ManifestOf(<<Writing(Stack("s1")), Writing(Stack("s2"))>>),
     abroad    |-> ManifestOf(<<Reading(Stack("s1"),
                                        [ssm |-> [name |-> <<"out">>, account_id |-> "a2"]])>>),
     plain     |-> ManifestOf(<<Reading(Stack("s1"),
                                        [boto3 |-> [account_id |-> "a1", region |-> "r1"]])>>),
     renamed   |-> ManifestOf(<<Updated(Terminated(Imported("a1")),
                                        [was_a_spoke_local_portfolio |-> TRUE])>>),
     modes     |-> ManifestOf(<<Asking("w", To("hub"), {}, Launching(AnyProduct, "r")),
                                Updated(Asking("x", ToBoth, {}, Launching(Of("prod"), "s")),
                                        [execution |-> "spoke"])>>),
     values    |-> ManifestOf(<<Asking("w", ToBoth, {}, Updating(AnyProduct, "ALLOWED")),
                                Asking("x", To("a1"), {}, Updating(AnyProduct, "NOT_ALLOWED"))>>),
     absent    |-> ManifestOf(Absent),
     away      |-> ManifestOf(<<AtHub(Stack("s1")), Updated(Stack("s2"), [depends_on |->
                        <<[type |-> "stack", name |-> "s1", affinity |-> "account"]>>])>>)]

\* A stack of a section is loaded twice by the explode command; a part has no node for what is
\* not there; what is depended on goes with the other accounts, or with what is not asked for.
OtherRefused ==
    [reloaded |-> Exploded(Beside),
     declared |-> [Beside EXCEPT !.files = {[dir |-> "stacks", items |-> <<Stack("s1")>>]}],
     noNode   |-> Exploded(RequestOf(ManifestOf(Absent))),
     isolated |-> PartOf(Chain, FALSE, FALSE),
     filtered |-> [RequestOf(ManifestOf(<<AtHub(Stack("s1")), Needing(Stack("s2"), <<"s1">>)>>))
                   EXCEPT !.options = [conversions |-> Empty, single_account |-> "a1"]]]

-----------------------------------------------------------------------------
Plain ==
    [shared   |-> ManifestOf(Shared),
     spread   |-> ManifestOf(Spread),
     twice    |-> ManifestOf(Twice),
     single   |-> ManifestOf(<<Single>>),
     gone     |-> ManifestOf(<<Terminated(Single)>>),
     copied   |-> ManifestOf(<<Kept("copy")>>),
     added    |-> ManifestOf(<<Kept("import")>>),
     other    |-> ManifestOf(<<Other>>),
     left     |-> ManifestOf(<<Terminated(Other)>>),
     mapped   |-> Mapped,
     leaking  |-> Leaking,
     written  |-> ManifestOf(<<Writing(Stack("s1"))>>),
     undone   |-> ManifestOf(<<Terminated(Writing(Stack("s1"))), Terminated(Launch("l1", "a1"))>>),
     elsewhere |-> ManifestOf(Elsewhere),
     outputs  |-> ManifestOf(Outputs),
     stacks   |-> ManifestOf(StackOutputs),
     itself   |-> ManifestOf(Itself),
     product  |-> ManifestOf(OfLaunch),
     objects  |-> ManifestOf(Objects),
     tags     |-> WithAccounts(ManifestOf(Tags3), Accounts3),
     amended  |-> WithAccounts(ManifestOf(Tags3), Overwritten),
     amends   |-> WithAccounts(ManifestOf(Tags3), UnitAmends),
     launched |-> WithAccounts(ManifestOf(Launched(Tagged("unit", "default_region"))), InUnit),
     account  |-> ManifestOf(<<Launch("l1", "a1")>>),
     imported |-> ManifestOf(<<Imported("a1")>>),
     lost     |-> ManifestOf(<<Imported("hub"), Stack("s1"), Stack("s2")>>),
     policies |-> ManifestOf(Policies),
     rules    |-> ManifestOf(Custodian7),
     tower    |-> [ManifestOf(<<>>) EXCEPT !.cfct = <<Customization>>]]

Others ==
    [beside |-> Beside, apart |-> Apart, alone |-> Alone, part |-> PartOf(Chain, TRUE, FALSE),
     listed |-> [RequestOf(WithAccounts(ManifestOf(<<Updated(Stack("s1"),
                            [deploy_to |-> Tagged("a3", "enabled")])>>), AsListed))
                 EXCEPT !.options = [conversions |-> Empty, no_org_role |-> TRUE]]]

MCRequests ==
    LET requests == Plain @@ Refused IN
    [r \in DOMAIN requests |-> RequestOf(requests[r])] @@ Others @@ OtherRefused

\* Each request alone, those that follow another one after it, and some again after a fault.
Once == {<<r>> : r \in DOMAIN MCRequests}
Followed == {<<"single", "gone">>, <<"other", "left">>, <<"written", "undone">>, <<"written", "itself">>}
Again == {<<"single", "single">>, <<"copied", "copied">>, <<"account", "account">>,
          <<"written", "written">>}

WithoutFaults(names) == [requests |-> names, faults |-> 0]

MCPlans ==
    {WithoutFaults(names) : names \in Once \cup Followed}
    \cup {[requests |-> names, faults |-> 1] : names \in Again}

HubP(region) == <<"hub", region, "p", 1>>
SpokeP == <<"a1", "r2", "p", 1>>

MCAccounts ==
    [portfolios |-> {HubP("r1"), HubP("r2"), SpokeP},
     products |-> (SpokeP :> [prod |-> {"v0"}]) @@
                  [id \in {HubP("r1"), HubP("r2")} |-> [prod |-> {"v1"}, new |-> {"v1"}]],
     shares |-> {}, accepted |-> {}, principals |-> {}, stacks |-> Empty,
     store |-> [s \in {<<"hub", "r1", name>> : name \in {"out", "own"}} |-> "old"],
     objects |-> [s \in {<<"object">>} |-> "object"],
     content |-> Empty, policies |-> {}, attachments |-> {}, units |-> {}]
=============================================================================
