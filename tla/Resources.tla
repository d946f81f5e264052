------------------------------ MODULE Resources ------------------------------
(***************************************************************************)
(* The resources a task requires (workflow/dependencies/                   *)
(* resources_factory.py): two tasks that require a resource in common are  *)
(* never run at the same time.  Most are calls of AWS in a region of an    *)
(* account; those of AWS Organizations are calls in a region, and a few    *)
(* are calls wherever they are made.                                       *)
(***************************************************************************)
EXTENDS TaskTable

PerRegionOfAccount(names, task) == {<<name, task.region, task.account_id>> : name \in names}
PerRegion(names, task) == {<<name, task.region>> : name \in names}

IsTerminated(task) == task.status = "terminated"

OfStacks(task) ==
    IF IsTerminated(task) THEN {}
    ELSE {"CLOUDFORMATION_ENSURE_DELETED", "CLOUDFORMATION_GET_TEMPLATE_SUMMARY",
          "CLOUDFORMATION_GET_TEMPLATE", "CLOUDFORMATION_CREATE_OR_UPDATE"}
         \cup (IF ~Has(task, "launch_name") THEN {}
               ELSE IF Get(task, "launch_pattern", FALSE)
                    THEN {"SERVICE_CATALOG_SCAN_PROVISIONED_PRODUCTS"}
                    ELSE {"SERVICE_CATALOG_DESCRIBE_PROVISIONED_PRODUCT"})
         \cup (IF Has(task, "stack_set_name") THEN {"CLOUDFORMATION_LIST_STACKS"} ELSE {})

OfLaunches(task) ==
    {"SERVICE_CATALOG_DESCRIBE_PROVISIONED_PRODUCT",
     "SERVICE_CATALOG_TERMINATE_PROVISIONED_PRODUCT", "SERVICE_CATALOG_DESCRIBE_RECORD"}
    \cup (IF IsTerminated(task) THEN {}
          ELSE {"SERVICE_CATALOG_SCAN_PROVISIONED_PRODUCTS", "CLOUDFORMATION_GET_TEMPLATE_SUMMARY",
                "CLOUDFORMATION_DESCRIBE_STACKS", "SERVICE_CATALOG_LIST_PROVISIONED_PRODUCT_PLANS",
                "SERVICE_CATALOG_TERMINATE_PROVISIONED_PRODUCT_PLAN",
                "SERVICE_CATALOG_CREATE_PROVISIONED_PRODUCT_PLAN",
                "SERVICE_CATALOG_DESCRIBE_PROVISIONED_PRODUCT_PLAN",
                "SERVICE_CATALOG_EXECUTE_PROVISIONED_PRODUCT_PLAN",
                "SERVICE_CATALOG_UPDATE_PROVISIONED_PRODUCT", "SERVICE_CATALOG_PROVISION_PRODUCT"})
    \cup (IF ~IsTerminated(task) /\ Get(task, "should_use_product_plans", FALSE)
          THEN {"SERVICE_CATALOG_LIST_LAUNCH_PATHS"} ELSE {})

\* Parameters, outputs and actions. Those of boto3 and of S3 are not throttled.
OfParametersAndActions(task) ==
    CASE task.section = "ssm_parameters" -> {"SSM_GET_PARAMETER"}
      [] task.section = "ssm_parameters_with_a_path" -> {"SSM_GET_PARAMETER_BY_PATH"}
      [] task.section = "ssm_outputs" ->
            IF IsTerminated(task) THEN {"SSM_DELETE_PARAMETER"} ELSE {"SSM_PUT_PARAMETER"}
      [] task.section = "lambda-invocations" -> {"LAMBDA_INVOKE"}
      [] task.section = "code-build-runs" ->
            {"CODEBUILD_START_BUILD"}
      [] OTHER -> {}

\* Calls for one project or one kind of simulation.
OfOneOfAKind(task) ==
    CASE task.section = "simulate-policies" ->
            {<<"IAM_SIMULATE_POLICY", task.simulation_type, task.region, task.account_id>>}
      [] task.section = "code-build-runs" ->
            {<<"CODEBUILD_BATCH_GET_PROJECTS", task.project_name, task.region, task.account_id>>}
      [] OTHER -> {}

\* What a portfolio, a share or a product is looked up or changed with.
OfPortfolios(task) ==
    CASE task.section = "spoke-local-portfolios" ->
            {"SERVICE_CATALOG_LIST_PORTFOLIOS",
             IF IsTerminated(task) THEN "SERVICE_CATALOG_DELETE_PORTFOLIOS"
             ELSE "SERVICE_CATALOG_CREATE_PORTFOLIOS"}
      [] task.section = "portfolio-local" -> {"SERVICE_CATALOG_LIST_PORTFOLIOS"}
      [] task.section = "portfolio-imported" -> {"SERVICE_CATALOG_LIST_ACCEPTED_PORTFOLIO_SHARES"}
      [] task.section = "portfolio-puppet-role-association" ->
            {"SERVICE_CATALOG_LIST_PORTFOLIOS", "SERVICE_CATALOG_LIST_PRINCIPALS_FOR_PORTFOLIO",
             IF IsTerminated(task) THEN "SERVICE_CATALOG_DISASSOCIATE_PRINCIPAL_FROM_PORTFOLIO"
             ELSE "SERVICE_CATALOG_ASSOCIATE_PRINCIPAL_FROM_PORTFOLIO"}
      [] task.section = "portfolio-share-and-accept-account" ->
            {"SERVICE_CATALOG_LIST_ACCEPTED_PORTFOLIO_SHARES", "SERVICE_CATALOG_LIST_PORTFOLIO_ACCESS",
             "SERVICE_CATALOG_CREATE_PORTFOLIO_SHARE", "SERVICE_CATALOG_ACCEPT_PORTFOLIO_SHARE"}
      [] OTHER -> {}

OfProducts(task) ==
    CASE task.section = "portfolio-copy" ->
            {"SERVICE_CATALOG_SEARCH_PRODUCTS_AS_ADMIN", "SERVICE_CATALOG_LIST_PROVISIONING_ARTIFACTS",
             "SERVICE_CATALOG_COPY_PRODUCT", "SERVICE_CATALOG_DESCRIBE_COPY_PRODUCT_STATUS",
             "SERVICE_CATALOG_ASSOCIATE_PRODUCT_WITH_PORTFOLIO",
             "SERVICE_CATALOG_UPDATE_PROVISIONING_ARTIFACT"}
      [] task.section = "portfolio-import" ->
            {"SERVICE_CATALOG_SEARCH_PRODUCTS_AS_ADMIN", "SERVICE_CATALOG_LIST_PROVISIONING_ARTIFACTS",
             "SERVICE_CATALOG_ASSOCIATE_PRODUCT_WITH_PORTFOLIO"}
      [] task.section = "portfolio-get-all-products" ->
            {"SERVICE_CATALOG_SEARCH_PRODUCTS_AS_ADMIN", "SERVICE_CATALOG_DESCRIBE_PRODUCT_AS_ADMIN",
             "SERVICE_CATALOG_DESCRIBE_PROVISIONING_ARTEFACT"}
      [] task.section = "portfolio-disassociate-all-products" ->
            {"SERVICE_CATALOG_SEARCH_PRODUCTS_AS_ADMIN",
             "SERVICE_CATALOG_DISASSOCIATE_PRINCIPAL_FROM_PORTFOLIO"}
      [] task.section = "describe-provisioning-parameters" ->
            {"SERVICE_CATALOG_DESCRIBE_PROVISIONING_PARAMETERS"}
      [] OTHER -> {}

\* Stacks that the tool makes for itself.
StackMakers == {"workspace-account-preparation", "prepare-account-for-stacks", "create-policies",
                "c7n-prepare-hub-account", "c7n-forward-events-for-account",
                "c7n-create-custodian-role"}

OfToolStacks(task) ==
    CASE task.section \in {"portfolio-associations", "portfolio-constraints-launch",
                           "portfolio-constraints-resource_update"} ->
            IF IsTerminated(task) THEN {"CLOUDFORMATION_ENSURE_DELETED"}
            ELSE {"CLOUDFORMATION_CREATE_OR_UPDATE"}
                 \cup IF task.section = "portfolio-associations"
                      THEN {"CLOUDFORMATION_DESCRIBE_STACKS"} ELSE {}
      [] task.section = "terminate-cloudformation-stack" -> {"CLOUDFORMATION_ENSURE_DELETED"}
      [] task.section \in StackMakers -> {"CLOUDFORMATION_CREATE_OR_UPDATE"}
      [] OTHER -> {}

\* Calls that are not those of one account.
OfOrganization(task) ==
    CASE task.section \in {"tag-policies", "service-control-policies"} ->
            PerRegion({IF IsTerminated(task) THEN "ORGANIZATIONS_DETACH_POLICY"
                       ELSE "ORGANIZATIONS_ATTACH_POLICY"}, task)
      [] task.section \in {"get-or-create-service-control-policies-policy",
                           "get-or-create-tag-policies-policy"} ->
            PerRegion({"ORGANIZATIONS_LIST_POLICIES", "ORGANIZATIONS_CREATE_POLICIES",
                       "ORGANIZATIONS_DESCRIBE_POLICIES", "ORGANIZATIONS_UPDATE_POLICIES"}, task)
      [] task.section = "portfolio-share-and-accept-aws_organizations" ->
            {<<"SERVICE_CATALOG_CREATE_PORTFOLIO_SHARE">>}
            \cup PerRegion({"SERVICE_CATALOG_CREATE_PORTFOLIO_SHARE",
                            "SERVICE_CATALOG_DESCRIBE_PORTFOLIO_SHARE_STATUS"}, task)
      [] task.section = "describe-portfolio-shares" ->
            PerRegion({"SERVICE_CATALOG_DESCRIBE_PORTFOLIO_SHARES"}, task)
      [] task.section = "organizational-units" -> {<<"ORGANIZATIONS_CREATE_POLICIES">>}
      [] OTHER -> {}

NamesOf(task) ==
    CASE task.section = "stacks" -> OfStacks(task)
      [] task.section = "launches" -> OfLaunches(task)
      [] OTHER -> OfParametersAndActions(task) \cup OfPortfolios(task) \cup OfProducts(task)
                    \cup OfToolStacks(task)

\* Mutant: a spoke local portfolio is looked up and created without any.
NotForSpokeLocalPortfolios(task) ==
    IF task.section = "spoke-local-portfolios" THEN {}
    ELSE PerRegionOfAccount(NamesOf(task), task) \cup OfOrganization(task) \cup OfOneOfAKind(task)

create(task) ==
    PerRegionOfAccount(NamesOf(task), task) \cup OfOrganization(task) \cup OfOneOfAKind(task)

\* Sections whose tasks cannot be terminated: the generation stops there.
NotTerminable ==
    {"tag-policies", "portfolio-copy", "portfolio-import", "portfolio-share-and-accept-account",
     "portfolio-share-and-accept-aws_organizations", "portfolio-get-all-products",
     "describe-provisioning-parameters", "apps", "workspace-account-preparation",
     "portfolio-disassociate-all-products"}

CreateRaises(task) == IsTerminated(task) /\ task.section \in NotTerminable
=============================================================================
