SPECIFICATION Spec
CONSTANTS
    Puppet = "hub"
    HomeRegion = "r1"
    Regions <- MCRegions
    Organization <- MCOrganization
    Requests <- MCRequests
    Plans <- MCPlans
    Accounts <- MCAccounts
    Workers = 2
INVARIANTS
    TypeOK
    
    RefusalsAreTheManifests
    ParametersAreFresh
    OnePortfolioPerName
    FailuresAreExplained
    DeployedAsAsked
