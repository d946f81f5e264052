SPECIFICATION Spec
CONSTANTS
    policies = policies
    x = x
    y = y
    z = z
    h = h
    s1 = s1
    s2 = s2
    Tasks <- MCTasks
    Accounts <- MCAccounts
    HubAccount = h
    References <- FewReferences
INVARIANTS
    OutputsAreWritten
