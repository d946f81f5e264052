SPECIFICATION Spec
CONSTANTS
    a = a
    b = b
    c = c
    d = d
    e = e
    hub = hub
    r1 = r1
    r2 = r2
    w1 = w1
    w2 = w2
    Tasks <- MCTasks
    Absent <- MCAbsent
    Resources <- MCResources
    Workers <- MCWorkers
    Deps <- MCDeps
    Needs <- MCNeeds
    Generations <- MCGenerations
    NoTask = NoTask
    NoWorker = NoWorker
    Mode = "threads"
    Fragile = {}
INVARIANTS
    CompleteMeansSettled
