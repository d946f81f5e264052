\* A worker that dies leaves the scheduler waiting for its answer, so that the run
\* may stop short of its end.
CHECK_DEADLOCK FALSE
SPECIFICATION Spec
CONSTANTS
    a = a
    b = b
    c = c
    d = d
    e = e
    f = f
    hub = hub
    r1 = r1
    r2 = r2
    w1 = w1
    w2 = w2
    Tasks <- MCTasks
    Absent <- MCAbsent
    Resources <- MCResources
    Workers <- MCWorkers
    Deps <- MCDeps
    Needs <- MCNeeds
    Generations <- MCGenerations
    NoTask = NoTask
    NoWorker = NoWorker
    Mode = "processes"
    Fragile = {b, e}
INVARIANTS
    FileMatchesUse
    CountersAccount
    CompleteMeansSettled
PROPERTIES
    KeepsContract
