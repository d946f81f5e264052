SPECIFICATION Spec
CONSTANTS
    a = a
    s1 = s1
    s2 = s2
    NoTask = NoTask
    Tasks = {a, s1}
    SpokeTasks = {s1}
    Size <- MCSize
    MaxEntries = 2
    MaxBytes = 5
INVARIANTS
    SuccessMeansAllTasks
