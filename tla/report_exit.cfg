SPECIFICATION FairSpec
CONSTANTS
    a = a
    s1 = s1
    s2 = s2
    NoTask = NoTask
    Tasks <- MCTasks
    SpokeTasks <- MCSpokeTasks
    Size <- MCSize
    MaxEntries = 2
    MaxBytes = 5
INVARIANTS
    TypeOK
    ExitTellsTheTruth
    EveryResultIsReported
    BatchesFit
PROPERTIES
    ReportEnds
