SPECIFICATION FairSpec
CONSTANTS
    d1 = d1
    d2 = d2
    Debates <- MCDebates
    Subject <- MCSubject
    JobIds = {j1, j2}
    Workers = {w1}
    NoDebate = NoDebate
    NoJob = NoJob
    Marks <- MCMarks
    MaxRetries = 1
    MaxCrashes = 1
INVARIANTS
    QueuedHasJob
PROPERTIES
    ImplementsOutcome
    CanceledUnlessBlind
    DoneIsFinal
    EveryDebateSettles
    CancelTakesEffect
CHECK_DEADLOCK FALSE
