SPECIFICATION Spec
CONSTANTS
    Tasks = {t1}
    DailyTasks = {t1}
    Daily = Daily
    NoTask = NoTask
    Workers = {w1, w2}
    LastDay = 2
    LastMinute = 1
    MaxRuns = 3
    MaxManual = 1
    MaxCrashes = 1
SYMMETRY WorkerSymmetry
INVARIANTS
    PlaceholderHasRun
    DailyMarkHasReport
PROPERTIES
    LastDailyRunNeverGoesBack
CHECK_DEADLOCK FALSE
