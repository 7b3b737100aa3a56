SPECIFICATION FairSpec
CONSTANTS
    Tasks = {t1, t2}
    DailyTasks = {t1}
    Daily = Daily
    NoTask = NoTask
    Workers = {w1}
    LastDay = 1
    LastMinute = 0
    MaxRuns = 3
    MaxManual = 1
    MaxCrashes = 0
INVARIANTS
    OneScheduledRunPerDay
PROPERTIES
    EveryRunSettles
    DueTaskIsTriggered
CHECK_DEADLOCK FALSE
