SPECIFICATION Spec
CONSTANTS
    Tasks = {t1, t2}
    DailyTasks = {t1}
    Daily = Daily
    NoTask = NoTask
    Workers = {w1}
    LastDay = 1
    LastMinute = 0
    MaxRuns = 3
    MaxManual = 1
    MaxCrashes = 0
PROPERTIES
    TickServesEveryTask
CHECK_DEADLOCK FALSE
