SPECIFICATION GraphSpec
CONSTANTS
    Assignments = {m1, m2}
    None = None
    MaxAttempts = 3
INVARIANTS
    ReportOfOneAssignment
CHECK_DEADLOCK FALSE
