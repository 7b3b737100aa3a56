SPECIFICATION GraphSpec
CONSTANTS
    Assignments = {m1, m2}
    None = None
    MaxAttempts = 4
SYMMETRY AssignmentSymmetry
INVARIANTS
    ReportIsWhole
    OldTurnOnlyAfterLostTurn
PROPERTIES
    WorkIsKept
CHECK_DEADLOCK FALSE
