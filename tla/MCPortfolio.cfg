SPECIFICATION FairSpec
CONSTANTS
    Ids = {r1, r2}
    Owners = {u1}
    Instruments = {i1}
    Requests = {q1, q2}
    Jobs = {j1, j2}
    NoRow = NoRow
    NoJob = NoJob
    Shares = {100, 200}
    MaxRetries = 1
    MaxEdits = 3
    MaxFaults = 2
INVARIANTS
    RowsAndJobsAgree
    SnapshotSinceRequest
PROPERTIES
    AnalysisSettles
CHECK_DEADLOCK FALSE
