CONSTANTS
    api = api
    worker = worker
    None = None
    NoPrice = None
    Jobs <- MCJobs
    LoopOf <- OneLoop
    KindsOf <- Requests
    Themes <- MCThemes
    Subs <- MCSubs
    Order <- MCOrder
    Insts <- MCInsts
    Inst <- MCInst
    Held <- MCHeld
    Secids <- MCSecids
    Markets <- MCMarkets
    FirstDay = 3
    LastDay = 4
    Cutoff = 2
    MaxRuns = 2
    MaxFailures = 2
    PercentileWindow = 2
    ReturnPeriod = 1
    VolumePeriod = 2
    UpperThreshold = 75
    LowerThreshold = 50
    Scale = 2
SPECIFICATION FairBarSpec
PROPERTIES
    LoopGivenBack
CHECK_DEADLOCK FALSE
