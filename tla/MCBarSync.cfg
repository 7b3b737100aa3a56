CONSTANTS
    api = api
    worker = worker
    None = None
    NoPrice = None
    Jobs <- MCJobs
    LoopOf <- MCLoopOf
    KindsOf <- MCKindsOf
    Themes <- MCThemes
    Subs <- MCSubs
    Order <- MCOrder
    Insts <- MCInsts
    Inst <- MCInst
    Held <- MCHeld
    Secids <- MCSecids
    Markets <- MCMarkets
    FirstDay = 3
    LastDay = 4
    Cutoff = 2
    MaxRuns = 2
    MaxFailures = 1
    PercentileWindow = 2
    ReturnPeriod = 1
    VolumePeriod = 2
    UpperThreshold = 75
    LowerThreshold = 50
    Scale = 2
SPECIFICATION FairBarSpec
INVARIANTS
    BarsAndSignalsAgree
    CrossingAgreesWithStatus
    CurveEndsAtHoldings
PROPERTIES
    SyncsEnd
CHECK_DEADLOCK FALSE
