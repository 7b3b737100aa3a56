SPECIFICATION Spec
CONSTANTS
    t1 = t1
    t2 = t2
    i1 = i1
    Ids = {r1, r2}
    Admin = admin
    Users = {admin, user}
    Readers = {user}
    Texts <- MCTexts
    Instruments = {i1}
    KnownFirst = {i1}
    Mentions <- MCMentions
    Claims <- MCClaims
    Requests = {q1, q2}
    Worker = Worker
    NoRow = NoRow
    NoFile = NoFile
    NoState = NoState
    LastDay = 2
    MaxSaves = 2
    MaxEdits = 1
    MaxTurns = 1
SYMMETRY Symmetry
INVARIANTS
    ReportsConsistent
    MissingOnlyByDeletion
    ServesItsText
CHECK_DEADLOCK FALSE
