SPECIFICATION Spec
CONSTANTS
    Names = {adm, boss}
    AdminNames = {adm, boss}
    Requests = {p, q}
    Tokens = {t1, t2}
    NoName = NoName
    NoToken = NoToken
    NoPass = NoPass
    Window = 2
    Limit = 1
    SessionTTL = 0
    InviteTTL = 1
    MaxTime = 2
    MaxAttempts = 3
    MaxPassword = 1
    MaxToggles = 1
SYMMETRY Symmetry
INVARIANTS
    AttemptsBounded
    SessionsConsistent
PROPERTIES
    AccountsStand
CHECK_DEADLOCK FALSE
