SPECIFICATION Spec
CONSTANTS
    Profiles = {p1, p2, p3}
    Roles = {bull, judge}
    Requests = {q1, q2}
    NoProfile = NoProfile
    NoRoute = NoRoute
    MaxRequests = 5
SYMMETRY ProfileSymmetry
INVARIANTS
    DefaultStaysEnabled
CHECK_DEADLOCK FALSE
