\* A request of a snapshot (they do not meet) and two edits of an override at
\* once, a market that moves while sessions open and close and the providers go
\* down and come back.
SPECIFICATION FairCacheSpec
CONSTANTS
    Readers = {r1}
    Editors = {e1, e2}
    Columns = {price, note}
    Values = {x, y}
    Nothing = Nothing
    MaxMoves = 3
    MaxTurns = 2
INVARIANTS
    AnswersAreHonest
    AcceptedEditStands
PROPERTIES
    CacheCatchesUp
CHECK_DEADLOCK FALSE
