\* Three days and ranges of two, so that the failures of a run may or may not
\* fit in the range of one retry.
SPECIFICATION Spec
CONSTANTS
    Days = {1, 2, 3}
    MaxSpan = 1
    Contents = {7, 8}
    Legacy = {1}
    Runs = {r1, r2}
    NoRun = NoRun
    NoDay = NoDay
    MaxVersion = 3
    MaxEdits = 1
    MaxImports = 1
    MaxCrashes = 1
INVARIANTS
    LedgersAgree
    RetryCoversFailures
CHECK_DEADLOCK FALSE
