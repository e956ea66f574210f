SPECIFICATION Spec
CONSTANTS
    Rows = {1, 2, 3}
    TableOf <- Entities
    Settings = 1
    Views <- Roles
    Writers = {w1, w2}
    Limit = 1
    MaxTouched = 2
    MaxSeq = 3
    MaxFaults = 2
    QuietPulls = TRUE
    PaidSnapshots = TRUE
INVARIANT NothingSkipped
PROPERTY CatchesUp
CHECK_DEADLOCK FALSE
