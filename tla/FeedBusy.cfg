SPECIFICATION Spec
CONSTANTS
    Rows = {1, 2, 3}
    TableOf <- Entities
    Settings = 1
    Views <- Roles
    Writers = {w1}
    Limit = 2
    MaxTouched = 2
    MaxSeq = 4
    MaxFaults = 1
    QuietPulls = FALSE
    PaidSnapshots = TRUE
INVARIANT NothingSkipped
CHECK_DEADLOCK FALSE
