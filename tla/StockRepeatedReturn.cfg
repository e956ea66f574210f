SPECIFICATION Spec
CONSTANTS
    Branches = {b1}
    NoBranch = NoBranch
    Sales = {s1}
    Transfers = {}
    MaxLayers = 3
    MaxQty = 2
    MaxShort = 1
    MaxAge = 1
    AllowNegative = FALSE
    AllowNegativeOnSync = FALSE
    CounterKinds = {"pos"}
    MaxReturns = 2
    MaxCancels = 1
INVARIANT LayersInStep
CHECK_DEADLOCK FALSE
