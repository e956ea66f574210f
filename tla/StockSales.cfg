SPECIFICATION Spec
CONSTANTS
    Branches = {b1}
    NoBranch = NoBranch
    Sales = {s1}
    Transfers = {}
    MaxLayers = 3
    MaxQty = 2
    MaxShort = 1
    MaxAge = 2
    AllowNegative = FALSE
    AllowNegativeOnSync = TRUE
    CounterKinds = {"pos"}
    MaxReturns = 1
    MaxCancels = 1
INVARIANT TypeOK
INVARIANT LayersInStep
INVARIANT CostAlwaysTraced
INVARIANT SaleStockMatchesStatus
PROPERTY OldestLayerFirst
CHECK_DEADLOCK FALSE
