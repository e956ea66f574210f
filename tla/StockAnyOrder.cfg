SPECIFICATION Spec
CONSTANTS
    Branches = {b1, b2}
    NoBranch = NoBranch
    Sales = {s1}
    Transfers = {t1}
    MaxLayers = 2
    MaxQty = 2
    MaxShort = 1
    MaxAge = 1
    AllowNegative = TRUE
    AllowNegativeOnSync = TRUE
    CounterKinds = {"dine_in"}
    MaxReturns = 2
    MaxCancels = 2
SYMMETRY Symmetry
INVARIANT LayersNeverOverstated
PROPERTY TransferConserves
CHECK_DEADLOCK FALSE
