SPECIFICATION Spec
CONSTANTS
    Requests <- ClosingTime
    Body <- ClosingBodies
    MaxRequests = 2
    Shifts = {1, 2}
    Positions = {1, 2}
    StockOnHand <- OnHand
    CreditLimit = 2
    FirstSale <- FirstSales
INVARIANT ClosedShiftReconciles
CHECK_DEADLOCK FALSE
