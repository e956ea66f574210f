SPECIFICATION Spec
CONSTANTS
    Requests <- Busy
    Body <- BusyBodies
    MaxRequests = 3
    Shifts = {1, 2}
    Positions = {1, 2}
    StockOnHand <- OnHand
    CreditLimit = 2
    FirstSale <- FirstSales
INVARIANT NoOversell
INVARIANT WithinCreditLimit
INVARIANT TillReconciles
INVARIANT OneReversal
INVARIANT LockOrderSuffices
PROPERTY EveryRequestEnds
CHECK_DEADLOCK FALSE
