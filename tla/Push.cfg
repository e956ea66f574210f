CONSTANTS
  open = open
  customer = customer
  sale = sale
  twin = twin
  expense = expense
  close = close
  payment = payment
  void = void
  return = return
  cashSale = cashSale
  open2 = open2
  customer2 = customer2
  payment2 = payment2
  close2 = close2
  stale = stale
  after = after
  Sessions <- MCSessions
  Nothing = Nothing
  Deliveries = {1, 2}
  Op <- MCOp
  Queue <- MCQueue
  Alone <- MCAlone
  MaxAttempts = 2
  MaxFaults = 1
SPECIFICATION Spec
INVARIANT CashReachesDrawer
INVARIANT ClosedShiftExpectsLateCash
PROPERTY ImplementsOnceOnly
PROPERTY EveryOpSettled
