CONSTANTS
  first = first
  retry = retry
  again = again
  reused = reused
  order = order
  refund = refund
  NoBody = NoBody
  NoOne = NoOne
  Requests <- MCRequests
  BodyOf <- MCBodyOf
  Slow <- MCSlow
  MaxWaits = 1
SPECIFICATION Spec
INVARIANT RepeatsExplained
INVARIANT AnswersOwnRequest
PROPERTY EveryRequestAnswered
