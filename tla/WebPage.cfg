SPECIFICATION PageSpec
CONSTANTS
  p1 = p1
  p2 = p2
  p3 = p3
  Params <- MCParams
  Nothing = Nothing
  MaxRequests = 4
INVARIANT StaleOnlyByRetry
PROPERTY LoadingEnds
CHECK_DEADLOCK FALSE
