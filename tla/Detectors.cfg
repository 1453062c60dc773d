SPECIFICATION Spec
CONSTANTS
  Search = Search
  Fetch = Fetch
  Poll = Poll
  Query = Query
  Page = Page
  Hit = Hit
  Miss = Miss
  Blank = Blank
  NoArgs = NoArgs
  NoResult = NoResult
  Traces <- MCTraces
  Order <- MCOrder
  Tools = {Search, Fetch, Poll}
  Args = {Query, Page}
  Results = {Hit, Miss}
  Polling = {Poll}
  Threshold <- MCThreshold
  Window = 2
  ErrorPct = 50
  SpecificPct = 50
  LatencyMultiplier = 2
  LimitMs = 4
  WastedThreshold = 3
  RecoverySteps = 2
INVARIANT StreaksAreExact
INVARIANT RedundantIsArgumentLoop
INVARIANT VerdictsAgree
CHECK_DEADLOCK FALSE
