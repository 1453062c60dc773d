SPECIFICATION Spec
CONSTANTS
  Items <- MCItems
  Key <- MCKey
  Types <- MCTypes
  Hits <- MCHits
  LlmTypes <- MCLlmTypes
  LlmSample = 1
  Interval = 2
  None = None
  MaxFaults = 1
  MaxRuns = 3
INVARIANT ProgressHonest
INVARIANT DoneIsComplete
INVARIANT ExaminedAgainForAReason
INVARIANT CountersBracketReports
CHECK_DEADLOCK FALSE
