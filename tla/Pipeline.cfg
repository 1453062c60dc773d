SPECIFICATION Spec
CONSTANTS
  Order <- MCOrder
  Rows <- MCRows
  BatchSize = 2
  Target = 5
  None = None
  MaxFaults = 2
  MaxRuns = 2
INVARIANT ShortOnlyWhenAllRead
INVARIANT CountedIsStored
INVARIANT ReadThrough
PROPERTY Terminates
CHECK_DEADLOCK FALSE
