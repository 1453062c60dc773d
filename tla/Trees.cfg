SPECIFICATION TreesSpec
CONSTANTS
  Corpora <- MCCorpora
  MaxTraces = 3
INVARIANTS
  TreesTypeOK
  RoundTrip
  OnlyCyclesAreLost
  CountMissesOnlyLaterFiles
  ReportTellsWhatWasConverted
CHECK_DEADLOCK FALSE
