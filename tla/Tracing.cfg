SPECIFICATION Spec
CONSTANTS
  GraphCalls <- MCGraphCalls
  RawCalls <- MCRawCalls
  Inner <- MCInner
  Tools <- MCTools
  Root = "root"
  NoTrace = "none"
  NoOpKeepsContext = FALSE
  MaxProcessors = 3
  MaxCalls = 1
INVARIANT OneProviderUp
INVARIANT EndedOnce
INVARIANT NodesBelongToTheirRun
INVARIANT RunsAreWhole
INVARIANT OnlyTheLostStayOpen
PROPERTY EverySpanEnds
CHECK_DEADLOCK FALSE
