SPECIFICATION Spec
CONSTANTS
  Traces <- MCTraces
  Clean <- MCClean
  Far <- MCFar
  NoText = "none"
  Filler = "filler"
  NoCache = FALSE
  Disabled = {"quality_degradation", "goal_drift"}
  LLMSample = 3
  MaxFaults = 1
INVARIANTS
  SamePromptSameAnswer
  AccountsBalance
  Attributed
  DriftIsAgainstTheFirst
PROPERTY
  EndsWhateverTheModelAnswers
CHECK_DEADLOCK FALSE
