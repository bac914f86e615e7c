SPECIFICATION Spec
CONSTANTS
  r1 = r1
  r2 = r2
  n1 = n1
  Nobody = Nobody
  Runs <- MCRuns
  Names <- MCNames
  MaxAnswers = 2
  MaxAttempts = 1
  Uses = {"delete"}
INVARIANTS OutcomeOwn AnswerWhole
PROPERTIES TerminalStable ExecutionEnds
CHECK_DEADLOCK FALSE
