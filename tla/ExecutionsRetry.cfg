SPECIFICATION Spec
CONSTANTS
  r1 = r1
  r2 = r2
  n1 = n1
  Nobody = Nobody
  Runs <- MCRuns
  Names <- MCNames
  MaxAnswers = 1
  MaxAttempts = 1
  Uses = {"delete"}
CHECK_DEADLOCK FALSE
INVARIANTS RetryCompletes
