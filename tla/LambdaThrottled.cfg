SPECIFICATION Spec
CONSTANTS
  f1 = f1
  f2 = f2
  q1 = q1
  i1 = i1
  i2 = i2
  i3 = i3
  Nobody = Nobody
  Functions <- MCOneFunction
  Qualifiers <- MCQualifiers
  Invocations <- MCThree
  AccountLimit = 1
  MinUnreserved = 1
  MaxRecursionDepth = 2
  ReservedChoices = {}
  ProvisionedChoices = {}
  PromisedChoices = {}
  Settled = {}
INVARIANTS DepthReturned
CHECK_DEADLOCK FALSE
