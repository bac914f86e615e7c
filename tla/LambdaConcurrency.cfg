SPECIFICATION Spec
CONSTANTS
  f1 = f1
  f2 = f2
  q1 = q1
  i1 = i1
  i2 = i2
  i3 = i3
  Nobody = Nobody
  Functions <- MCFunctions
  Qualifiers <- MCQualifiers
  Invocations <- MCThree
  AccountLimit = 2
  MinUnreserved = 1
  MaxRecursionDepth = 2
  ReservedChoices = {0, 1}
  ProvisionedChoices = {1}
  PromisedChoices = {1}
  Settled = {"reservations"}
SYMMETRY Symmetry
INVARIANTS CountsAccurate ReservationGuaranteed NoDeepChain DepthCovers NoSlotLeaked
CHECK_DEADLOCK FALSE
