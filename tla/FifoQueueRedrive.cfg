SPECIFICATION Spec
CONSTANTS
  m1 = m1
  m2 = m2
  m3 = m3
  g1 = g1
  g2 = g2
  d1 = d1
  d2 = d2
  d3 = d3
  r1 = r1
  r2 = r2
  None = None
  Messages <- MCTwo
  Groups <- MCOneGroup
  DedupIds <- MCTwoDedups
  Receivers <- MCOneReceiver
  Group <- MCTwoGroup
  DedupId <- MCTwoDedup
  MaxMessages = 1
  MaxReceiveCount = 1
  Uses = {}
  ReceiveBound = 3
INVARIANTS NoStuckGroup
CHECK_DEADLOCK FALSE
