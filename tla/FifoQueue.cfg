SPECIFICATION Spec
CONSTANTS
  m1 = m1
  m2 = m2
  m3 = m3
  g1 = g1
  g2 = g2
  d1 = d1
  d2 = d2
  d3 = d3
  r1 = r1
  r2 = r2
  None = None
  Messages <- MCTwo
  Groups <- MCOneGroup
  DedupIds <- MCOneDedup
  Receivers <- MCReceivers
  Group <- MCTwoGroup
  DedupId <- MCSameDedup
  MaxMessages = 2
  MaxReceiveCount = 1
  Uses = {"stale", "zero", "retention", "purge"}
  ReceiveBound = 2
SYMMETRY Symmetry
INVARIANTS GroupOnce
PROPERTIES GroupBlocked
CHECK_DEADLOCK FALSE
