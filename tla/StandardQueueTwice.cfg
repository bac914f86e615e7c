SPECIFICATION Spec
CONSTANTS
  m1 = m1
  m2 = m2
  r1 = r1
  r2 = r2
  Messages <- MCOne
  Receivers <- MCReceivers
  Oversized <- MCNone
  NoMessage = NoMessage
  MaxReceiveCount = 1
  DeadLetter = "queue"
  PoliteClients = TRUE
  VisibleBound = 1
  ReceiveBound = 9
INVARIANTS DeadLetteredOnce
CHECK_DEADLOCK FALSE
