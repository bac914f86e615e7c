SPECIFICATION FairSpec
CONSTANTS
  m1 = m1
  m2 = m2
  r1 = r1
  r2 = r2
  Messages <- MCMessages
  Receivers <- MCReceivers
  Oversized <- MCNone
  NoMessage = NoMessage
  MaxReceiveCount = 1
  DeadLetter = "queue"
  PoliteClients = TRUE
  VisibleBound = 2
  ReceiveBound = 9
INVARIANTS TypeOK NoLostMessage OnePlace DeadLetteredLate
PROPERTIES NoRevival KeepsPromise EventuallyReceived EventuallyVisible
CHECK_DEADLOCK FALSE
