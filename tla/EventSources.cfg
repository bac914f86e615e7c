SPECIFICATION Spec
CONSTANTS
  s1 = s1
  s2 = s2
  q1 = q1
  m1 = m1
  m2 = m2
  m3 = m3
  Off = Off
  StreamMappings <- MCStreams
  QueueMappings <- MCQueues
  Messages <- MCMessages
  MaxRecords = 4
  MaxFailures = 2
  OneSource = TRUE
  BatchSize = 4
  Wants <- MCWants
INVARIANTS NoneSkipped DeletedHandled
PROPERTIES StreamDrained
CHECK_DEADLOCK FALSE
