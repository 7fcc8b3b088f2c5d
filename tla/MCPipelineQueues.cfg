CONSTANTS
  s1 = s1
  s2 = s2
  s3 = s3
  pushed = pushed
  e1 = e1
  e2 = e2
  Sinks <- MCSinks
  Replies <- MCReplies
  Errors <- MCErrors
  Expected <- MCExpected
  Wire <- MCWire
  PushMessage <- MCPushMessage
  MaxRequests = 3
  MaxPendingWriteBytes = 4
  TimeMax = 0
  PushWhilePending = TRUE
  FifoDeadlines = FALSE
SPECIFICATION Spec
INVARIANTS
  QueueDiscipline
  BytesAccounted
  NoOverDelivery
