CONSTANTS
  s1 = s1
  s2 = s2
  s3 = s3
  pushed = pushed
  e1 = e1
  e2 = e2
  Sinks <- MCSinks
  Replies <- MCReplies
  Errors <- MCErrors
  Expected <- MCExpected
  Wire <- MCWire
  PushMessage <- MCPushMessage
  MaxRequests = 2
  MaxPendingWriteBytes = 3
  TimeMax = 2
  PushWhilePending = FALSE
  FifoDeadlines = TRUE
SPECIFICATION Spec
INVARIANTS
  TypeOK
  ReplyMatch
  StreamMatch
  NextDeadlineEarliest
