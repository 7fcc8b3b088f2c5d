SPECIFICATION FairSpec
CONSTANTS
    r1 = r1
    c1 = c1
    w = w
    r = r
    k = k
    idle = idle
    halted = halted
    pushed = pushed
    MaxRequests = 2
    MaxPendingWriteBytes = 2
    TimeMax = 0
    PushWhilePending = FALSE
    FifoDeadlines = TRUE
    ReconnectEnabled = TRUE
    ImmediateAttempts = 1
    RequestTimeout = FALSE
    HandshakeTimed = FALSE
    MaxEndpoints = 1
    MaxFaults = 2
    MaxCalls = 1
    Writer = w
    Reader = r
    Control = k
    Idle = idle
    Halted = halted
    PushMessage = pushed
    ConnectIn = {"INIT"}
    CloseIn = {"OPEN", "FAILED", "RECONNECTING", "CLOSING", "CLOSED"}
    Requests <- MCRequests1
    Callers <- MCCallers1
    Sinks <- MCSinks11
    Expected <- MCExpected
    Wire <- MCWire
    Replies <- MCReplies
    Errors <- MCErrors
INVARIANT ReplyMatch
PROPERTY FailureIsHandled
CHECK_DEADLOCK FALSE
