SPECIFICATION ConnSpec
CONSTANTS
    r1 = r1
    c1 = c1
    w = w
    r = r
    k = k
    idle = idle
    halted = halted
    pushed = pushed
    MaxRequests = 2
    MaxPendingWriteBytes = 2
    TimeMax = 0
    PushWhilePending = FALSE
    FifoDeadlines = TRUE
    ReconnectEnabled = FALSE
    ImmediateAttempts = 1
    RequestTimeout = FALSE
    HandshakeTimed = FALSE
    MaxEndpoints = 1
    MaxFaults = 1
    MaxCalls = 3
    Writer = w
    Reader = r
    Control = k
    Idle = idle
    Halted = halted
    PushMessage = pushed
    ConnectIn = {"INIT", "CLOSED"}
    CloseIn = {"OPEN"}
    Requests <- MCRequests1
    Callers <- MCCallers1
    Sinks <- MCSinks11
    Expected <- MCExpected1
    Wire <- MCWire
    Replies <- MCReplies
    Errors <- MCErrors
PROPERTY JoinEndsClosed
CHECK_DEADLOCK FALSE
