SPECIFICATION FairSpec
CONSTANTS
    r1 = r1
    c1 = c1
    w = w
    r = r
    k = k
    idle = idle
    halted = halted
    pushed = pushed
    MaxRequests = 2
    MaxPendingWriteBytes = 3
    TimeMax = 2
    PushWhilePending = FALSE
    FifoDeadlines = TRUE
    ReconnectEnabled = TRUE
    ImmediateAttempts = 0
    RequestTimeout = TRUE
    HandshakeTimed = TRUE
    MaxEndpoints = 1
    MaxFaults = 0
    MaxCalls = 2
    Writer = w
    Reader = r
    Control = k
    Idle = idle
    Halted = halted
    PushMessage = pushed
    ConnectIn = {"INIT"}
    CloseIn = {"OPEN", "FAILED", "RECONNECTING"}
    Requests <- MCRequests1
    Callers <- MCCallers1
    Sinks <- MCSinks11
    Expected <- MCExpected1
    Wire <- MCWire
    Replies <- MCReplies
    Errors <- MCErrors
PROPERTY RequestsComplete
PROPERTY CloseTerminates
PROPERTY ConnectTerminates
CHECK_DEADLOCK FALSE
