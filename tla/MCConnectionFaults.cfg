SPECIFICATION ConnSpec
CONSTANTS
    r1 = r1
    c1 = c1
    w = w
    r = r
    k = k
    idle = idle
    halted = halted
    pushed = pushed
    MaxRequests = 2
    MaxPendingWriteBytes = 2
    TimeMax = 0
    PushWhilePending = TRUE
    FifoDeadlines = TRUE
    ReconnectEnabled = TRUE
    ImmediateAttempts = 1
    RequestTimeout = FALSE
    HandshakeTimed = TRUE
    MaxEndpoints = 2
    MaxFaults = 1
    MaxCalls = 2
    Writer = w
    Reader = r
    Control = k
    Idle = idle
    Halted = halted
    PushMessage = pushed
    ConnectIn = {"INIT", "OPEN", "CLOSING", "CLOSED"}
    CloseIn = {"OPEN", "FAILED", "RECONNECTING", "CLOSING", "CLOSED"}
    Requests <- MCRequests1
    Callers <- MCCallers1
    Sinks <- MCSinks11
    Expected <- MCExpected1
    Wire <- MCWire
    Replies <- MCReplies
    Errors <- MCErrors
INVARIANT IoStillExpected
INVARIANT OneIoPerDirection
INVARIANT QueuedOnlyWhileOpen
INVARIANT HandshakeOwned
INVARIANT ClosedIsQuiet
INVARIANT OpenIsServed
PROPERTY EventsAlternate
PROPERTY CloseJoins
PROPERTY PipelineUse
CHECK_DEADLOCK FALSE
