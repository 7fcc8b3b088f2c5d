----------------------------- MODULE Connection -----------------------------
(***************************************************************************)
(* The connection actor (detail/connection.hpp, impl/connection/).         *)
(*                                                                         *)
(* Everything runs on one strand.  A coroutine runs from one co_await of   *)
(* an iocoro operation to the next without interruption; in between, the   *)
(* strand runs whatever else is ready.  The variable strand names the      *)
(* coroutine in the middle of such a run, so that a run may take several   *)
(* steps of the model and still be uninterrupted.  It is Halted once an    *)
(* operation on the socket completes that the pipeline does not expect:    *)
(* there an assertion fails, and the program is followed no further.       *)
(*                                                                         *)
(* The coroutines are the three loops of the actor (Writer, Reader,        *)
(* Control), the user coroutines that call connect() and close()           *)
(* (Callers), and one activation of do_connect() per owner: spawned by a   *)
(* caller's connect(), or awaited by Control inside do_reconnect().  The   *)
(* sink named by an owner is the slot of its handshake request.            *)
(*                                                                         *)
(* External (iocoro): a condition_event counts notifications and           *)
(* async_wait() takes one; closing a socket makes its pending operation    *)
(* end with operation_aborted; co_spawn(..., use_awaitable), with_timeout  *)
(* and switch_to resume the awaiting coroutine in a turn of its own.       *)
(***************************************************************************)
EXTENDS PipelinePeer, FiniteSets

CONSTANTS
    Requests,           \* user requests, each enqueued at most once
    Callers,            \* user coroutines that call connect() and close()
    Writer, Reader, Control,
    Idle,               \* value of strand: no coroutine is in a run
    Halted,             \* value of strand: an assertion has failed
    ReconnectEnabled,   \* cfg.reconnection.enabled
    ImmediateAttempts,  \* cfg.reconnection.immediate_attempts
    RequestTimeout,     \* cfg.request_timeout has a value
    HandshakeTimed,     \* request_timeout or connect_timeout has a value
    ConnectIn,          \* states in which the application calls connect()
    CloseIn,            \* states in which the application calls close()
    MaxEndpoints,       \* bound on the resolver's answers
    MaxFaults,          \* bound on failures of network and server
    MaxCalls            \* bound on connect() and close() calls per caller

States == {"INIT", "CONNECTING", "OPEN", "FAILED", "RECONNECTING",
           "CLOSING", "CLOSED"}
Owners == Callers \cup {Control}
Loops == {Writer, Reader, Control}

Code(c) == [err |-> c]
Codes == {"not_connected", "connection_lost", "connection_closed", "queue_full",
          "connection_reset", "write_error", "request_timeout", "protocol_error",
          "unsolicited_message", "operation_aborted", "handshake_failed"}

ASSUME ConnectionConstants ==
    /\ Sinks = Requests \cup Owners
    /\ Requests \cap Owners = {}
    /\ Loops \cap Callers = {}
    /\ Writer # Reader /\ Writer # Control /\ Reader # Control
    /\ Idle \notin Owners \cup Loops /\ Halted \notin Owners \cup Loops \cup {Idle}
    /\ Errors = {Code(c) : c \in Codes}
    /\ ConnectIn \subseteq States
    /\ CloseIn \subseteq States
    /\ {ReconnectEnabled, RequestTimeout, HandshakeTimed} \subseteq BOOLEAN
    /\ RequestTimeout => /\ HandshakeTimed
                         /\ \A rs \in SUBSET Requests : Cardinality(rs) + 1 \in 0..TimeMax
    /\ {ImmediateAttempts, MaxEndpoints, MaxFaults, MaxCalls} \subseteq Nat
    /\ NonEmptyRequests

VARIABLES
    state,              \* state_
    generation,         \* generation_
    reconnect_count,    \* reconnect_count_
    epoch,              \* the stop source stop_ holds now
    stopped,            \* the stop sources that were asked to stop
    sock,               \* socket_: which TCP socket it is and whether it is open
    strand,             \* the coroutine in the middle of a run, Idle or Halted
    pc,                 \* where each loop and each caller is
    io,                 \* the socket the pending write and read were started on
    timer,              \* the deadline control_loop sleeps until
    dc,                 \* the activations of do_connect()
    actor,              \* the actor: running or not, and its stop token
    wake,               \* pending notifications of the loops' events
    actor_done,         \* pending notifications of actor_done_
    last_event,         \* the last connection event emitted
    now,                \* the clock, as the number of deadlines passed
    asked,              \* requests the application has enqueued
    faults, calls       \* failures and calls so far (bounds)

sourceVars == <<generation, reconnect_count, epoch, stopped>>
lifeVars == <<state, last_event, sourceVars>>
restVars == <<timer, dc, actor, actor_done, now, asked, calls>>
connVars == <<lifeVars, sock, strand, pc, io, wake, faults, restVars>>
allVars == <<vars, connVars>>

Stopped(token) == token \in stopped

\* An operation started on socket id ends with operation_aborted once that
\* socket is closed.
Usable(id) == sock.open /\ sock.id = id

Fault == faults < MaxFaults /\ faults' = faults + 1

notify(S) == wake' = [l \in Loops |-> IF l \in S THEN wake[l] + 1 ELSE wake[l]]

\* async_wait() on the event of loop l takes one notification.
async_wait(l) == wake[l] > 0 /\ wake' = [wake EXCEPT ![l] = @ - 1]

Goto(p, where) == pc' = [pc EXCEPT ![p] = where]
AtTop(p) == pc[p] = "top" /\ strand \in {Idle, p}

\* The strand resumes coroutine p, or p goes on with its run.
Resumes(p) == strand = Idle /\ strand' = p
Continues(p) == strand = p /\ strand' = p
Suspends == strand' = Idle

\* The writes and the reads that are pending on the open socket, those of a
\* handshake included.
Pending(l, place) ==
    {p \in {l} : pc[l] = "io" /\ Usable(io[l])}
        \cup {o \in Owners : dc[o].pc = place /\ Usable(dc[o].sid)}
Writes == Pending(Writer, "write")
Reads == Pending(Reader, "read")

\* What a completed write relies on: the stream goes on, the request it was
\* given is still the front of pending_write, and no other write is under way.
\* on_write_done() asserts it of the queue (pipeline.ipp:47-52), in_flight_guard
\* of the other write.  A read relies on the stream, and on being the only one.
WriteExpected == live /\ has_pending_write /\ \A p, q \in Writes : p = q
ReadExpected == live /\ \A p, q \in Reads : p = q

\* The completion is not expected.
Halts == strand = Idle /\ strand' = Halted

-----------------------------------------------------------------------------
(* handle_error and transition_to_closed. *)

closeSocket == sock' = [sock EXCEPT !.open = FALSE]

\* Mutant: the pipeline is not cleared.
FailOpen_no_clear(err) ==
    /\ state' = "FAILED"
    /\ last_event' = "disconnected"
    /\ live' = FALSE /\ srv' = <<>> /\ sent' = 0 /\ UNCHANGED pipelineVars
    /\ closeSocket
    /\ notify(Loops)

\* Mutant: the disconnect is not reported.
FailOpen_silent(err) ==
    /\ state' = "FAILED"
    /\ UNCHANGED last_event
    /\ Disconnect(Code(err))
    /\ closeSocket
    /\ notify(Loops)

\* Mutant: the socket is left open for the next attempt to replace.
FailOpen_keep_socket(err) ==
    /\ state' = "FAILED"
    /\ last_event' = "disconnected"
    /\ Disconnect(Code(err))
    /\ UNCHANGED sock
    /\ notify(Loops)

\* Mutant: control_loop is not woken.
FailOpen_no_wake(err) ==
    /\ state' = "FAILED"
    /\ last_event' = "disconnected"
    /\ Disconnect(Code(err))
    /\ closeSocket
    /\ notify({Writer, Reader})

\* OPEN fails: the pipeline is cleared and the socket closed.
FailOpen(err) ==
    /\ state' = "FAILED"
    /\ last_event' = "disconnected"
    /\ Disconnect(Code(err))
    /\ closeSocket
    /\ notify(Loops)

\* In the other states the error is ignored; INIT and CONNECTING are asserted
\* not to occur.
handle_error(err) ==
    IF state = "OPEN" THEN FailOpen(err)
    ELSE /\ wake' = IF state \in {"INIT", "CONNECTING"}
                    THEN [wake EXCEPT ![Control] = @ + 1] ELSE wake
         /\ UNCHANGED <<vars, state, last_event, sock>>

\* Mutant: the socket is left to close().
transition_to_closed_socket ==
    /\ state' = "CLOSED"
    /\ last_event' = "closed"
    /\ Disconnect(Code("connection_closed"))
    /\ UNCHANGED sock

transition_to_closed ==
    /\ state' = "CLOSED"
    /\ last_event' = "closed"
    /\ Disconnect(Code("connection_closed"))
    /\ closeSocket

-----------------------------------------------------------------------------
(* The loops of the actor. *)

\* They end when their token is stopped or state_ is CLOSED.
LoopEnds == Stopped(actor.token) \/ state = "CLOSED"

\* Mutant: the loops are not gated on OPEN.
HasWork_ungated(l) ==
    state \in {"CONNECTING", "OPEN"} /\ (l = Writer => has_pending_write)

\* What write_loop and read_loop need to start an operation on the socket.
HasWork(l) == state = "OPEN" /\ (l = Writer => has_pending_write)

\* Mutant: write_loop and read_loop also end in FAILED.
LoopBreaks_failed(l) == state = IF l = Control THEN "CLOSING" ELSE "FAILED"

\* control_loop also ends in CLOSING.
LoopBreaks(l) == l = Control /\ state = "CLOSING"

LoopExit(l) ==
    /\ AtTop(l)
    /\ LoopEnds \/ LoopBreaks(l)
    /\ Goto(l, "done")
    /\ Suspends
    /\ UNCHANGED <<vars, lifeVars, sock, io, wake, faults, restVars>>

LoopWait(l) ==
    /\ AtTop(l)
    /\ ~LoopEnds
    /\ ~HasWork(l)
    /\ Goto(l, "wait")
    /\ Suspends
    /\ UNCHANGED <<vars, lifeVars, sock, io, wake, faults, restVars>>

LoopWake(l) ==
    /\ pc[l] = "wait"
    /\ async_wait(l)
    /\ Goto(l, "top")
    /\ Resumes(l)
    /\ UNCHANGED <<vars, lifeVars, sock, io, faults, restVars>>

\* async_write_some() of the front request, async_read_some().
IoStart(l) ==
    /\ AtTop(l)
    /\ ~LoopEnds
    /\ HasWork(l)
    /\ Goto(l, "io")
    /\ io' = [io EXCEPT ![l] = sock.id]
    /\ Suspends
    /\ UNCHANGED <<vars, lifeVars, sock, wake, faults, restVars>>

WriteDone(n) ==
    /\ pc[Writer] = "io"
    /\ Usable(io[Writer])
    /\ n > 0
    /\ IF WriteExpected
       THEN /\ Send(n)
            /\ wake' = IF awaiting_read' # <<>>
                       THEN [wake EXCEPT ![Reader] = @ + 1] ELSE wake
            /\ Goto(Writer, "top")
            /\ Resumes(Writer)
       ELSE Halts /\ UNCHANGED <<vars, wake, pc>>
    /\ UNCHANGED <<lifeVars, sock, io, faults, restVars>>

\* The operation fails, or was aborted when its socket was closed.
IoFails(l, err) ==
    /\ pc[l] = "io"
    /\ IF Usable(io[l]) THEN Fault ELSE UNCHANGED faults
    /\ handle_error(err)
    /\ Goto(l, "top")
    /\ Resumes(l)
    /\ UNCHANGED <<sourceVars, io, restVars>>

WriteFails == IoFails(Writer, "write_error")
ReadFails == \E err \in {"connection_lost", "connection_reset"} :
                IoFails(Reader, err)

\* Bytes arrive.  Bytes that complete no message stay in the parser's buffer,
\* which the model leaves out: a message or an error always follows.
ReadData ==
    /\ pc[Reader] = "io"
    /\ Usable(io[Reader])
    /\ IF ReadExpected
       THEN /\ srv # <<>> \/ faults < MaxFaults
            /\ Goto(Reader, "parse")
            /\ Resumes(Reader)
       ELSE Halts /\ UNCHANGED pc
    /\ UNCHANGED <<vars, lifeVars, sock, io, wake, faults, restVars>>

Parsing == pc[Reader] \in {"parse", "more"}

\* parse_one() yields a reply and the pipeline awaits one.
ReadMessage ==
    /\ Parsing
    /\ Receive
    /\ Goto(Reader, "more")
    /\ Continues(Reader)
    /\ UNCHANGED <<lifeVars, sock, io, wake, faults, restVars>>

\* It yields an out-of-band message while the pipeline awaits a reply.
ReadPush ==
    /\ Parsing
    /\ Fault
    /\ ReceivePush
    /\ Goto(Reader, "more")
    /\ Continues(Reader)
    /\ UNCHANGED <<lifeVars, sock, io, wake, restVars>>

\* It yields a message (a reply nothing awaits, or an out-of-band one) while
\* the pipeline awaits none.
ReadUnsolicited ==
    /\ Parsing
    /\ ~has_pending_read
    /\ IF srv = <<>> THEN Fault ELSE UNCHANGED faults
    /\ handle_error("unsolicited_message")
    /\ Goto(Reader, "top")
    /\ Continues(Reader)
    /\ UNCHANGED <<sourceVars, io, restVars>>

\* It fails: the front sink gets the error, then the connection fails.
ReadBad ==
    /\ Parsing
    /\ Fault
    /\ IF has_pending_read THEN ReceiveBad(Code("protocol_error"))
                           ELSE UNCHANGED vars
    /\ Goto(Reader, "bad")
    /\ Continues(Reader)
    /\ UNCHANGED <<lifeVars, sock, io, wake, restVars>>

ReadBadFails ==
    /\ pc[Reader] = "bad"
    /\ handle_error("protocol_error")
    /\ Goto(Reader, "top")
    /\ Continues(Reader)
    /\ UNCHANGED <<sourceVars, io, faults, restVars>>

ReadEnd ==
    /\ pc[Reader] = "more"
    /\ Goto(Reader, "top")
    /\ Continues(Reader)
    /\ UNCHANGED <<vars, lifeVars, sock, io, wake, faults, restVars>>

-----------------------------------------------------------------------------
(* control_loop and do_reconnect. *)

DcOff == [pc |-> "off", token |-> 0, left |-> 0, sid |-> 0, out |-> "none"]
DcBegin(where, token) == [DcOff EXCEPT !.pc = where, !.token = token]

\* Mutant: the other loops are not woken.
NotifyShutdown_none == UNCHANGED wake

NotifyShutdown == notify({Writer, Reader})

\* Reconnection is disabled: FAILED shuts the actor down.
ControlShutdown ==
    /\ AtTop(Control)
    /\ ~LoopEnds
    /\ state = "FAILED"
    /\ ~ReconnectEnabled
    /\ state' = "CLOSING"
    /\ stopped' = stopped \cup {epoch}
    /\ NotifyShutdown
    /\ strand' = Control
    /\ UNCHANGED <<vars, last_event, generation, reconnect_count, epoch, sock,
                   pc, io, faults, restVars>>

ControlReconnect ==
    /\ AtTop(Control)
    /\ ~LoopEnds
    /\ state = "FAILED"
    /\ ReconnectEnabled
    /\ Goto(Control, "reconnect")
    /\ strand' = Control
    /\ UNCHANGED <<vars, lifeVars, sock, io, wake, faults, restVars>>

ControlTimeout ==
    /\ AtTop(Control)
    /\ ~LoopEnds
    /\ state = "OPEN" /\ RequestTimeout
    /\ has_expired(now)
    /\ handle_error("request_timeout")
    /\ strand' = Control
    /\ UNCHANGED <<sourceVars, pc, io, faults, restVars>>

\* when_any(timer at the next deadline, control_wakeup_).
ControlSleep ==
    /\ AtTop(Control)
    /\ ~LoopEnds
    /\ state = "OPEN" /\ RequestTimeout
    /\ ~has_expired(now)
    /\ next_deadline # TimeMax
    /\ timer' = next_deadline
    /\ Goto(Control, "timer")
    /\ Suspends
    /\ UNCHANGED <<vars, lifeVars, sock, io, wake, faults, dc, actor, actor_done,
                   now, asked, calls>>

ControlAwake ==
    /\ pc[Control] = "timer"
    /\ \/ timer <= now /\ UNCHANGED wake
       \/ async_wait(Control)
    /\ Goto(Control, "top")
    /\ Resumes(Control)
    /\ UNCHANGED <<vars, lifeVars, sock, io, faults, restVars>>

ControlWait ==
    /\ AtTop(Control)
    /\ ~LoopEnds
    /\ state \notin {"FAILED", "CLOSING"}
    /\ state = "OPEN" /\ RequestTimeout => next_deadline = TimeMax
    /\ Goto(Control, "wait")
    /\ Suspends
    /\ UNCHANGED <<vars, lifeVars, sock, io, wake, faults, restVars>>

\* calculate_reconnect_delay() is zero for the immediate attempts only, if
\* initial_delay is not zero.
NoDelay == reconnect_count < ImmediateAttempts

ReconnectLoop ==
    /\ pc[Control] = "reconnect"
    /\ strand = Control
    /\ \/ LoopEnds /\ Goto(Control, "top") /\ strand' = Control
       \/ ~LoopEnds /\ NoDelay /\ Goto(Control, "attempt") /\ strand' = Control
       \/ ~LoopEnds /\ ~NoDelay /\ Goto(Control, "backoff") /\ strand' = Idle
    /\ UNCHANGED <<vars, lifeVars, sock, io, wake, faults, restVars>>

ReconnectCancelled == Stopped(actor.token) \/ state = "CLOSING"

\* A notification during the backoff only re-checks for cancellation.
BackoffWake ==
    /\ pc[Control] = "backoff"
    /\ strand = Idle
    /\ async_wait(Control)
    /\ IF ReconnectCancelled
       THEN Goto(Control, "attempt") /\ strand' = Control
       ELSE UNCHANGED <<pc, strand>>
    /\ UNCHANGED <<vars, lifeVars, sock, io, faults, restVars>>

BackoffElapsed ==
    /\ pc[Control] = "backoff"
    /\ Goto(Control, "attempt")
    /\ Resumes(Control)
    /\ UNCHANGED <<vars, lifeVars, sock, io, wake, faults, restVars>>

ReconnectAttempt ==
    /\ pc[Control] = "attempt"
    /\ strand = Control
    /\ ~ReconnectCancelled
    /\ state' = "RECONNECTING"
    /\ dc' = [dc EXCEPT ![Control] = DcBegin("resolve", actor.token)]
    /\ Goto(Control, "connecting")
    /\ Suspends
    /\ UNCHANGED <<vars, last_event, sourceVars, sock, io, wake, faults, timer,
                   actor, actor_done, now, asked, calls>>

ReconnectCancel ==
    /\ pc[Control] = "attempt"
    /\ ReconnectCancelled
    /\ Goto(Control, "top")
    /\ Continues(Control)
    /\ UNCHANGED <<vars, lifeVars, sock, io, wake, faults, restVars>>

\* do_connect() has returned inside do_reconnect(), in the same run.
ReconnectFailed ==
    /\ pc[Control] = "connecting"
    /\ dc[Control].pc = "returned" /\ dc[Control].out # "ok"
    /\ state' = "FAILED"
    /\ reconnect_count' = reconnect_count + 1
    /\ dc' = [dc EXCEPT ![Control] = DcOff]
    /\ Goto(Control, "reconnect")
    /\ Continues(Control)
    /\ UNCHANGED <<vars, last_event, generation, epoch, stopped, sock, io, wake,
                   faults, timer, actor, actor_done, now, asked, calls>>

ReconnectSucceeded ==
    /\ pc[Control] = "connecting"
    /\ dc[Control].pc = "returned" /\ dc[Control].out = "ok"
    /\ reconnect_count' = 0
    /\ notify(Loops)
    /\ dc' = [dc EXCEPT ![Control] = DcOff]
    /\ Goto(Control, "top")
    /\ Continues(Control)
    /\ UNCHANGED <<vars, state, last_event, generation, epoch, stopped, sock, io,
                   faults, timer, actor, actor_done, now, asked, calls>>

-----------------------------------------------------------------------------
(* do_connect, run for owner o. *)

\* do_connect() returns: to Control in the same run, to connect() through the
\* completion of its co_spawn.
DcReturn(o, out) ==
    /\ dc' = [dc EXCEPT ![o] = [DcOff EXCEPT !.pc = "returned", !.out = out]]
    /\ strand' = IF o = Control THEN Control ELSE Idle

DcGoto(o, where) == dc' = [dc EXCEPT ![o].pc = where]

\* async_connect opens a new socket; nothing of an older stream remains.
OpenSocket(o, left) ==
    /\ sock' = [id |-> sock.id + 1, open |-> TRUE]
    /\ dc' = [dc EXCEPT ![o].pc = "tcp", ![o].left = left,
                        ![o].sid = sock.id + 1]
    /\ live' = FALSE
    /\ srv' = <<>>
    /\ sent' = 0
    /\ UNCHANGED pipelineVars

dcRest == <<pc, io, wake, timer, actor, actor_done, now, asked, calls>>

\* The coroutine spawned by connect() starts.
DcStart(o) ==
    /\ dc[o].pc = "start"
    /\ strand = Idle
    /\ IF Stopped(dc[o].token) THEN DcReturn(o, "operation_aborted")
       ELSE DcGoto(o, "resolve") /\ Suspends
    /\ UNCHANGED <<vars, lifeVars, sock, faults, dcRest>>

DcResolved(o, n) ==
    /\ dc[o].pc = "resolve"
    /\ strand = Idle
    /\ ~Stopped(dc[o].token)
    /\ OpenSocket(o, n - 1)
    /\ Suspends
    /\ UNCHANGED <<lifeVars, faults, dcRest>>

DcResolveFails(o) ==
    /\ dc[o].pc = "resolve"
    /\ strand = Idle
    /\ IF Stopped(dc[o].token)
       THEN DcReturn(o, "operation_aborted") /\ UNCHANGED faults
       ELSE DcReturn(o, "failed") /\ Fault
    /\ UNCHANGED <<vars, lifeVars, sock, dcRest>>

\* The attempt on one endpoint fails, or is aborted by close() or cancelled by
\* the token; the loop goes on to the next endpoint without a look at the
\* token.  A socket option that fails closes the socket, a failed connect does
\* not.
DcTcpFails(o) ==
    LET cancelled == ~Usable(dc[o].sid) \/ Stopped(dc[o].token)
    IN  /\ dc[o].pc = "tcp"
        /\ strand = Idle
        /\ IF cancelled THEN UNCHANGED faults ELSE Fault
        /\ \/ /\ dc[o].left > 0
              /\ OpenSocket(o, dc[o].left - 1)
              /\ Suspends
           \/ /\ dc[o].left = 0
              /\ DcReturn(o, IF cancelled THEN "operation_aborted" ELSE "failed")
              /\ UNCHANGED sock \/ (~cancelled /\ closeSocket)
              /\ UNCHANGED vars
        /\ UNCHANGED <<lifeVars, dcRest>>

\* What was aborted with an older socket is resumed before a later
\* async_connect can complete.
OlderIoEnded(id) ==
    /\ \A l \in {Writer, Reader} : pc[l] = "io" => io[l] = id
    /\ \A o \in Owners : dc[o].pc \in {"tcp", "write", "read"} => dc[o].sid = id

DcTcpConnected(o) ==
    /\ dc[o].pc = "tcp"
    /\ strand = Idle
    /\ Usable(dc[o].sid)
    /\ OlderIoEnded(dc[o].sid)
    /\ IF Stopped(dc[o].token)
       THEN DcReturn(o, "operation_aborted") /\ UNCHANGED vars
       ELSE OpenStream(o) /\ DcGoto(o, "push") /\ strand' = o
    /\ UNCHANGED <<lifeVars, sock, faults, dcRest>>

\* The handshake request enters the pipeline without a deadline.
DcPush(o) ==
    /\ dc[o].pc = "push"
    /\ strand = o
    /\ IF CanPush(o)
       THEN push(o, TimeMax) /\ DcGoto(o, "write") /\ Suspends
       ELSE DcReturn(o, "failed") /\ UNCHANGED pipelineVars
    /\ UNCHANGED <<peerVars, lifeVars, sock, faults, dcRest>>

\* do_handshake() ends; a timed one resumes do_connect() in a later turn.
HandshakeEnds(o, out) ==
    /\ dc' = [dc EXCEPT ![o].pc = "handshaked", ![o].out = out]
    /\ strand' = IF HandshakeTimed THEN Idle ELSE o

DcWrote(o, n) ==
    /\ dc[o].pc = "write"
    /\ strand = Idle
    /\ Usable(dc[o].sid)
    /\ n > 0
    /\ IF WriteExpected
       THEN /\ Send(n)
            /\ IF Stopped(dc[o].token) THEN HandshakeEnds(o, "operation_aborted")
               ELSE /\ DcGoto(o, IF pending_write' # <<>> THEN "write" ELSE "read")
                    /\ Suspends
       ELSE Halts /\ UNCHANGED <<vars, dc>>
    /\ UNCHANGED <<lifeVars, sock, faults, dcRest>>

DcReadable(o) ==
    /\ dc[o].pc = "read"
    /\ strand = Idle
    /\ Usable(dc[o].sid)
    /\ IF ReadExpected
       THEN /\ srv # <<>> \/ faults < MaxFaults
            /\ DcGoto(o, "parse")
            /\ strand' = o
       ELSE Halts /\ UNCHANGED dc
    /\ UNCHANGED <<vars, lifeVars, sock, faults, dcRest>>

\* Mutant: the timeout covers the write only.
DcTimesOut_write(o) ==
    /\ HandshakeTimed
    /\ dc[o].pc = "write"
    /\ strand = Idle
    /\ Usable(dc[o].sid)
    /\ IF o = Control THEN Fault ELSE UNCHANGED faults
    /\ HandshakeEnds(o, "failed")
    /\ UNCHANGED <<vars, lifeVars, sock, dcRest>>

\* with_timeout() gives up on the handshake.  Calls of connect() are bounded by
\* MaxCalls; the attempts of do_reconnect() are not, so their timeouts count as
\* failures.
DcTimesOut(o) ==
    /\ HandshakeTimed
    /\ dc[o].pc \in {"write", "read"}
    /\ strand = Idle
    /\ Usable(dc[o].sid)
    /\ IF o = Control THEN Fault ELSE UNCHANGED faults
    /\ HandshakeEnds(o, "failed")
    /\ UNCHANGED <<vars, lifeVars, sock, dcRest>>

\* The write or the read fails, or was aborted when its socket was closed.
DcIoFails(o) ==
    /\ dc[o].pc \in {"write", "read"}
    /\ strand = Idle
    /\ IF Usable(dc[o].sid) THEN HandshakeEnds(o, "failed") /\ Fault
       ELSE HandshakeEnds(o, "operation_aborted") /\ UNCHANGED faults
    /\ UNCHANGED <<vars, lifeVars, sock, dcRest>>

DcMessage(o) ==
    /\ dc[o].pc \in {"parse", "more"}
    /\ strand = o
    /\ (Receive /\ UNCHANGED faults) \/ (ReceivePush /\ Fault)
    /\ IF CompleteWith(o, results'[o])
       THEN HandshakeEnds(o, IF Stopped(dc[o].token) THEN "operation_aborted"
                                                     ELSE "ok")
       ELSE DcGoto(o, "more") /\ UNCHANGED strand
    /\ UNCHANGED <<lifeVars, sock, dcRest>>

DcNeedMore(o) ==
    /\ dc[o].pc = "more"
    /\ strand = o
    /\ IF Stopped(dc[o].token) THEN HandshakeEnds(o, "operation_aborted")
       ELSE DcGoto(o, "read") /\ Suspends
    /\ UNCHANGED <<vars, lifeVars, sock, faults, dcRest>>

\* A parse error, or a message while the pipeline awaits none.
DcBad(o) ==
    /\ dc[o].pc \in {"parse", "more"}
    /\ strand = o
    /\ IF has_pending_read THEN ReceiveBad(Code("protocol_error"))
                           ELSE UNCHANGED vars
    /\ IF has_pending_read \/ srv = <<>> THEN Fault ELSE UNCHANGED faults
    /\ HandshakeEnds(o, "failed")
    /\ UNCHANGED <<lifeVars, sock, dcRest>>

Handshaked(o) == dc[o].pc = "handshaked" /\ strand = IF HandshakeTimed THEN Idle ELSE o

RepliesOk(o) == is_complete(o) /\ \A i \in DOMAIN results[o] : results[o][i] \in Replies

\* Mutant: the pipeline is not cleared.
DcHandshakeFails_keep(o) ==
    /\ Handshaked(o)
    /\ ~(dc[o].out = "ok" /\ RepliesOk(o))
    /\ DcReturn(o, IF dc[o].out = "ok" THEN "failed" ELSE dc[o].out)
    /\ UNCHANGED <<vars, lifeVars, sock, faults, dcRest>>

\* The pipeline is cleared, the socket stays open until the next attempt.
DcHandshakeFails(o) ==
    /\ Handshaked(o)
    /\ ~(dc[o].out = "ok" /\ RepliesOk(o))
    /\ Disconnect(Code("handshake_failed"))
    /\ DcReturn(o, IF dc[o].out = "ok" THEN "failed" ELSE dc[o].out)
    /\ UNCHANGED <<lifeVars, sock, faults, dcRest>>

\* A reply is a server error (AUTH, SELECT): nothing is left to clear.
DcRejected(o) ==
    /\ Handshaked(o)
    /\ dc[o].out = "ok" /\ RepliesOk(o)
    /\ Fault
    /\ DcReturn(o, "failed")
    /\ UNCHANGED <<vars, lifeVars, sock, dcRest>>

DcOpen(o) ==
    /\ Handshaked(o)
    /\ dc[o].out = "ok" /\ RepliesOk(o)
    /\ state' = "OPEN"
    /\ reconnect_count' = 0
    /\ generation' = generation + 1
    /\ last_event' = "connected"
    /\ DcReturn(o, "ok")
    /\ UNCHANGED <<vars, epoch, stopped, sock, faults, dcRest>>

-----------------------------------------------------------------------------
(* connect() and close(), called by caller c. *)

Calls(c, in) ==
    /\ pc[c] = "idle"
    /\ strand = Idle
    /\ state \in in
    /\ calls[c] < MaxCalls
    /\ calls' = [calls EXCEPT ![c] = @ + 1]

\* connect() goes on to do_connect(): a closed connection starts over with a
\* new stop source, an open or connecting one and a stopped source do not.
CanConnect ==
    \/ state = "CLOSED"
    \/ state \notin {"OPEN", "CONNECTING"} /\ ~Stopped(epoch)

ConnectRefused(c) ==
    /\ Calls(c, ConnectIn)
    /\ ~CanConnect
    /\ UNCHANGED <<vars, lifeVars, sock, strand, pc, io, wake, faults, timer, dc,
                   actor, actor_done, now, asked>>

\* The actor is started unless one is running.
Connect(c) ==
    LET source == IF state = "CLOSED" THEN epoch + 1 ELSE epoch
        starts == ~actor.running
    IN  /\ Calls(c, ConnectIn)
        /\ CanConnect
        /\ state' = "CONNECTING"
        /\ epoch' = source
        /\ reconnect_count' = IF state = "CLOSED" THEN 0 ELSE reconnect_count
        /\ actor' = IF starts THEN [running |-> TRUE, joined |-> FALSE,
                                    token |-> source] ELSE actor
        /\ pc' = [p \in DOMAIN pc |-> IF p = c THEN "connecting"
                                      ELSE IF p \in Loops /\ starts THEN "top"
                                      ELSE pc[p]]
        /\ dc' = [dc EXCEPT ![c] = DcBegin("start", source)]
        /\ UNCHANGED <<vars, last_event, generation, stopped, sock, strand, io,
                       wake, faults, timer, actor_done, now, asked>>

Connected(c, out) ==
    /\ pc[c] = "connecting"
    /\ strand = Idle
    /\ dc[c].pc = "returned"
    /\ (dc[c].out = "ok") = out
    /\ dc' = [dc EXCEPT ![c] = DcOff]
    /\ UNCHANGED <<vars, state, sourceVars, sock, strand, io, faults, timer, actor,
                   actor_done, now, asked, calls>>

ConnectSucceeds(c) ==
    /\ Connected(c, TRUE)
    /\ notify(Loops)
    /\ Goto(c, "idle")
    /\ UNCHANGED last_event

\* The cleanup is a close(), which runs in a turn of its own.
ConnectFails(c) ==
    /\ Connected(c, FALSE)
    /\ last_event' = "disconnected"
    /\ Goto(c, "closing")
    /\ UNCHANGED wake

\* Mutant: read_loop is not woken.
Shutdown_no_wake ==
    /\ stopped' = stopped \cup {epoch}
    /\ state' = "CLOSING"
    /\ Disconnect(Code("connection_closed"))
    /\ closeSocket
    /\ notify({Writer, Control})

Shutdown ==
    /\ stopped' = stopped \cup {epoch}
    /\ state' = "CLOSING"
    /\ Disconnect(Code("connection_closed"))
    /\ closeSocket
    /\ notify(Loops)

\* Mutant: close() does not wait for the actor.
AfterShutdown_return == "idle"

AfterShutdown == IF actor.running THEN "join" ELSE "idle"

\* close() up to the wait for the actor.
CloseBody(c) ==
    /\ IF state = "CLOSED"
       THEN Goto(c, "idle") /\ UNCHANGED <<vars, state, stopped, sock, wake>>
       ELSE Shutdown /\ Goto(c, AfterShutdown)
    /\ UNCHANGED <<last_event, generation, reconnect_count, epoch, strand, io,
                   faults, timer, dc, actor, actor_done, now, asked>>

Close(c) == Calls(c, CloseIn) /\ CloseBody(c)

ConnectCloses(c) ==
    /\ pc[c] = "closing"
    /\ strand = Idle
    /\ CloseBody(c)
    /\ UNCHANGED calls

CloseReturns(c) ==
    /\ pc[c] = "join"
    /\ strand = Idle
    /\ actor_done > 0
    /\ actor_done' = actor_done - 1
    /\ Goto(c, "idle")
    /\ UNCHANGED <<vars, lifeVars, sock, strand, io, wake, faults, timer, dc, actor,
                   now, asked, calls>>

-----------------------------------------------------------------------------
(* enqueue(), the end of the actor, and time. *)

Refusal == CASE state \in {"INIT", "CONNECTING"} -> "not_connected"
             [] state \in {"FAILED", "RECONNECTING"} -> "connection_lost"
             [] state \in {"CLOSING", "CLOSED"} -> "connection_closed"
             [] OTHER -> "queue_full"

\* The k-th request is given deadline k: one timeout for all, so the order of
\* the deadlines is the order of the calls.
Deadline == IF RequestTimeout THEN Cardinality(asked) + 1 ELSE TimeMax

\* Mutant: requests are accepted, and kept, in every state.
Accepts_always(r) == CanPush(r)

Accepts(r) == state = "OPEN" /\ CanPush(r)

\* Mutant: control_loop is not woken to watch the deadline.
NotifyEnqueued_writer == notify({Writer})

NotifyEnqueued == notify({Writer, Control})

enqueue(r) ==
    /\ strand = Idle
    /\ r \notin asked
    /\ asked' = asked \cup {r}
    /\ IF Accepts(r)
       THEN push(r, Deadline) /\ NotifyEnqueued
       ELSE reject(r, Code(Refusal)) /\ UNCHANGED wake
    /\ UNCHANGED <<peerVars, lifeVars, sock, strand, pc, io, faults, timer, dc, actor,
                   actor_done, now, calls>>

\* Mutant: when_any.
LoopsEnded_any == \E l \in Loops : pc[l] = "done"

\* when_all of the three loops.
LoopsEnded == \A l \in Loops : pc[l] = "done"

ActorJoins ==
    /\ strand = Idle
    /\ LoopsEnded
    /\ ~actor.joined
    /\ actor' = [actor EXCEPT !.joined = TRUE]
    /\ transition_to_closed
    /\ UNCHANGED <<sourceVars, strand, pc, io, wake, faults, timer, dc, actor_done,
                   now, asked, calls>>

\* The completion handler posted to the strand.  An actor that ends with an
\* exception is left out.
ActorDone ==
    /\ strand = Idle
    /\ actor.joined
    /\ actor' = [actor EXCEPT !.running = FALSE, !.joined = FALSE]
    /\ pc' = [p \in DOMAIN pc |-> IF p \in Loops THEN "off" ELSE pc[p]]
    /\ IF state # "CLOSED" THEN transition_to_closed
                           ELSE UNCHANGED <<vars, state, last_event, sock>>
    /\ actor_done' = actor_done + 1
    /\ UNCHANGED <<sourceVars, strand, io, wake, faults, timer, dc, now, asked,
                   calls>>

\* The next deadline passes.
Tick ==
    /\ RequestTimeout
    /\ now < Cardinality(asked)
    /\ now' = now + 1
    /\ UNCHANGED <<vars, lifeVars, sock, strand, pc, io, wake, faults, timer, dc,
                   actor, actor_done, asked, calls>>

-----------------------------------------------------------------------------

ConnInit ==
    /\ Init
    /\ state = "INIT"
    /\ generation = 0
    /\ reconnect_count = 0
    /\ epoch = 0
    /\ stopped = {}
    /\ sock = [id |-> 0, open |-> FALSE]
    /\ strand = Idle
    /\ pc = [p \in Loops \cup Callers |-> IF p \in Loops THEN "off" ELSE "idle"]
    /\ io = [l \in {Writer, Reader} |-> 0]
    /\ timer = 0
    /\ dc = [o \in Owners |-> DcOff]
    /\ actor = [running |-> FALSE, joined |-> FALSE, token |-> 0]
    /\ wake = [l \in Loops |-> 0]
    /\ actor_done = 0
    /\ last_event = "none"
    /\ now = 0
    /\ asked = {}
    /\ faults = 0
    /\ calls = [c \in Callers |-> 0]

LoopStep(l) == LoopExit(l) \/ LoopWake(l)
IoLoopStep(l) == LoopStep(l) \/ LoopWait(l) \/ IoStart(l)

WriterStep ==
    \/ IoLoopStep(Writer) \/ WriteFails
    \/ \E n \in 1..MaxPendingWriteBytes : WriteDone(n)

ReaderStep ==
    \/ IoLoopStep(Reader) \/ ReadFails \/ ReadMessage \/ ReadPush
    \/ ReadUnsolicited \/ ReadBad \/ ReadBadFails \/ ReadEnd

ControlStep ==
    \/ LoopStep(Control) \/ ControlShutdown \/ ControlReconnect \/ ControlTimeout
    \/ ControlSleep \/ ControlAwake \/ ControlWait
    \/ ReconnectLoop \/ BackoffWake \/ BackoffElapsed \/ ReconnectAttempt
    \/ ReconnectCancel \/ ReconnectFailed \/ ReconnectSucceeded

DcStep(o) ==
    \/ DcStart(o) \/ DcResolveFails(o) \/ \E n \in 1..MaxEndpoints : DcResolved(o, n)
    \/ DcTcpFails(o) \/ DcTcpConnected(o) \/ DcPush(o)
    \/ \E n \in 1..MaxPendingWriteBytes : DcWrote(o, n)
    \/ DcReadable(o) \/ DcTimesOut(o) \/ DcIoFails(o) \/ DcMessage(o) \/ DcNeedMore(o) \/ DcBad(o)
    \/ DcHandshakeFails(o) \/ DcRejected(o) \/ DcOpen(o)

\* What the application does of its own will.
UserCall ==
    \/ \E c \in Callers : ConnectRefused(c) \/ Connect(c) \/ Close(c)
    \/ \E r \in Requests : enqueue(r)

CallerStep(c) ==
    ConnectSucceeds(c) \/ ConnectFails(c) \/ ConnectCloses(c) \/ CloseReturns(c)

ConnNext ==
    \/ WriterStep \/ ReadData \/ ReaderStep \/ ControlStep
    \/ \E o \in Owners : DcStep(o)
    \/ \E c \in Callers : CallerStep(c)
    \/ UserCall \/ ActorJoins \/ ActorDone \/ Tick

ConnSpec == ConnInit /\ [][ConnNext]_allVars

-----------------------------------------------------------------------------
\* The peer decides whether an operation that is pending on the open socket ever
\* ends: a server may leave a request unread and unanswered for ever.
Waits(l) == pc[l] = "io" /\ Usable(io[l])
DcWaits(o) == dc[o].pc \in {"write", "read"} /\ Usable(dc[o].sid)

\* The strand is a FIFO executor: a coroutine that can go on does so.  Timers
\* fire, the resolver and the TCP connect end, a closed socket ends what is
\* pending on it.  The application need not call, and the peer need not read,
\* answer or fail.
Fairness ==
    /\ WF_allVars(~Waits(Writer) /\ WriterStep)
    /\ WF_allVars(~Waits(Reader) /\ ReaderStep)
    /\ WF_allVars(ControlStep)
    /\ \A o \in Owners : WF_allVars(~DcWaits(o) /\ DcStep(o)) /\ WF_allVars(DcTimesOut(o))
    /\ \A c \in Callers : WF_allVars(CallerStep(c))
    /\ WF_allVars(ActorJoins) /\ WF_allVars(ActorDone) /\ WF_allVars(Tick)

FairSpec == ConnSpec /\ Fairness

-----------------------------------------------------------------------------
(* Properties. *)

LoopPlaces == {"off", "top", "wait", "io", "parse", "more", "bad", "timer",
               "reconnect", "backoff", "attempt", "connecting", "done"}
CallerPlaces == {"idle", "connecting", "closing", "join"}
DcPlaces == {"off", "start", "resolve", "tcp", "push", "write", "read", "parse",
             "more", "handshaked", "returned"}
DcRecords == [pc : DcPlaces, token : Nat, left : Nat, sid : Nat,
              out : {"none", "ok", "failed", "operation_aborted"}]

\* The members of connection and the places of its coroutines keep their types.
ConnTypeOK ==
    /\ TypeOK
    /\ state \in States
    /\ {generation, reconnect_count, epoch, actor_done, now, timer, faults} \subseteq Nat
    /\ stopped \subseteq 0..epoch
    /\ sock \in [id : Nat, open : BOOLEAN]
    /\ strand \in {Idle, Halted} \cup Loops \cup Owners
    /\ pc \in [Loops \cup Callers -> LoopPlaces \cup CallerPlaces]
    /\ io \in [{Writer, Reader} -> Nat]
    /\ dc \in [Owners -> DcRecords]
    /\ actor \in [running : BOOLEAN, joined : BOOLEAN, token : 0..epoch]
    /\ wake \in [Loops -> Nat]
    /\ last_event \in {"none", "connected", "disconnected", "closed"}
    /\ asked \subseteq Requests
    /\ calls \in [Callers -> 0..MaxCalls]

\* The connection drives the pipeline the way PipelinePeer assumes: it never
\* starts a stream over requests of an older one, and pushes requests in the
\* order of their deadlines (do_connect, do_write, do_read, enqueue_impl).
PipelineUse == Spec

\* A write or a read that is pending on the open socket still finds what it was
\* started for when the strand can resume it: whoever failed, closed or reopened
\* the connection meanwhile, the assertions of on_write_done() hold
\* (pipeline.ipp:47-52) and no reply is read for a stream that was given up.
IoStillExpected ==
    strand = Idle => /\ Writes # {} => WriteExpected
                     /\ Reads # {} => ReadExpected

\* "At most ONE in-flight async_read_some at any time", and the same for
\* async_write_some (connection.hpp:142-143), the ones of do_connect()'s
\* handshake included.
OneIoPerDirection ==
    LET busy(l, place) == {p \in {l} : pc[l] = "io"}
                            \cup {o \in Owners : dc[o].pc = place}
    IN  /\ \A p, q \in busy(Writer, "write") : p = q
        /\ \A p, q \in busy(Reader, "read") : p = q

\* "no request buffering across connection generations"
\* (connection_state.hpp:31): a user request is in the pipeline only while the
\* connection is OPEN, on a socket that is open unless close() was called.
QueuedOnlyWhileOpen ==
    QueuedSinks \cap Requests # {} => state = "OPEN" /\ (sock.open \/ Stopped(epoch))

\* A handshake request is in the pipeline only while its do_connect() runs the
\* handshake: it never waits among user requests, nor outlives the attempt.
HandshakeOwned ==
    \A o \in Owners \cap QueuedSinks :
        dc[o].pc \in {"write", "read", "parse", "more", "handshaked"}

\* CLOSED means that all has ended: no open socket, nothing queued, no loop
\* that still runs, no do_connect() in progress (transition_to_closed).
ClosedIsQuiet ==
    state = "CLOSED" =>
        /\ ~sock.open
        /\ QueuedSinks = {}
        /\ \A l \in Loops : pc[l] \in {"done", "off"}
        /\ \A o \in Owners : dc[o].pc \in {"off", "returned"}

\* While the connection is OPEN its actor runs, and no loop of it has ended
\* unless the actor was told to stop: somebody serves what enqueue() accepts.
OpenIsServed ==
    state = "OPEN" =>
        /\ actor.running
        /\ ~Stopped(actor.token) => \A l \in Loops : pc[l] # "done"

\* A "connected" event is emitted only after the end of the previous
\* connection was reported by "disconnected" or "closed".
EventsAlternate ==
    [][generation' # generation => last_event # "connected"]_allVars

\* close() returns when the connection is CLOSED and the actor joined
\* (REDISCORO_ASSERT(state_ == CLOSED), core.ipp:296).
CloseJoins ==
    [][\A c \in Callers :
        (Close(c) \/ ConnectCloses(c) \/ CloseReturns(c)) /\ pc'[c] = "idle"
            => state' = "CLOSED"]_allVars

\* A close() that waited for the actor finds the connection CLOSED: what it
\* waited for was the end of its own actor (the assertion at core.ipp:296).
JoinEndsClosed ==
    [][\A c \in Callers : CloseReturns(c) => state = "CLOSED"]_allVars

\* "there is no buffering/replay across connection generations"
\* (connection.hpp:46-47): a new stream starts with an empty pipeline.
NoCarryOver == [][live' /\ ~live => QueuedSinks = {}]_allVars

\* With a request timeout every enqueued request completes, whatever fails.
RequestsComplete ==
    \A r \in Requests : (r \in asked) ~> is_complete(r)

\* close() returns.
CloseTerminates == \A c \in Callers : (pc[c] = "join") ~> (pc[c] = "idle")

\* With a timeout for the handshake connect() returns, even if the server
\* accepts the connection and never answers (connect.ipp:232-247).
ConnectTerminates == \A c \in Callers : (pc[c] = "connecting") ~> (pc[c] = "idle")

\* A failed connection is opened again or shut down (handle_error, control_loop,
\* do_reconnect), unless a server without an answer holds up the handshake of
\* a new attempt for ever.
FailureIsHandled ==
    [](state = "FAILED" => <>(state \in {"OPEN", "CLOSED"}) \/ <>[]DcWaits(Control))

=============================================================================
