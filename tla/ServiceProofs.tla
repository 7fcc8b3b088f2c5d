--------------------------- MODULE ServiceProofs ----------------------------
(*****************************************************************************)
(* The life of a connection that one user coroutine at a time connects and   *)
(* closes, and that is connected only from INIT or CLOSED: what its state,   *)
(* its stop sources, its socket, its actor, its events and its queues say of *)
(* each other, whose requests it queues, and that it uses its pipeline only  *)
(* as the pipeline may be used.  The runs of MCConnection that pass use it   *)
(* this way; two callers at a time, and connect() during a reconnection, are *)
(* runs that show violations.                                                *)
(*****************************************************************************)
EXTENDS ActorProofs

\* The application: one coroutine calls connect() and close(), it does not call
\* connect() while the actor recovers by itself, and where the actor may shut
\* itself down (reconnection disabled) it connects once.
SingleUser ==
    /\ \A c, d \in Callers : c = d
    /\ ConnectIn \cap {"FAILED", "RECONNECTING"} = {}
    /\ ReconnectEnabled \/ ConnectIn \subseteq {"INIT"}

-----------------------------------------------------------------------------
(* The steps, told apart by what they do to the life of the connection. *)

Recovering == {"reconnect", "backoff", "attempt"}

\* A loop moves on.  It ends only if it may, control_loop starts to recover only
\* in FAILED, and an operation on the socket starts only in OPEN.
LoopsMove ==
    /\ UNCHANGED <<generation, epoch, stopped, dc, actor, actor_done>>
    /\ \A c \in Callers : pc'[c] = pc[c]
    /\ \A l \in Loops : pc'[l] = "done" =>
           pc[l] = "done" \/ (pc[l] = "top" /\ (LoopEnds \/ state = "CLOSING"))
    /\ pc'[Control] \in Recovering => pc[Control] \in Recovering \/ state = "FAILED"
    /\ strand = Control => strand' = Control \/ pc[Control] # "connecting"
    /\ \A l \in {Writer, Reader} : pc'[l] = "io" =>
           \/ pc[l] = "io" /\ io'[l] = io[l]
           \/ state = "OPEN" /\ io'[l] = sock.id

Quiet == LoopsMove /\ UNCHANGED <<state, last_event, sock>>

\* handle_error() in OPEN.
Fails ==
    /\ LoopsMove
    /\ strand = Control => pc[Control] # "connecting"
    /\ state = "OPEN" /\ state' = "FAILED" /\ last_event' = "disconnected"
    /\ sock'.id = sock.id /\ ~sock'.open
    /\ \E err \in Codes : Disconnect(Code(err))

Shuts ==
    /\ state = "FAILED" /\ state' = "CLOSING" /\ ~ReconnectEnabled
    /\ stopped' = stopped \cup {epoch}
    /\ UNCHANGED <<last_event, generation, epoch, sock, pc, io, dc, actor, actor_done>>

Attempts ==
    /\ pc[Control] = "attempt" /\ ~ReconnectCancelled
    /\ state' = "RECONNECTING"
    /\ pc' = [pc EXCEPT ![Control] = "connecting"]
    /\ DcMoves(Control, "resolve", "none")
    /\ UNCHANGED <<last_event, generation, epoch, stopped, sock, io, actor, actor_done>>

\* The owner of a do_connect() that has returned goes on.
Resumed(o) ==
    /\ dc[o].pc = "returned" /\ DcMoves(o, "off", "none")
    /\ UNCHANGED <<generation, epoch, stopped, sock, io, actor, actor_done>>
    /\ \/ /\ o = Control /\ dc[o].out # "ok" /\ UNCHANGED last_event
          /\ state' = "FAILED" /\ pc' = [pc EXCEPT ![o] = "reconnect"]
       \/ /\ o = Control /\ dc[o].out = "ok" /\ UNCHANGED <<state, last_event>>
          /\ pc' = [pc EXCEPT ![o] = "top"]
       \/ /\ o \in Callers /\ dc[o].out = "ok" /\ UNCHANGED <<state, last_event>>
          /\ pc' = [pc EXCEPT ![o] = "idle"] /\ strand = Idle /\ UNCHANGED strand
       \/ /\ o \in Callers /\ dc[o].out # "ok" /\ UNCHANGED state
          /\ last_event' = "disconnected"
          /\ pc' = [pc EXCEPT ![o] = "closing"] /\ strand = Idle /\ UNCHANGED strand

Closes(c) ==
    /\ pc[c] = "closing" \/ (pc[c] = "idle" /\ state \in CloseIn)
    /\ strand = Idle /\ sock'.id = sock.id
    /\ pc' = [pc EXCEPT ![c] = IF state # "CLOSED" /\ actor.running THEN "join" ELSE "idle"]
    /\ \/ state = "CLOSED" /\ UNCHANGED <<vars, state, stopped, sock>>
       \/ /\ state # "CLOSED" /\ state' = "CLOSING" /\ stopped' = stopped \cup {epoch}
          /\ ~sock'.open /\ Disconnect(Code("connection_closed"))
    /\ UNCHANGED <<last_event, generation, epoch, strand, io, dc, actor, actor_done>>

Returns(c) ==
    /\ pc[c] = "join" /\ pc' = [pc EXCEPT ![c] = "idle"]
    /\ actor_done > 0 /\ actor_done' = actor_done - 1
    /\ UNCHANGED <<state, last_event, generation, epoch, stopped, sock, strand, io, dc, actor>>

Joins ==
    /\ LoopsEnded /\ strand = Idle /\ actor' = [actor EXCEPT !.joined = TRUE]
    /\ state' = "CLOSED" /\ last_event' = "closed"
    /\ sock'.id = sock.id /\ ~sock'.open /\ Disconnect(Code("connection_closed"))
    /\ UNCHANGED <<generation, epoch, stopped, strand, pc, io, dc, actor_done>>

Finishes ==
    /\ actor.joined /\ strand = Idle
    /\ actor' = [actor EXCEPT !.running = FALSE, !.joined = FALSE]
    /\ pc' = [p \in DOMAIN pc |-> IF p \in Loops THEN "off" ELSE pc[p]]
    /\ state = "CLOSED" => UNCHANGED <<vars, state, last_event, sock>>
    /\ actor_done' = actor_done + 1
    /\ UNCHANGED <<generation, epoch, stopped, strand, io, dc>>

Kind ==
    \/ Quiet \/ Fails \/ Shuts \/ Attempts \/ Joins \/ Finishes
    \/ \E o \in Owners : Resumed(o) \/ DcStep(o)
    \/ \E c \in Callers : Closes(c) \/ Returns(c) \/ Connect(c)

LEMMA Kinds == ASSUME ConnTypeOK, [ConnNext]_allVars PROVE Kind
<1> USE Zenon
<1>0. /\ pc \in [Loops \cup Callers -> LoopPlaces \cup CallerPlaces]
      /\ io \in [{Writer, Reader} -> Nat] /\ sock \in [id : Nat, open : BOOLEAN]
      /\ dc \in [Owners -> DcRecords] /\ actor.token \in Nat
      /\ epoch \in Nat /\ stopped \subseteq 0..epoch
  BY SMT DEF ConnTypeOK
<1>q. Quiet \/ Fails => Kind
  BY DEF Kind
<1>l. ASSUME NEW l \in Loops, NEW where \in LoopPlaces, Goto(l, where), pc[l] # "connecting" \/ l # Control,
             strand \in {Idle, l}, UNCHANGED <<generation, epoch, stopped, dc, actor, actor_done, io>>,
             where = "done" => pc[l] = "top" /\ (LoopEnds \/ state = "CLOSING"),
             where \in Recovering => pc[l] \in Recovering \/ state = "FAILED", where # "io"
      PROVE  LoopsMove /\ (UNCHANGED <<state, last_event, sock>> => Kind)
  <2>1. LoopsMove
    BY <1>0, <1>l, Actors DEF LoopsMove, Goto, Recovering
  <2> QED
    BY <1>q, <2>1 DEF Quiet
<1>u. ASSUME UNCHANGED <<generation, epoch, stopped, dc, actor, actor_done, pc, io>>,
             strand = Control => strand' = Control \/ pc[Control] # "connecting"
      PROVE  LoopsMove /\ (UNCHANGED <<state, last_event, sock>> => Kind)
  <2>1. LoopsMove
    BY <1>u, Actors DEF LoopsMove, Recovering
  <2> QED
    BY <1>q, <2>1 DEF Quiet
<1>h. ASSUME LoopsMove, NEW err \in Codes, handle_error(err), strand = Control => pc[Control] # "connecting"
      PROVE  Kind
  <2>1. Quiet \/ Fails
    BY <1>0, <1>h, ErrorHandled DEF Quiet, Fails
  <2> QED
    BY <1>q, <2>1
<1> USE Actors DEF LoopPlaces, Recovering, restVars, lifeVars, sourceVars
<1>1. CASE UNCHANGED allVars \/ Tick
  BY <1>1, <1>u DEF allVars, connVars, Tick
<1>2. ASSUME NEW l \in Loops, LoopStep(l) PROVE Kind
  BY <1>2, <1>l DEF LoopStep, LoopExit, LoopWake, AtTop, LoopBreaks, Resumes
<1>3. ASSUME NEW l \in {Writer, Reader}, LoopWait(l) \/ IoStart(l) PROVE Kind
  <2>1. CASE LoopWait(l)
    BY <2>1, <1>l DEF LoopWait, AtTop
  <2>2. CASE IoStart(l)
    <3>1. /\ pc[l] = "top" /\ strand \in {Idle, l} /\ pc' = [pc EXCEPT ![l] = "io"] /\ state = "OPEN"
          /\ io' = [io EXCEPT ![l] = sock.id] /\ UNCHANGED <<lifeVars, sock, restVars>>
      BY <2>2 DEF IoStart, AtTop, HasWork, Goto
    <3>2. LoopsMove
      BY <1>0, <3>1 DEF LoopsMove
    <3> QED
      BY <1>q, <3>1, <3>2 DEF Quiet
  <2> QED
    BY <1>3, <2>1, <2>2
<1>4. ASSUME NEW l \in {Writer, Reader}, NEW err \in Codes, IoFails(l, err) PROVE Kind
  <2>1. handle_error(err) /\ strand = Idle /\ Goto(l, "top") /\ UNCHANGED <<sourceVars, io, restVars>>
    BY <1>4 DEF IoFails, Resumes
  <2>2. LoopsMove
    BY <2>1, <1>l
  <2> QED
    BY <2>1, <2>2, <1>h
<1>5. ASSUME NEW n \in 1..MaxPendingWriteBytes, WriteDone(n) PROVE Kind
  BY <1>5, <1>l, <1>u DEF WriteDone, Resumes, Halts
<1>6. CASE ReadMessage \/ ReadPush \/ ReadBad \/ ReadEnd
  BY <1>6, <1>l DEF ReadMessage, ReadPush, ReadBad, ReadEnd, Continues
<1>7. CASE ReadUnsolicited \/ ReadBadFails
  <2>1. /\ Goto(Reader, "top") /\ strand = Reader /\ UNCHANGED <<sourceVars, io, restVars>>
        /\ handle_error("unsolicited_message") \/ handle_error("protocol_error")
    BY <1>7 DEF ReadUnsolicited, ReadBadFails, Continues
  <2>2. LoopsMove
    BY <2>1, <1>l
  <2> QED
    BY <2>1, <2>2, <1>h DEF Codes
<1>8. CASE ReadData \/ ReconnectLoop \/ BackoffElapsed \/ ReconnectCancel
  <2>1. CASE ReadData \/ ReconnectLoop
    BY <2>1, <1>l, <1>u DEF ReadData, ReconnectLoop, Resumes, Halts
  <2>2. CASE BackoffElapsed \/ ReconnectCancel
    BY <2>2, <1>l DEF BackoffElapsed, ReconnectCancel, Resumes, Continues
  <2> QED
    BY <1>8, <2>1, <2>2
<1>9. CASE ControlReconnect \/ ControlSleep \/ ControlAwake \/ ControlWait
  <2>1. CASE ControlReconnect \/ ControlWait
    BY <2>1, <1>l DEF ControlReconnect, ControlWait, AtTop
  <2>2. CASE ControlSleep \/ ControlAwake
    BY <2>2, <1>l DEF ControlSleep, ControlAwake, AtTop, Resumes
  <2> QED
    BY <1>9, <2>1, <2>2
<1>10. CASE BackoffWake
  BY <1>10, <1>l, <1>u DEF BackoffWake
<1>11. CASE ControlTimeout
  <2>1. handle_error("request_timeout") /\ pc[Control] = "top" /\ LoopsMove
    BY <1>11, <1>u DEF ControlTimeout, AtTop
  <2> QED
    BY <2>1, <1>h DEF Codes
<1>12. CASE ReconnectAttempt \/ ReconnectFailed \/ ReconnectSucceeded
  <2>1. ReconnectAttempt => Attempts
    BY <1>0, ReconnectMoves DEF ReconnectAttempt, Attempts, Goto
  <2>2. ReconnectFailed \/ ReconnectSucceeded => Resumed(Control)
    BY <1>0, ReconnectMoves DEF ReconnectFailed, ReconnectSucceeded, Resumed, Goto
  <2> QED
    BY <1>12, <2>1, <2>2 DEF Kind
<1>13. ASSUME NEW c \in Callers, CloseBody(c), strand = Idle,
              pc[c] = "closing" \/ (pc[c] = "idle" /\ state \in CloseIn)
       PROVE  Kind
  <2>1. UNCHANGED <<last_event, generation, epoch, strand, io, dc, actor, actor_done>>
    BY <1>13 DEF CloseBody
  <2>2. Closes(c)
    BY <1>0, <1>13, <2>1, CloseMoves DEF Closes
  <2> QED
    BY <2>2 DEF Kind
<1>14. ASSUME NEW c \in Callers, CallerStep(c) PROVE Kind
  <2>1. ConnectSucceeds(c) \/ ConnectFails(c) => Resumed(c)
    BY ZenonT(30), <1>0, ConnectEndMoves DEF ConnectSucceeds, ConnectFails, Connected, Resumed, Goto
  <2>2. CloseReturns(c) => Returns(c)
    BY DEF CloseReturns, Returns, Goto
  <2>3. CASE ConnectCloses(c)
    BY <2>3, <1>13 DEF ConnectCloses
  <2> QED
    BY <1>14, <2>1, <2>2, <2>3 DEF CallerStep, Kind
<1>15. ASSUME NEW c \in Callers, ConnectRefused(c) \/ Connect(c) \/ Close(c) PROVE Kind
  <2>1. ConnectRefused(c) => Kind
    BY <1>u DEF ConnectRefused
  <2>2. Close(c) => Kind
    BY <1>13 DEF Close, Calls
  <2> QED
    BY <1>15, <2>1, <2>2 DEF Kind
<1>16. ASSUME NEW r \in Requests, enqueue(r) PROVE Kind
  BY <1>16, <1>u DEF enqueue
<1>17. ASSUME ControlShutdown \/ ActorJoins \/ ActorDone \/ \E o \in Owners : DcStep(o) PROVE Kind
  <2>1. ControlShutdown => Shuts
    BY DEF ControlShutdown, Shuts
  <2>2. ActorJoins => Joins
    BY <1>0, ClosedReached DEF ActorJoins, Joins
  <2>3. ActorDone => Finishes
    BY DEF ActorDone, Finishes
  <2> QED
    BY <1>17, <2>1, <2>2, <2>3 DEF Kind
<1> HIDE Actors DEF LoopPlaces, Recovering, restVars, lifeVars, sourceVars
<1>18. WriterStep \/ ReaderStep => Kind
  BY <1>2, <1>3, <1>4, <1>5, <1>6, <1>7 DEF WriterStep, ReaderStep, IoLoopStep, WriteFails, ReadFails, Loops, Codes
<1>19. ControlStep => Kind
  BY <1>2, <1>8, <1>9, <1>10, <1>11, <1>12, <1>17 DEF ControlStep, Loops
<1> QED
  BY <1>1, <1>8, <1>14, <1>15, <1>16, <1>17, <1>18, <1>19 DEF ConnNext, UserCall

-----------------------------------------------------------------------------
(* The state, the coroutines that may change it, and the stop sources. *)

Ended(o) == dc[o].pc \in {"off", "returned"}

\* Who may change the state: a caller's do_connect() runs in CONNECTING, the
\* reconnection in FAILED and RECONNECTING, unless close() came in between.
Life ==
    /\ \A c \in Callers :
          \/ ~Ended(c) \/ (dc[c].pc = "returned" /\ dc[c].out # "ok") \/ pc[c] = "closing"
          => state = "CONNECTING"
    /\ pc[Control] \in Recovering => state \in {"FAILED", "CLOSING"}
    /\ ~Ended(Control) => state \in {"RECONNECTING", "CLOSING"}
    /\ dc[Control].pc = "returned" =>
          /\ strand = Control
          /\ IF dc[Control].out = "ok" THEN state = "OPEN"
             ELSE state \in {"RECONNECTING", "CLOSING"}

\* What the stop source, the actor and its completion say of the state.
Stops ==
    /\ state = "CLOSING" => Stopped(epoch)
    /\ state = "CONNECTING" => ~Stopped(epoch)
    /\ actor.running => actor.token = epoch
    /\ ~actor.running => state \in {"INIT", "CLOSED"} \/ (state = "CLOSING" /\ "INIT" \in CloseIn)
    /\ \A l \in Loops : pc[l] = "done" => Stopped(actor.token)
    /\ actor.running => (actor.joined <=> state = "CLOSED") /\ state # "INIT"
    /\ ReconnectEnabled /\ actor.running /\ Stopped(epoch) => \A c \in Callers : pc[c] = "join"
    /\ actor_done > 0 => /\ state = "CLOSED" /\ ~actor.running
                         /\ ReconnectEnabled => \A c \in Callers : pc[c] = "join"
    /\ actor_done <= 1

\* connect(), called as SingleUser says, finds no actor and starts one with a
\* stop source of its own.
LEMMA ConnectFacts ==
    ASSUME SingleUser, ConnTypeOK, Places, Stops, NEW c \in Callers, Connect(c)
    PROVE  /\ state \in {"INIT", "CLOSED"} /\ ~actor.running /\ actor_done = 0
           /\ state' = "CONNECTING" /\ epoch' \notin stopped
           /\ actor' = [running |-> TRUE, joined |-> FALSE, token |-> epoch']
           /\ pc'[c] = "connecting" /\ \A l \in Loops : pc'[l] = "top"
           /\ DcMoves(c, "start", "none") /\ dc[c].pc = "off" /\ dc[Control].pc = "off"
           /\ UNCHANGED <<last_event, generation, stopped, sock, strand, io, actor_done>>
<1> USE Zenon
<1>0. /\ dc \in [Owners -> DcRecords] /\ epoch \in Nat
      /\ actor_done \in Nat /\ stopped \subseteq 0..epoch /\ state \in States
      /\ pc \in [Loops \cup Callers -> LoopPlaces \cup CallerPlaces]
  BY DEF ConnTypeOK
<1>1. state \in ConnectIn /\ pc[c] = "idle" /\ CanConnect
  BY DEF Connect, Calls
<1>2. state \in {"INIT", "CLOSED"}
  BY <1>0, <1>1 DEF CanConnect, States, SingleUser, Stops
<1>3. ~actor.running
  <2> SUFFICES ASSUME actor.running PROVE FALSE
    OBVIOUS
  <2>1. state = "CLOSED" /\ actor.joined /\ actor.token = epoch
    BY <1>2 DEF Stops
  <2>2. Stopped(epoch)
    BY <2>1, Actors DEF Places, LoopsEnded, Stops
  <2> QED
    BY <1>1, <2>1, <2>2 DEF Stops, SingleUser
<1>4. actor_done = 0
  <2>1. actor_done > 0 => state = "CLOSED" /\ (ReconnectEnabled => pc[c] = "join")
    BY DEF Stops
  <2> QED
    BY SMT, <1>0, <1>1, <2>1 DEF SingleUser
<1>5. epoch' \notin stopped
  <2>1. \/ state = "CLOSED" /\ epoch' = epoch + 1
        \/ state # "CLOSED" /\ epoch' = epoch /\ ~Stopped(epoch)
    BY <1>1 DEF Connect, CanConnect
  <2>2. epoch + 1 \notin 0..epoch
    BY SMT, <1>0
  <2> QED
    BY <1>0, <2>1, <2>2 DEF Stopped
<1>6. /\ actor' = [running |-> TRUE, joined |-> FALSE, token |-> epoch']
      /\ pc' = [p \in DOMAIN pc |-> IF p = c THEN "connecting"
                                     ELSE IF p \in Loops /\ ~actor.running THEN "top"
                                     ELSE pc[p]]
  BY <1>3 DEF Connect
<1>7. pc'[c] = "connecting" /\ \A l \in Loops : pc'[l] = "top"
  BY <1>0, <1>3, <1>6, Actors
<1>8. DcMoves(c, "start", "none")
  BY <1>0, ConnectMoves
<1>9. dc[c].pc = "off" /\ dc[Control].pc = "off"
  BY <1>1, <1>3, Actors DEF Places
<1>10. /\ state' = "CONNECTING"
       /\ UNCHANGED <<last_event, generation, stopped, sock, strand, io, actor_done>>
  BY DEF Connect
<1> QED
  BY <1>2, <1>3, <1>4, <1>5, <1>6, <1>7, <1>8, <1>9, <1>10

\* A step of do_connect() leaves the life of the connection alone or opens it.
LEMMA DcOutcome ==
    ASSUME ConnTypeOK, Life, NEW o \in Owners, DcStep(o)
    PROVE  /\ ~Ended(o) /\ strand \in {Idle, o} /\ state \in {"CONNECTING", "RECONNECTING", "CLOSING"}
           /\ state = "CONNECTING" \/ o = Control
           /\ dc'[o].pc \notin {"off", "start"} /\ \A q \in Owners \ {o} : dc'[q] = dc[q]
           /\ dc'[o].pc = "returned" => strand' = IF o = Control THEN Control ELSE Idle
           /\ \/ /\ UNCHANGED <<state, last_event, generation>>
                 /\ ~(dc'[o].pc = "returned" /\ dc'[o].out = "ok")
              \/ /\ state' = "OPEN" /\ last_event' = "connected" /\ dc[o].pc = "handshaked"
                 /\ dc'[o].pc = "returned" /\ dc'[o].out = "ok"
           /\ UNCHANGED <<epoch, stopped, pc, io, actor, actor_done, asked>>
<1> USE Zenon
<1>0. dc \in [Owners -> DcRecords] /\ sock \in [id : Nat, open : BOOLEAN] /\ dc[o].pc \in DcPlaces
  BY DEF ConnTypeOK, DcRecords
<1>1. DcFrame(o) /\ DcPath(o)
  BY <1>0, DcFrames, DcPaths
<1>2. /\ UNCHANGED <<pc, io, actor, actor_done, asked>> /\ ~Ended(o) /\ strand \in {Idle, o}
      /\ UNCHANGED <<state, last_event, generation, epoch, stopped>> \/ DcOpen(o)
  BY <1>1 DEF DcFrame, dcRest, Ended, lifeVars, sourceVars
<1>3. DcOpen(o) => /\ state' = "OPEN" /\ last_event' = "connected" /\ dc[o].pc = "handshaked"
                   /\ UNCHANGED <<epoch, stopped>>
                   /\ dc'[o].pc = "returned" /\ dc'[o].out = "ok"
  <2>1. DcOpen(o) => DcReturn(o, "ok")
    BY DEF DcOpen
  <2>2. DcReturn(o, "ok") => dc'[o].pc = "returned" /\ dc'[o].out = "ok"
    BY <1>0, DcReturnMoves DEF Outs, DcMoves
  <2> QED
    BY <2>1, <2>2 DEF DcOpen, Handshaked
<1>4. /\ dc'[o].pc \notin {"off", "start"} /\ \A q \in Owners \ {o} : dc'[q] = dc[q]
      /\ dc'[o].pc = "returned" => /\ strand' = IF o = Control THEN Control ELSE Idle
                                   /\ dc'[o].out = "ok" => DcOpen(o)
  BY <1>1 DEF DcPath, Handshaking
<1>5. /\ state \in {"CONNECTING", "RECONNECTING", "CLOSING"}
      /\ state = "CONNECTING" \/ o = Control
  BY <1>2, Actors DEF Life
<1>6. \/ /\ UNCHANGED <<state, last_event, generation>>
         /\ ~(dc'[o].pc = "returned" /\ dc'[o].out = "ok")
      \/ /\ state' = "OPEN" /\ last_event' = "connected" /\ dc[o].pc = "handshaked"
         /\ dc'[o].pc = "returned" /\ dc'[o].out = "ok"
  BY <1>2, <1>3, <1>4
<1>7. epoch' = epoch /\ stopped' = stopped
  BY <1>2, <1>3
<1> QED
  BY ZenonT(30), <1>2, <1>4, <1>5, <1>6, <1>7

LEMMA LifeStep ==
    ASSUME SingleUser, ConnTypeOK, Places, Life, Stops, [ConnNext]_allVars
    PROVE  Life'
<1> USE Zenon
<1>0. /\ pc \in [Loops \cup Callers -> LoopPlaces \cup CallerPlaces]
      /\ \A c, d \in Callers : c = d
  BY DEF ConnTypeOK, SingleUser
<1>a. \A o \in Owners : dc[o].pc # "off" <=> pc[o] = "connecting"
  BY DEF Places
<1>1. CASE Quiet \/ Fails
  <2>1. /\ dc' = dc /\ \A c \in Callers : pc'[c] = pc[c]
        /\ pc'[Control] \in Recovering => pc[Control] \in Recovering \/ state = "FAILED"
        /\ strand = Control => strand' = Control \/ pc[Control] # "connecting"
        /\ \/ state' = state
           \/ state = "OPEN" /\ state' = "FAILED" /\ (strand = Control => pc[Control] # "connecting")
    BY <1>1 DEF Quiet, Fails, LoopsMove
  <2> QED
    BY <1>a, <2>1, Actors DEF Life, Ended
<1>2. CASE Shuts
  BY <1>2 DEF Life, Ended, Shuts
<1>3. CASE Attempts
  <2>1. /\ pc'[Control] = "connecting" /\ \A c \in Callers : pc'[c] = pc[c] /\ dc'[c] = dc[c]
        /\ dc'[Control].pc = "resolve"
    BY <1>3, <1>0, Actors DEF Attempts, DcMoves
  <2>2. state = "FAILED" /\ state' = "RECONNECTING"
    BY <1>3 DEF Life, Attempts, Recovering, ReconnectCancelled
  <2> QED
    BY <2>1, <2>2 DEF Life, Ended, Recovering
<1>4. ASSUME NEW o \in Owners, Resumed(o) PROVE Life'
  <2>1. /\ dc[o].pc = "returned" /\ dc'[o].pc = "off" /\ pc[o] = "connecting"
        /\ \A q \in Owners \ {o} : dc'[q] = dc[q] /\ pc'[q] = pc[q]
    BY ZenonT(40), <1>4, <1>0, <1>a, Actors DEF Resumed, DcMoves
  <2>2. CASE o = Control
    <3>1. /\ pc'[o] = "top" \/ (pc'[o] = "reconnect" /\ state' = "FAILED" /\ dc[o].out # "ok")
          /\ pc'[o] = "top" => state' = state
      BY <1>4, <1>0, <2>2, Actors DEF Resumed
    <3>2. state # "CONNECTING" /\ \A c \in Callers : dc'[c] = dc[c] /\ pc'[c] = pc[c]
      BY <2>1, <2>2, Actors DEF Life
    <3> QED
      BY ZenonT(40), <2>1, <2>2, <3>1, <3>2 DEF Life, Ended, Recovering
  <2>3. CASE o \in Callers
    <3>1. /\ UNCHANGED <<state, strand>> /\ pc'[o] \in {"idle", "closing"}
          /\ pc'[o] = "closing" => dc[o].out # "ok"
      BY <1>4, <1>0, <2>3, Actors DEF Resumed
    <3>2. dc'[Control] = dc[Control] /\ pc'[Control] = pc[Control]
      BY <2>1, <2>3, Actors
    <3> QED
      BY <1>0, <2>1, <2>3, <3>1, <3>2 DEF Life, Ended
  <2> QED
    BY <2>2, <2>3, Actors
<1>5. ASSUME NEW o \in Owners, DcStep(o) PROVE Life'
  <2>1. /\ strand \in {Idle, o} /\ (state = "CONNECTING" \/ o = Control)
        /\ dc'[o].pc # "off" /\ \A q \in Owners \ {o} : dc'[q] = dc[q]
        /\ dc'[o].pc = "returned" => strand' = IF o = Control THEN Control ELSE Idle
        /\ UNCHANGED pc
    BY <1>5, DcOutcome
  <2>2. \/ UNCHANGED state /\ ~(dc'[o].pc = "returned" /\ dc'[o].out = "ok")
        \/ state' = "OPEN" /\ dc'[o].pc = "returned" /\ dc'[o].out = "ok"
    BY <1>5, DcOutcome
  <2>3. ~Ended(o) /\ pc[o] = "connecting" /\ (dc[Control].pc = "returned" => o = Control)
    BY <1>5, <1>a, <2>1, DcOutcome, Actors DEF Life, Ended
  <2>4. \A c \in Callers : o = Control => dc'[c] = dc[c]
    BY <2>1, Actors
  <2>5. CASE o = Control
    BY <2>1, <2>2, <2>3, <2>4, <2>5 DEF Life, Ended, Recovering
  <2>6. CASE o \in Callers
    BY <1>0, <2>1, <2>2, <2>3, <2>6, Actors DEF Life, Ended, Recovering
  <2> QED
    BY <2>5, <2>6, Actors
<1>6. ASSUME NEW c \in Callers, Closes(c) PROVE Life'
  BY <1>6, <1>0, <1>a, Actors DEF Life, Ended, Closes
<1>7. ASSUME NEW c \in Callers, Returns(c) PROVE Life'
  BY <1>7, <1>0, Actors DEF Life, Ended, Returns
<1>8. ASSUME NEW c \in Callers, Connect(c) PROVE Life'
  BY <1>8, <1>0, <1>a, ConnectFacts, Actors DEF Life, Ended, DcMoves, Recovering
<1>9. CASE Joins
  <2>1. actor.running /\ Stopped(epoch) /\ pc[Control] = "done"
    BY <1>9, Actors DEF Joins, LoopsEnded, Places, Stops
  <2>2. state # "CONNECTING" /\ dc[Control].pc = "off"
    BY <2>1, <1>a, Actors DEF Stops
  <2> QED
    BY <1>9, <2>1, <2>2 DEF Life, Ended, Joins, Recovering
<1>10. CASE Finishes
  <2>1. state = "CLOSED" /\ dc[Control].pc = "off"
    BY <1>10, <1>a, Actors DEF Finishes, Places, Stops, LoopsEnded
  <2> QED
    BY <1>10, <1>0, <2>1, Actors DEF Life, Ended, Finishes, Recovering
<1> QED
  BY <1>1, <1>2, <1>3, <1>4, <1>5, <1>6, <1>7, <1>8, <1>9, <1>10, Kinds DEF Kind

-----------------------------------------------------------------------------
(* What the actor relies on: the steps a pipeline may make, and what they do to *)
(* the sinks it holds.                                                          *)

\* enqueue() pushes a request in OPEN, with its deadline; do_handshake() pushes
\* one without.
Pushes(s, d) ==
    /\ Fresh(s) /\ push(s, d) /\ UNCHANGED peerVars
    /\ \/ /\ s \in Requests \ asked /\ asked' = asked \cup {s} /\ d = Deadline
          /\ state = "OPEN" /\ state' = "OPEN"
       \/ s \in Owners /\ asked' = asked /\ d = TimeMax

\* The stream ends with its socket.
Dropped == UNCHANGED pipelineVars /\ live' = FALSE /\ srv' = <<>> /\ sent' = 0

PipelineStep ==
    \/ \E s \in Sinks, d \in 0..TimeMax : Pushes(s, d)
    \/ \E s \in Sinks, err \in Errors : Reject(s, err)
    \/ \E o \in Owners : /\ DcStep(o) /\ dc[o].pc \in {"resolve", "tcp"}
                         /\ OpenStream(o) \/ Dropped
    \/ \E n \in 1..MaxPendingWriteBytes : Send(n)
    \/ Receive
    \/ ReceivePush
    \/ \E err \in Errors : ReceiveBad(err)
    \/ \E err \in Errors : Disconnect(err)

\* Requests may leave the queues, none enters, and a sink that is not queued is
\* left alone.
Drained ==
    /\ QueuedSinks' \subseteq QueuedSinks
    /\ \A s \in Sinks \ QueuedSinks : results'[s] = results[s]

PipelineFacts ==
    /\ results \in [Sinks -> Seq(Slots)]
    /\ TimeMax \in Nat
    /\ \A s \in Sinks : is_complete(s) => s \notin QueuedSinks
    /\ \A s \in Sinks, d \in 0..TimeMax :
           push(s, d) => QueuedSinks' = QueuedSinks \cup {s} /\ results' = results
    /\ \A s, d : push(s, d) => has_pending_write'
    /\ \A n \in 1..MaxPendingWriteBytes : Send(n) => Drained
    /\ Receive \/ ReceivePush => Drained
    /\ \A err \in Errors : ReceiveBad(err) => Drained
    /\ \A err \in Errors : Disconnect(err) => Drained /\ QueuedSinks' = {}

LEMMA SameDrained == ASSUME UNCHANGED pipelineVars PROVE Drained
  BY DEF Drained, pipelineVars, QueuedSinks, PendingWriteSinks, AwaitingReadSinks

LEMMA DrainedFresh == ASSUME Drained PROVE \A s \in Sinks : Fresh(s) => Fresh(s)'
  BY DEF Drained, Fresh

-----------------------------------------------------------------------------
(* What a step of the connection does with the pipeline. *)

\* What a step does to the requests: it runs do_connect(), enqueues, moves only
\* the owner of a do_connect(), or leaves every do_connect() alone.
Awaiting ==
    /\ UNCHANGED <<vars, asked>>
    /\ \E o \in Owners, where \in {"off", "start", "resolve"} :
           dc[o].pc \in {"off", "returned"} /\ DcMoves(o, where, "none")

Transfers ==
    /\ UNCHANGED <<dc, asked>>
    /\ \/ UNCHANGED vars
       \/ \E n \in 1..MaxPendingWriteBytes : Send(n)
       \/ Receive \/ ReceivePush
       \/ \E err \in Errors : ReceiveBad(err) \/ Disconnect(err)

StepKind ==
    \/ \E o \in Owners : DcStep(o)
    \/ \E r \in Requests : enqueue(r)
    \/ Awaiting
    \/ Transfers

LEMMA CodesAreErrors == \A c \in Codes : Code(c) \in Errors
  BY ConnectionConstants DEF ConnectionConstants

LEMMA StepKinds ==
    ASSUME ConnTypeOK, Places, [ConnNext]_allVars
    PROVE  StepKind
<1> USE Zenon
<1>0. dc \in [Owners -> DcRecords] /\ epoch \in Nat /\ actor.token \in Nat
  BY SMT DEF ConnTypeOK
<1>b. /\ Code("connection_closed") \in Errors /\ Code("protocol_error") \in Errors
      /\ Code("unsolicited_message") \in Errors /\ Code("request_timeout") \in Errors
  BY CodesAreErrors DEF Codes
<1>q. ASSUME UNCHANGED <<vars, dc, asked>> PROVE StepKind
  BY <1>q DEF StepKind, Transfers
<1>t. ASSUME Transfers PROVE StepKind
  BY <1>t DEF StepKind
<1>m. ASSUME NEW o \in Owners, NEW where \in {"off", "start", "resolve"},
             dc[o].pc \in {"off", "returned"}, DcMoves(o, where, "none"),
             UNCHANGED <<vars, asked>>
      PROVE  StepKind
  <2>1. Awaiting
    BY <1>m DEF Awaiting
  <2> QED
    BY <2>1 DEF StepKind
<1>h. ASSUME NEW err \in Codes, handle_error(err), UNCHANGED <<dc, asked>> PROVE StepKind
  <2>1. UNCHANGED vars \/ Disconnect(Code(err))
    BY <1>h DEF handle_error, FailOpen
  <2> QED
    BY <1>h, <2>1, <1>t, CodesAreErrors DEF Transfers
<1>s. ASSUME NEW c \in Callers, CloseBody(c) PROVE StepKind
  <2>1. (UNCHANGED vars \/ Disconnect(Code("connection_closed"))) /\ UNCHANGED <<dc, asked>>
    BY <1>s DEF CloseBody, Shutdown
  <2> QED
    BY <1>b, <1>t, <2>1 DEF Transfers
<1>1. CASE UNCHANGED allVars
  BY <1>1, <1>q DEF allVars, connVars, lifeVars, sourceVars, restVars
<1>2. ASSUME NEW l \in Loops, LoopStep(l) PROVE StepKind
  <2>1. CASE LoopExit(l)
    BY <2>1, <1>q DEF LoopExit, restVars
  <2>2. CASE LoopWake(l)
    BY <2>2, <1>q DEF LoopWake, restVars
  <2> QED
    BY <1>2, <2>1, <2>2 DEF LoopStep
<1>3. ASSUME NEW l \in {Writer, Reader}, LoopWait(l) \/ IoStart(l) PROVE StepKind
  <2>1. CASE LoopWait(l)
    BY <2>1, <1>q DEF LoopWait, restVars
  <2>2. CASE IoStart(l)
    BY <2>2, <1>q DEF IoStart, restVars
  <2> QED
    BY <1>3, <2>1, <2>2
<1>4. ASSUME NEW l \in {Writer, Reader}, NEW err \in Codes, IoFails(l, err) PROVE StepKind
  <2>1. handle_error(err) /\ UNCHANGED <<dc, asked>>
    BY <1>4 DEF IoFails, restVars
  <2> QED
    BY <2>1, <1>h DEF Codes
<1>5. CASE WriterStep
  <2>1. ASSUME NEW n \in 1..MaxPendingWriteBytes, WriteDone(n) PROVE StepKind
    <3>1. (Send(n) \/ UNCHANGED vars) /\ UNCHANGED <<dc, asked>>
      BY <2>1 DEF WriteDone, restVars
    <3> QED
      BY <3>1, <1>q, <1>t DEF Transfers
  <2> QED
    BY <1>5, <1>2, <1>3, <1>4, <2>1 DEF WriterStep, IoLoopStep, WriteFails, Loops, Codes
<1>6. CASE ReaderStep
  <2>1. CASE ReadMessage
    <3>1. Receive /\ UNCHANGED <<dc, asked>>
      BY <2>1 DEF ReadMessage, restVars
    <3> QED
      BY <3>1, <1>t DEF Transfers
  <2>2. CASE ReadPush
    <3>1. ReceivePush /\ UNCHANGED <<dc, asked>>
      BY <2>2 DEF ReadPush, restVars
    <3> QED
      BY <3>1, <1>t DEF Transfers
  <2>3. CASE ReadUnsolicited
    <3>1. handle_error("unsolicited_message") /\ UNCHANGED <<dc, asked>>
      BY <2>3 DEF ReadUnsolicited, restVars
    <3> QED
      BY <3>1, <1>h DEF Codes
  <2>4. CASE ReadBad
    <3>1. (UNCHANGED vars \/ ReceiveBad(Code("protocol_error"))) /\ UNCHANGED <<dc, asked>>
      BY <2>4 DEF ReadBad, restVars
    <3> QED
      BY <1>b, <1>t, <3>1 DEF Transfers
  <2>5. CASE ReadBadFails
    <3>1. handle_error("protocol_error") /\ UNCHANGED <<dc, asked>>
      BY <2>5 DEF ReadBadFails, restVars
    <3> QED
      BY <3>1, <1>h DEF Codes
  <2>6. CASE ReadEnd
    BY <2>6, <1>q DEF ReadEnd, restVars
  <2> QED
    BY <1>6, <1>2, <1>3, <1>4, <2>1, <2>2, <2>3, <2>4, <2>5, <2>6 DEF ReaderStep, IoLoopStep,
       ReadFails, Loops, Codes
<1>7. CASE ReadData
  BY <1>7, <1>q DEF ReadData, restVars
<1>8. ASSUME \/ ReconnectLoop \/ BackoffWake \/ BackoffElapsed \/ ReconnectAttempt
             \/ ReconnectCancel \/ ReconnectFailed \/ ReconnectSucceeded
      PROVE  StepKind
  <2>1. CASE ReconnectLoop
    BY <2>1, <1>q DEF ReconnectLoop, restVars
  <2>2. CASE BackoffWake
    BY <2>2, <1>q DEF BackoffWake, restVars
  <2>3. CASE BackoffElapsed
    BY <2>3, <1>q DEF BackoffElapsed, restVars
  <2>4. CASE ReconnectAttempt
    <3>1. DcMoves(Control, "resolve", "none")
      BY <2>4, <1>0, ReconnectMoves, ZenonT(30)
    <3>2. dc[Control].pc \in {"off", "returned"} /\ UNCHANGED <<vars, asked>>
      BY <2>4, Actors DEF ReconnectAttempt, Places
    <3> QED
      BY <3>1, <3>2, <1>m, Actors
  <2>5. CASE ReconnectCancel
    BY <2>5, <1>q DEF ReconnectCancel, restVars
  <2>6. CASE ReconnectFailed
    <3>1. DcMoves(Control, "off", "none")
      BY <2>6, <1>0, ReconnectMoves, ZenonT(30)
    <3>2. dc[Control].pc \in {"off", "returned"} /\ UNCHANGED <<vars, asked>>
      BY <2>6, Actors DEF ReconnectFailed, Places
    <3> QED
      BY <3>1, <3>2, <1>m, Actors
  <2>7. CASE ReconnectSucceeded
    <3>1. DcMoves(Control, "off", "none")
      BY <2>7, <1>0, ReconnectMoves, ZenonT(30)
    <3>2. dc[Control].pc \in {"off", "returned"} /\ UNCHANGED <<vars, asked>>
      BY <2>7, Actors DEF ReconnectSucceeded, Places
    <3> QED
      BY <3>1, <3>2, <1>m, Actors
  <2> QED
    BY <1>8, <2>1, <2>2, <2>3, <2>4, <2>5, <2>6, <2>7
<1>9. CASE ControlStep
  <2>1. CASE ControlShutdown
    <3>1. (UNCHANGED vars \/ Disconnect(Code("connection_closed"))) /\ UNCHANGED <<dc, asked>>
      BY <2>1 DEF ControlShutdown, restVars
    <3> QED
      BY <1>b, <1>t, <3>1 DEF Transfers
  <2>2. CASE ControlReconnect
    BY <2>2, <1>q DEF ControlReconnect, restVars
  <2>3. CASE ControlTimeout
    <3>1. handle_error("request_timeout") /\ UNCHANGED <<dc, asked>>
      BY <2>3 DEF ControlTimeout, restVars
    <3> QED
      BY <3>1, <1>h DEF Codes
  <2>4. CASE ControlSleep
    BY <2>4, <1>q DEF ControlSleep, restVars
  <2>5. CASE ControlAwake
    BY <2>5, <1>q DEF ControlAwake, restVars
  <2>6. CASE ControlWait
    BY <2>6, <1>q DEF ControlWait, restVars
  <2> QED
    BY <1>9, <1>2, <1>8, <2>1, <2>2, <2>3, <2>4, <2>5, <2>6 DEF ControlStep, Loops
<1>10. ASSUME NEW c \in Callers, CallerStep(c) PROVE StepKind
  <2>1. CASE ConnectSucceeds(c)
    <3>1. DcMoves(c, "off", "none")
      BY <2>1, <1>0, ConnectEndMoves, ZenonT(30)
    <3>2. dc[c].pc \in {"off", "returned"} /\ UNCHANGED <<vars, asked>>
      BY <2>1, Actors DEF ConnectSucceeds, Connected, Places
    <3> QED
      BY <3>1, <3>2, <1>m, Actors
  <2>2. CASE ConnectFails(c)
    <3>1. DcMoves(c, "off", "none")
      BY <2>2, <1>0, ConnectEndMoves, ZenonT(30)
    <3>2. dc[c].pc \in {"off", "returned"} /\ UNCHANGED <<vars, asked>>
      BY <2>2, Actors DEF ConnectFails, Connected, Places
    <3> QED
      BY <3>1, <3>2, <1>m, Actors
  <2>3. CASE ConnectCloses(c)
    BY <2>3, <1>s DEF ConnectCloses
  <2>4. CASE CloseReturns(c)
    BY <2>4, <1>q DEF CloseReturns, restVars
  <2> QED
    BY <1>10, <2>1, <2>2, <2>3, <2>4 DEF CallerStep
<1>11. CASE UserCall
  <2>1. ASSUME NEW c \in Callers, ConnectRefused(c) PROVE StepKind
    BY <2>1, <1>q DEF ConnectRefused, Calls, restVars
  <2>2. ASSUME NEW c \in Callers, Connect(c) PROVE StepKind
    <3>1. DcMoves(c, "start", "none")
      BY <2>2, <1>0, ConnectMoves, ZenonT(30)
    <3>2. dc[c].pc \in {"off", "returned"} /\ UNCHANGED <<vars, asked>>
      BY <2>2, Actors DEF Connect, Calls, Places
    <3> QED
      BY <3>1, <3>2, <1>m, Actors
  <2>3. ASSUME NEW c \in Callers, Close(c) PROVE StepKind
    BY <2>3, <1>s DEF Close
  <2>4. ASSUME NEW r \in Requests, enqueue(r) PROVE StepKind
    BY <2>4 DEF StepKind
  <2> QED
    BY <1>11, <2>1, <2>2, <2>3, <2>4 DEF UserCall
<1>12. ASSUME NEW o \in Owners, DcStep(o) PROVE StepKind
  BY <1>12 DEF StepKind
<1>13. CASE ActorJoins
  <2>1. Disconnect(Code("connection_closed")) /\ UNCHANGED <<dc, asked>>
    BY <1>13 DEF ActorJoins, transition_to_closed, restVars
  <2> QED
    BY <1>b, <1>t, <2>1 DEF Transfers
<1>14. CASE ActorDone
  <2>1. (UNCHANGED vars \/ Disconnect(Code("connection_closed"))) /\ UNCHANGED <<dc, asked>>
    BY <1>14 DEF ActorDone, transition_to_closed, restVars
  <2> QED
    BY <1>b, <1>t, <2>1 DEF Transfers
<1>15. CASE Tick
  BY <1>15, <1>q DEF Tick, restVars
<1> QED
  BY <1>1, <1>5, <1>6, <1>7, <1>9, <1>10, <1>11, <1>12, <1>13, <1>14, <1>15 DEF ConnNext

-----------------------------------------------------------------------------
(* Which sinks are queued, and whose. *)

Busy == {"write", "read", "parse", "more", "handshaked"}

\* A request that was not enqueued is not queued and has no result, and the sink
\* of a handshake is fresh when its request is pushed.
Asked ==
    /\ \A r \in Requests \ asked : Fresh(r)
    /\ \A o \in Owners : dc[o].pc = "push" => Fresh(o)
    /\ HandshakeOwned

LEMMA AskedInit == ConnInit => Asked
<1> USE Zenon
<1> SUFFICES ASSUME ConnInit PROVE Asked
  OBVIOUS
<1>1. pending_write = <<>> /\ awaiting_read = <<>> /\ \A s \in Sinks : results[s] = <<>>
  BY DEF ConnInit, Init, PipelineInit
<1>2. QueuedSinks = {}
  BY SMT, <1>1 DEF QueuedSinks, PendingWriteSinks, AwaitingReadSinks
<1>3. \A o \in Owners : dc[o].pc = "off"
  BY DEF ConnInit, DcOff
<1>4. Requests \subseteq Sinks
  BY ConnectionConstants DEF ConnectionConstants
<1> QED
  BY <1>1, <1>2, <1>3, <1>4 DEF Asked, HandshakeOwned, Fresh

LEMMA Sorts == Requests \subseteq Sinks /\ Owners \subseteq Sinks /\ Requests \cap Owners = {}
  BY ConnectionConstants DEF ConnectionConstants

LEMMA AskedDrained ==
    ASSUME Asked, UNCHANGED asked, Drained,
           \A o \in Owners : dc'[o].pc = "push" => dc[o].pc = "push",
           \A o \in Owners : o \in QueuedSinks' => dc'[o].pc \in Busy
    PROVE  Asked'
<1> USE Zenon
<1>1. \A r \in Requests \ asked' : Fresh(r)'
  BY DrainedFresh, Sorts DEF Asked
<1>2. \A o \in Owners : dc'[o].pc = "push" => Fresh(o)'
  BY DrainedFresh, Sorts DEF Asked
<1>3. HandshakeOwned'
  BY DEF HandshakeOwned, Busy
<1> QED
  BY <1>1, <1>2, <1>3 DEF Asked

\* do_connect() uses the pipeline as it may be used, and keeps its sink its own.
LEMMA DcAsked ==
    ASSUME PipelineFacts, dc \in [Owners -> DcRecords], sock \in [id : Nat, open : BOOLEAN], Asked,
           NEW o \in Owners, DcStep(o)
    PROVE  Asked' /\ [PipelineStep]_vars
<1> USE Zenon
<1>0. /\ Owners \subseteq Sinks /\ UNCHANGED asked /\ dc[o].out \in Outs /\ dc[o].left \in Nat
      /\ dc[o].pc \in DcPlaces
      /\ \A q \in Owners : q \in QueuedSinks => dc[q].pc \in Busy
  BY Sorts, DcFrames DEF DcFrame, dcRest, Outs, DcRecords, Asked, HandshakeOwned, Busy
<1>a. Code("protocol_error") \in Errors /\ Code("handshake_failed") \in Errors
  BY CodesAreErrors DEF Codes
<1>b. ASSUME NEW where \in DcPlaces \ {"push"}, NEW out, DcMoves(o, where, out), Drained,
             where \in Busy \/ o \notin QueuedSinks'
      PROVE  Asked'
  <2>1. \A q \in Owners : dc'[q].pc = "push" => dc[q].pc = "push"
    BY <1>b DEF DcMoves
  <2>2. \A q \in Owners : q \in QueuedSinks' => dc'[q].pc \in Busy
    BY <1>0, <1>b DEF DcMoves, Drained
  <2> QED
    BY <1>0, <1>b, <2>1, <2>2, AskedDrained
<1>c. ASSUME NEW where \in DcPlaces \ {"push"}, NEW out, DcMoves(o, where, out),
             UNCHANGED vars, where \in Busy \/ dc[o].pc \notin Busy
      PROVE  Asked' /\ [PipelineStep]_vars
  <2>1. Drained
    BY <1>c, SameDrained DEF vars
  <2>2. o \notin QueuedSinks' \/ where \in Busy
    BY <1>0, <1>c, <2>1 DEF Drained
  <2> QED
    BY <1>b, <1>c, <2>1, <2>2
<1>x. ASSUME (\E out \in Outs : HandshakeEnds(o, out)) \/ (\E where \in Busy : DcGoto(o, where)),
             Drained
      PROVE  Asked'
  <2>1. \E where \in Busy, out \in Outs : DcMoves(o, where, out)
    <3>1. ASSUME NEW out \in Outs, HandshakeEnds(o, out) PROVE DcMoves(o, "handshaked", out)
      BY <3>1, HandshakeEndsMoves
    <3>2. ASSUME NEW where \in Busy, DcGoto(o, where) PROVE DcMoves(o, where, dc[o].out)
      BY <3>2, DcGotoMoves DEF Busy, DcPlaces
    <3> QED
      BY <1>0, <1>x, <3>1, <3>2 DEF Busy
  <2> QED
    BY <1>b, <1>x, <2>1 DEF Busy, DcPlaces
<1>y. ASSUME (\E out \in Outs : HandshakeEnds(o, out)) \/ (\E where \in Busy : DcGoto(o, where)),
             UNCHANGED vars
      PROVE  Asked' /\ [PipelineStep]_vars
  <2>1. Drained
    BY <1>y, SameDrained DEF vars
  <2> QED
    BY <1>x, <1>y, <2>1
<1>h. ASSUME UNCHANGED <<vars, dc>> PROVE Asked' /\ [PipelineStep]_vars
  <2>1. Drained
    BY <1>h, SameDrained DEF vars
  <2>2. \A q \in Owners : q \in QueuedSinks' => dc'[q].pc \in Busy
    BY <1>0, <1>h, <2>1 DEF Drained
  <2> QED
    BY <1>0, <1>h, <2>1, <2>2, AskedDrained
<1>d. ASSUME NEW left \in Nat, OpenSocket(o, left), dc[o].pc \in {"resolve", "tcp"}
      PROVE  Asked' /\ [PipelineStep]_vars
  <2>1. DcMoves(o, "tcp", dc[o].out)
    BY <1>d, OpenSocketMoves
  <2>2. Dropped
    BY <1>d DEF OpenSocket, Dropped
  <2>3. Drained
    BY <2>2, SameDrained DEF Dropped
  <2>4. Asked'
    BY <1>0, <1>b, <1>d, <2>1, <2>3 DEF DcPlaces, Drained, Busy
  <2> QED
    BY <1>d, <2>2, <2>4 DEF PipelineStep
<1>1. CASE DcStart(o)
  <2>1. \/ DcMoves(o, "returned", "operation_aborted") \/ DcMoves(o, "resolve", dc[o].out)
    BY <1>1, DcGotoMoves, DcReturnMoves DEF DcStart, Outs, DcPlaces
  <2>2. UNCHANGED vars /\ dc[o].pc \notin Busy
    BY <1>1 DEF DcStart, Busy
  <2> QED
    BY <1>c, <2>1, <2>2 DEF DcPlaces
<1>2. ASSUME NEW n \in 1..MaxEndpoints, DcResolved(o, n) PROVE Asked' /\ [PipelineStep]_vars
  <2>1. OpenSocket(o, n - 1) /\ n - 1 \in Nat /\ dc[o].pc = "resolve"
    BY SMT, <1>2 DEF DcResolved
  <2> QED
    BY <1>d, <2>1
<1>3. CASE DcResolveFails(o)
  <2>1. \/ DcMoves(o, "returned", "operation_aborted") \/ DcMoves(o, "returned", "failed")
    BY <1>3, DcReturnMoves DEF DcResolveFails, Outs
  <2>2. UNCHANGED vars /\ dc[o].pc \notin Busy
    BY <1>3 DEF DcResolveFails, Busy
  <2> QED
    BY <1>c, <2>1, <2>2 DEF DcPlaces
<1>4. CASE DcTcpFails(o)
  <2>3. dc[o].pc = "tcp" /\ dc[o].pc \notin Busy
    BY <1>4 DEF DcTcpFails, Busy
  <2>1. CASE dc[o].left > 0 /\ OpenSocket(o, dc[o].left - 1)
    <3>1. dc[o].left - 1 \in Nat
      BY SMT, <1>0, <2>1
    <3> QED
      BY <1>d, <2>1, <2>3, <3>1
  <2>2. CASE (\E out \in Outs : DcReturn(o, out)) /\ UNCHANGED vars
    <3>1. \E out \in Outs : DcMoves(o, "returned", out)
      BY <2>2, DcReturnMoves
    <3> QED
      BY <1>c, <2>2, <2>3, <3>1 DEF DcPlaces
  <2> QED
    BY <1>4, <2>1, <2>2 DEF DcTcpFails, Outs
<1>5. CASE DcTcpConnected(o)
  <2>3. dc[o].pc = "tcp" /\ dc[o].pc \notin Busy
    BY <1>5 DEF DcTcpConnected, Busy
  <2>1. CASE DcReturn(o, "operation_aborted") /\ UNCHANGED vars
    <3>1. DcMoves(o, "returned", "operation_aborted")
      BY <2>1, DcReturnMoves DEF Outs
    <3> QED
      BY <1>c, <2>1, <2>3, <3>1 DEF DcPlaces
  <2>2. CASE OpenStream(o) /\ DcGoto(o, "push")
    <3>1. DcMoves(o, "push", dc[o].out)
      BY <2>2, DcGotoMoves DEF DcPlaces
    <3>2. /\ o \notin QueuedSinks /\ UNCHANGED <<pending_write, awaiting_read>>
          /\ results' = [results EXCEPT ![o] = <<>>]
      BY <2>2 DEF OpenStream, make_sink
    <3>3. QueuedSinks' = QueuedSinks
      BY <3>2 DEF QueuedSinks, PendingWriteSinks, AwaitingReadSinks
    <3>4. results \in [Sinks -> Seq(Slots)]
      BY DEF PipelineFacts
    <3>5. Fresh(o)' /\ \A s \in Sinks : Fresh(s) => Fresh(s)'
      BY <1>0, <3>2, <3>3, <3>4 DEF Fresh
    <3>6. \A r \in Requests \ asked' : Fresh(r)'
      BY <1>0, <3>5, Sorts DEF Asked
    <3>7. \A q \in Owners : dc'[q].pc = "push" => Fresh(q)'
      BY <1>0, <3>1, <3>5 DEF Asked, DcMoves
    <3>8. \A q \in Owners : q \in QueuedSinks' => dc'[q].pc \in Busy
      BY <1>0, <3>1, <3>2, <3>3 DEF DcMoves
    <3>9. Asked'
      BY <3>6, <3>7, <3>8 DEF Asked, HandshakeOwned, Busy
    <3> QED
      BY <2>2, <2>3, <3>9 DEF PipelineStep
  <2> QED
    BY <1>5, <2>1, <2>2 DEF DcTcpConnected
<1>6. CASE DcPush(o)
  <2>1. CASE push(o, TimeMax) /\ DcGoto(o, "write") /\ UNCHANGED peerVars
    <3>1. DcMoves(o, "write", dc[o].out)
      BY <2>1, DcGotoMoves DEF DcPlaces
    <3>2. TimeMax \in 0..TimeMax
      BY SMT DEF PipelineFacts
    <3>3. QueuedSinks' = QueuedSinks \cup {o} /\ results' = results
      BY <1>0, <2>1, <3>2 DEF PipelineFacts
    <3>4. Fresh(o)
      BY <1>6 DEF DcPush, Asked
    <3>5. \A r \in Requests \ asked' : Fresh(r)'
      BY <1>0, <3>3, Sorts DEF Asked, Fresh
    <3>6. \A q \in Owners : dc'[q].pc = "push" => Fresh(q)'
      BY <1>0, <3>1, <3>3 DEF Asked, DcMoves, Fresh
    <3>7. \A q \in Owners : q \in QueuedSinks' => dc'[q].pc \in Busy
      BY <1>0, <3>1, <3>3 DEF DcMoves, Busy
    <3>8. Asked'
      BY <3>5, <3>6, <3>7 DEF Asked, HandshakeOwned, Busy
    <3>9. Pushes(o, TimeMax)
      BY <1>0, <2>1, <3>4 DEF Pushes
    <3> QED
      BY <1>0, <3>2, <3>8, <3>9 DEF PipelineStep
  <2>2. CASE DcReturn(o, "failed") /\ UNCHANGED <<pipelineVars, peerVars>>
    <3>1. DcMoves(o, "returned", "failed") /\ UNCHANGED vars
      BY <2>2, DcReturnMoves DEF Outs, vars
    <3>2. dc[o].pc \notin Busy
      BY <1>6 DEF DcPush, Busy
    <3> QED
      BY <1>c, <3>1, <3>2 DEF DcPlaces
  <2> QED
    BY <1>6, <2>1, <2>2 DEF DcPush
<1>7. ASSUME NEW n \in 1..MaxPendingWriteBytes, DcWrote(o, n) PROVE Asked' /\ [PipelineStep]_vars
  <2>1. \/ /\ HandshakeEnds(o, "operation_aborted") \/ DcGoto(o, "write") \/ DcGoto(o, "read")
           /\ Send(n)
        \/ UNCHANGED <<vars, dc>>
    BY <1>7 DEF DcWrote
  <2>2. ASSUME Send(n) PROVE Drained
    BY <2>2 DEF PipelineFacts
  <2>3. Asked'
    BY <1>h, <1>x, <2>1, <2>2 DEF Busy, Outs
  <2> QED
    BY <2>1, <2>3 DEF PipelineStep
<1>8. CASE DcReadable(o)
  <2>1. (DcGoto(o, "parse") \/ UNCHANGED dc) /\ UNCHANGED vars
    BY <1>8 DEF DcReadable
  <2> QED
    BY <1>h, <1>y, <2>1 DEF Busy
<1>9. CASE DcTimesOut(o) \/ DcIoFails(o)
  <2>1. (\E out \in Outs : HandshakeEnds(o, out)) /\ UNCHANGED vars
    BY <1>9 DEF DcTimesOut, DcIoFails, Outs
  <2> QED
    BY <1>y, <2>1
<1>10. CASE DcMessage(o)
  <2>1. (\E out \in Outs : HandshakeEnds(o, out)) \/ DcGoto(o, "more")
    BY <1>10 DEF DcMessage, Outs
  <2>2. Receive \/ ReceivePush
    BY <1>10 DEF DcMessage
  <2>3. Drained
    BY <2>2 DEF PipelineFacts
  <2>4. Asked'
    BY <1>x, <2>1, <2>3 DEF Busy
  <2> QED
    BY <2>2, <2>4 DEF PipelineStep
<1>11. CASE DcNeedMore(o)
  <2>1. HandshakeEnds(o, "operation_aborted") \/ DcGoto(o, "read")
    BY <1>11 DEF DcNeedMore
  <2>2. UNCHANGED vars
    BY <1>11 DEF DcNeedMore
  <2> QED
    BY <1>y, <2>1, <2>2 DEF Outs, Busy
<1>12. CASE DcBad(o)
  <2>1. HandshakeEnds(o, "failed")
    BY <1>12 DEF DcBad
  <2>2. UNCHANGED vars \/ ReceiveBad(Code("protocol_error"))
    BY <1>12 DEF DcBad
  <2>3. ASSUME ReceiveBad(Code("protocol_error")) PROVE Asked' /\ [PipelineStep]_vars
    <3>1. Drained
      BY <1>a, <2>3 DEF PipelineFacts
    <3>2. Asked'
      BY <1>x, <2>1, <3>1 DEF Outs
    <3> QED
      BY <1>a, <2>3, <3>2 DEF PipelineStep
  <2> QED
    BY <1>y, <2>1, <2>2, <2>3 DEF Outs
<1>13. CASE DcHandshakeFails(o)
  <2>1. \E out \in Outs : DcReturn(o, out)
    BY <1>0, <1>13 DEF DcHandshakeFails, Outs
  <2>2. \E out \in Outs : DcMoves(o, "returned", out)
    BY <2>1, DcReturnMoves
  <2>3. Disconnect(Code("handshake_failed"))
    BY <1>13 DEF DcHandshakeFails
  <2>4. Drained /\ QueuedSinks' = {}
    BY <1>a, <2>3 DEF PipelineFacts
  <2> QED
    BY <1>a, <1>b, <2>2, <2>3, <2>4 DEF DcPlaces, PipelineStep
<1>14. CASE DcRejected(o) \/ DcOpen(o)
  <2>1. \E out \in Outs : DcReturn(o, out)
    BY <1>14 DEF DcRejected, DcOpen, Outs
  <2>2. \E out \in Outs : DcMoves(o, "returned", out)
    BY <2>1, DcReturnMoves
  <2>3. UNCHANGED vars /\ is_complete(o)
    BY <1>14 DEF DcRejected, DcOpen, RepliesOk
  <2>4. Drained /\ o \notin QueuedSinks'
    <3>1. Drained
      BY <2>3, SameDrained DEF vars
    <3> QED
      BY <1>0, <2>3, <3>1 DEF PipelineFacts, Drained
  <2> QED
    BY <1>b, <2>2, <2>3, <2>4 DEF DcPlaces
<1> QED
  BY <1>1, <1>2, <1>3, <1>4, <1>5, <1>6, <1>7, <1>8, <1>9, <1>10, <1>11, <1>12, <1>13, <1>14
     DEF DcStep

\* enqueue() pushes a fresh sink, or fails it.
LEMMA EnqueueAsked ==
    ASSUME PipelineFacts, Asked, \A r \in Requests \ asked : Deadline \in 0..TimeMax,
           NEW r \in Requests, enqueue(r)
    PROVE  Asked' /\ [PipelineStep]_vars
<1> USE Zenon
<1>1. /\ r \in Requests \ asked /\ r \in Sinks /\ r \notin Owners /\ Fresh(r)
      /\ asked' = asked \cup {r} /\ UNCHANGED <<dc, peerVars, state>>
  BY Sorts DEF enqueue, Asked, lifeVars
<1>2. \A o \in Owners : o \in QueuedSinks => dc[o].pc \in Busy
  BY DEF Asked, HandshakeOwned, Busy
<1>3. CASE push(r, Deadline) /\ state = "OPEN"
  <2>1. Deadline \in 0..TimeMax
    BY <1>1
  <2>2. QueuedSinks' = QueuedSinks \cup {r} /\ results' = results
    BY <1>1, <1>3, <2>1 DEF PipelineFacts
  <2>3. Asked'
    BY <1>1, <1>2, <2>2 DEF Asked, HandshakeOwned, Fresh
  <2> QED
    BY <1>1, <1>3, <2>1, <2>3 DEF PipelineStep, Pushes
<1>4. CASE reject(r, Code(Refusal))
  <2>1. Code(Refusal) \in Errors
    <3>1. Refusal \in Codes
      BY DEF Refusal, Codes
    <3> QED
      BY <3>1, CodesAreErrors
  <2>2. /\ results' = [results EXCEPT ![r] = fail_all(r, Code(Refusal))]
        /\ UNCHANGED <<pending_write, awaiting_read>>
    BY <1>4 DEF reject
  <2>3. QueuedSinks' = QueuedSinks
    BY <2>2 DEF QueuedSinks, PendingWriteSinks, AwaitingReadSinks
  <2>4. \A s \in Sinks \ {r} : Fresh(s) => Fresh(s)'
    <3>1. results \in [Sinks -> Seq(Slots)]
      BY DEF PipelineFacts
    <3> QED
      BY <2>2, <2>3, <3>1 DEF Fresh
  <2>5. Asked'
    BY <1>1, <1>2, <2>3, <2>4, Sorts DEF Asked, HandshakeOwned
  <2> QED
    BY <1>1, <1>4, <2>1, <2>5 DEF PipelineStep, Reject
<1> QED
  BY <1>3, <1>4 DEF enqueue, Accepts

LEMMA AskedStep ==
    ASSUME PipelineFacts, ConnTypeOK, Places, Asked, \A r \in Requests \ asked : Deadline \in 0..TimeMax,
           [ConnNext]_allVars
    PROVE  Asked' /\ [PipelineStep]_vars
<1> USE Zenon
<1>0. dc \in [Owners -> DcRecords] /\ sock \in [id : Nat, open : BOOLEAN]
  BY DEF ConnTypeOK
<1>1. ASSUME NEW o \in Owners, DcStep(o) PROVE Asked' /\ [PipelineStep]_vars
  BY <1>0, <1>1, DcAsked
<1>2. ASSUME NEW r \in Requests, enqueue(r) PROVE Asked' /\ [PipelineStep]_vars
  BY <1>0, <1>2, EnqueueAsked
<1>3. CASE Awaiting
  <2>1. UNCHANGED <<vars, asked>>
    BY <1>3 DEF Awaiting
  <2>2. Drained
    BY <2>1, SameDrained DEF vars
  <2>3. \A o \in Owners : dc'[o].pc = "push" => dc[o].pc = "push"
    BY <1>3 DEF Awaiting, DcMoves
  <2>5. \A o \in Owners : o \in QueuedSinks => dc[o].pc \in Busy
    BY DEF Asked, HandshakeOwned, Busy
  <2>6. \A o \in Owners : dc[o].pc \in Busy => dc'[o] = dc[o]
    BY <1>3 DEF Awaiting, DcMoves, Busy
  <2>4. \A o \in Owners : o \in QueuedSinks' => dc'[o].pc \in Busy
    BY <2>2, <2>5, <2>6 DEF Drained
  <2> QED
    BY <2>1, <2>2, <2>3, <2>4, AskedDrained
<1>4. CASE Transfers
  <2>1. UNCHANGED <<dc, asked>>
    BY <1>4 DEF Transfers
  <2>2. Drained /\ [PipelineStep]_vars
    <3>1. CASE UNCHANGED vars
      BY <3>1, SameDrained DEF vars
    <3>2. ASSUME NEW n \in 1..MaxPendingWriteBytes, Send(n) PROVE Drained /\ [PipelineStep]_vars
      BY <3>2 DEF PipelineStep, PipelineFacts
    <3>3. CASE Receive \/ ReceivePush \/ \E err \in Errors : ReceiveBad(err)
      BY <3>3 DEF PipelineStep, PipelineFacts
    <3>4. ASSUME NEW err \in Errors, Disconnect(err) PROVE Drained /\ [PipelineStep]_vars
      BY <3>4 DEF PipelineStep, PipelineFacts
    <3> QED
      BY <1>4, <3>1, <3>2, <3>3, <3>4 DEF Transfers
  <2>3. \A o \in Owners : o \in QueuedSinks' => dc'[o].pc \in Busy
    BY <2>1, <2>2 DEF Drained, Asked, HandshakeOwned, Busy
  <2> QED
    BY <2>1, <2>2, <2>3, AskedDrained
<1> QED
  BY <1>1, <1>2, <1>3, <1>4, StepKinds DEF StepKind

\* A request is enqueued once.
LEMMA AskedGrows ==
    ASSUME ConnTypeOK, Places, [ConnNext]_allVars
    PROVE  asked' = asked \/ \E r \in Requests \ asked : asked' = asked \cup {r}
<1>1. \A o \in Owners : DcStep(o) => asked' = asked
  BY DcFrames DEF DcFrame, dcRest
<1>2. \A r \in Requests : enqueue(r) => r \notin asked /\ asked' = asked \cup {r}
  BY Zenon DEF enqueue
<1> QED
  BY <1>1, <1>2, StepKinds DEF StepKind, Awaiting, Transfers

-----------------------------------------------------------------------------
(* The stop sources. *)

LEMMA StopsStep ==
    ASSUME SingleUser, ConnTypeOK, Places, Life, Stops, [ConnNext]_allVars
    PROVE  Stops'
<1> USE Zenon
<1>0. /\ pc \in [Loops \cup Callers -> LoopPlaces \cup CallerPlaces]
      /\ actor \in [running : BOOLEAN, joined : BOOLEAN, token : 0..epoch]
      /\ actor_done \in Nat /\ \A c, d \in Callers : c = d
  BY DEF ConnTypeOK, SingleUser
<1>a. \A l \in Loops : pc[l] = "off" <=> ~actor.running
  BY DEF Places
<1>1. CASE Quiet \/ Fails
  <2>1. \A l \in Loops : pc'[l] = "done" => Stopped(actor.token)
    <3> SUFFICES ASSUME NEW l \in Loops, pc'[l] = "done" PROVE Stopped(actor.token)
      OBVIOUS
    <3>1. pc[l] = "done" \/ (pc[l] = "top" /\ (LoopEnds \/ state = "CLOSING"))
      BY <1>1 DEF Quiet, Fails, LoopsMove
    <3>2. pc[l] = "top" => actor.running /\ state # "CLOSED"
      BY <1>a, Actors DEF Places, LoopsEnded, Stops
    <3> QED
      BY <3>1, <3>2 DEF LoopEnds, Stops
  <2>2. /\ UNCHANGED <<epoch, stopped, actor, actor_done>>
        /\ \A c \in Callers : pc'[c] = pc[c]
        /\ state' = state \/ (state = "OPEN" /\ state' = "FAILED")
    BY <1>1 DEF Quiet, Fails, LoopsMove
  <2> QED
    BY <2>1, <2>2 DEF Stops, Stopped
<1>2. CASE Shuts
  BY <1>2, <1>0 DEF Stops, Stopped, Shuts
<1>3. CASE Attempts
  <2>1. actor.running /\ state \in {"FAILED", "CLOSING"}
    BY <1>3, <1>a, Actors DEF Attempts, Life, Recovering
  <2> QED
    BY <1>0, <1>3, <2>1, Actors DEF Attempts, ReconnectCancelled, Stops, Stopped
<1>4. ASSUME NEW o \in Owners, Resumed(o) PROVE Stops'
  <2>0. pc[o] = "connecting" /\ UNCHANGED <<epoch, stopped, actor, actor_done>>
    BY <1>4 DEF Resumed, Places
  <2>1. CASE o = Control
    <3>0. dc[Control].pc = "returned"
      BY <1>4, <2>1 DEF Resumed
    <3>1. actor.running /\ state \in {"OPEN", "RECONNECTING", "CLOSING"}
      BY <1>a, <2>0, <2>1, <3>0, Actors DEF Life
    <3>2. /\ state' = state \/ state' = "FAILED"
          /\ pc' = [pc EXCEPT ![Control] = "reconnect"] \/ pc' = [pc EXCEPT ![Control] = "top"]
      BY <1>4, <2>1, Actors DEF Resumed
    <3>3. /\ \A c \in Callers : pc'[c] = pc[c]
          /\ \A l \in Loops : pc'[l] = "done" => pc[l] = "done"
      BY ZenonT(40), <1>0, <3>2, Actors
    <3> QED
      BY <2>0, <3>1, <3>2, <3>3 DEF Stops, Stopped
  <2>2. CASE o \in Callers
    <3>1. /\ state' = state /\ UNCHANGED <<epoch, stopped, actor, actor_done>>
          /\ pc' = [pc EXCEPT ![o] = "idle"] \/ pc' = [pc EXCEPT ![o] = "closing"]
      BY <1>4, <2>2, Actors DEF Resumed
    <3>2. \A l \in Loops : pc'[l] = pc[l]
      BY <1>0, <2>2, <3>1, Actors
    <3> QED
      BY <2>0, <2>2, <3>1, <3>2 DEF Stops, Stopped
  <2> QED
    BY <2>1, <2>2, Actors
<1>5. ASSUME NEW o \in Owners, DcStep(o) PROVE Stops'
  <2>1. ~Ended(o) /\ UNCHANGED <<epoch, stopped, pc, actor, actor_done>>
    BY <1>5, DcOutcome
  <2>2. state' = state \/ (state' = "OPEN" /\ state \in {"CONNECTING", "RECONNECTING", "CLOSING"})
    BY <1>5, DcOutcome
  <2>3. state' # state => actor.running
    <3>1. o = Control => actor.running
      BY <1>a, <2>1, Actors DEF Places, Ended
    <3>2. o \in Callers => state = "CONNECTING"
      BY <2>1 DEF Life
    <3> QED
      BY <2>2, <3>1, <3>2, Actors DEF Stops
  <2> QED
    BY <2>1, <2>2, <2>3 DEF Stops, Stopped
<1>6. ASSUME NEW c \in Callers, Closes(c) PROVE Stops'
  <2>1. /\ pc' = [pc EXCEPT ![c] = IF state # "CLOSED" /\ actor.running THEN "join" ELSE "idle"]
        /\ \/ state = "CLOSED" /\ UNCHANGED <<state, stopped>>
           \/ state # "CLOSED" /\ state' = "CLOSING" /\ stopped' = stopped \cup {epoch}
        /\ UNCHANGED <<epoch, actor, actor_done>>
    BY <1>6 DEF Closes
  <2>2. pc[c] \in {"idle", "closing"} /\ (pc[c] = "idle" => state \in CloseIn)
    BY <1>6 DEF Closes
  <2>3. pc[c] = "closing" => state = "CONNECTING"
    BY DEF Life
  <2>4. CASE state = "CLOSED"
    <3>1. actor.running => Stopped(epoch)
      BY <2>4, Actors DEF Places, LoopsEnded, Stops
    <3> QED
      BY <1>0, <2>1, <2>2, <2>4, <3>1, Actors DEF Stops, Stopped
  <2>5. CASE state # "CLOSED"
    BY <1>0, <2>1, <2>2, <2>3, <2>5, Actors DEF Stops, Stopped
  <2> QED
    BY <2>4, <2>5
<1>7. ASSUME NEW c \in Callers, Returns(c) PROVE Stops'
  BY SMTT(20), <1>0, <1>7, Actors DEF Stops, Stopped, Returns
<1>8. ASSUME NEW c \in Callers, Connect(c) PROVE Stops'
  BY SMT, <1>8, ConnectFacts, Actors DEF Stops, Stopped
<1>9. CASE Joins
  <2>1. actor.running /\ Stopped(actor.token)
    BY <1>9, Actors DEF Joins, Places, LoopsEnded, Stops
  <2> QED
    BY <1>0, <1>9, <2>1 DEF Joins, Stops, Stopped
<1>10. CASE Finishes
  <2>1. actor.running /\ state = "CLOSED" /\ Stopped(epoch) /\ actor_done = 0
    BY SMT, <1>0, <1>10, Actors DEF Finishes, Places, LoopsEnded, Stops
  <2>2. /\ UNCHANGED <<state, epoch, stopped>> /\ actor_done' = actor_done + 1
        /\ actor' = [actor EXCEPT !.running = FALSE, !.joined = FALSE]
        /\ \A c \in Callers : pc'[c] = pc[c]
        /\ \A l \in Loops : pc'[l] = "off"
    BY <1>0, <1>10, <2>1, Actors DEF Finishes
  <2> QED
    BY SMT, <1>0, <2>1, <2>2 DEF Stops, Stopped
<1> QED
  BY <1>1, <1>2, <1>3, <1>4, <1>5, <1>6, <1>7, <1>8, <1>9, <1>10, Kinds DEF Kind

-----------------------------------------------------------------------------
(* The socket and the operations on it. *)

\* An operation that a loop has pending was started on the socket of now or on
\* an older one; while a handshake uses the socket the loops have none pending.
Ios ==
    /\ \A l \in {Writer, Reader} : pc[l] = "io" => io[l] <= sock.id
    /\ \A o \in Owners : dc[o].pc \in {"tcp"} \cup Handshaking => dc[o].sid = sock.id
    /\ \A o \in Owners, l \in {Writer, Reader} :
          /\ dc[o].pc = "tcp" /\ pc[l] = "io" => io[l] < dc[o].sid
          /\ dc[o].pc \in Handshaking => pc[l] # "io"
    /\ \A o \in Owners : dc[o].pc \in Handshaking => sock.open \/ Stopped(epoch)
    /\ state = "OPEN" => sock.open \/ Stopped(epoch)
    /\ state = "CLOSED" => ~sock.open

\* At most one do_connect() is in progress.
LEMMA OneActive ==
    ASSUME SingleUser, Life, NEW o \in Owners, NEW q \in Owners, ~Ended(o), ~Ended(q)
    PROVE  o = q
  BY Actors DEF SingleUser, Life

LEMMA IosStep ==
    ASSUME SingleUser, ConnTypeOK, Places, Life, Stops, Ios, [ConnNext]_allVars
    PROVE  Ios'
<1> USE Zenon
<1>0. /\ pc \in [Loops \cup Callers -> LoopPlaces \cup CallerPlaces]
      /\ io \in [{Writer, Reader} -> Nat] /\ sock.id \in Nat
  BY DEF ConnTypeOK
<1>a. \A o \in Owners : dc[o].pc \in {"tcp"} \cup Handshaking => ~Ended(o)
  BY DEF Ended, Handshaking
<1>b. ASSUME state \in {"INIT", "OPEN", "FAILED", "CLOSED"}
      PROVE  \A o \in Owners : dc[o].pc \notin {"tcp"} \cup Handshaking
  BY <1>a, <1>b, Actors DEF Life
<1>c. ASSUME \A l \in {Writer, Reader} : pc'[l] = "io" => pc[l] = "io" /\ io'[l] = io[l],
             \A o \in Owners : dc'[o] = dc[o] \/ dc'[o].pc \notin {"tcp"} \cup Handshaking,
             sock'.id = sock.id,
             (sock'.open = sock.open /\ UNCHANGED <<epoch, stopped>>) \/ Stopped(epoch)',
             state' = "OPEN" => state = "OPEN",
             state' = "CLOSED" => (state = "CLOSED" /\ UNCHANGED sock) \/ ~sock'.open
      PROVE  Ios'
  BY <1>0, <1>c DEF Ios, Stopped
<1>d. ASSUME \A l \in {Writer, Reader} : pc'[l] = "io" => pc[l] = "io" /\ io'[l] = io[l],
             \A o \in Owners : dc'[o].pc \notin {"tcp"} \cup Handshaking,
             sock'.id = sock.id, state' \notin {"OPEN", "CLOSED"}
      PROVE  Ios'
  BY <1>0, <1>d DEF Ios
<1>1. CASE Quiet
  <2>1. \A l \in {Writer, Reader} : pc'[l] = "io" =>
            (pc[l] = "io" /\ io'[l] = io[l]) \/ (state = "OPEN" /\ io'[l] = sock.id)
    BY <1>1 DEF Quiet, LoopsMove
  <2>2. UNCHANGED <<state, sock, dc, epoch, stopped>>
    BY <1>1 DEF Quiet, LoopsMove
  <2> QED
    BY SMT, <1>0, <1>b, <2>1, <2>2 DEF Ios, Stopped
<1>2. CASE Fails
  <2>1. \A l \in {Writer, Reader} : pc'[l] = "io" => io'[l] <= sock.id
    BY SMT, <1>0, <1>2 DEF Fails, LoopsMove, Ios
  <2>2. state = "OPEN" /\ state' = "FAILED" /\ sock'.id = sock.id /\ UNCHANGED dc
    BY <1>2 DEF Fails, LoopsMove
  <2> QED
    BY <1>b, <2>1, <2>2 DEF Ios
<1>3. CASE Shuts
  BY <1>3, <1>c DEF Shuts, Stopped
<1>4. CASE Attempts
  BY <1>0, <1>4, <1>c, Actors DEF Attempts, DcMoves, Handshaking
<1>5. ASSUME NEW o \in Owners, Resumed(o) PROVE Ios'
  <2>1. /\ sock' = sock /\ epoch' = epoch /\ stopped' = stopped /\ io' = io
        /\ state' = state \/ state' = "FAILED"
        /\ \A q \in Owners : dc'[q] = dc[q] \/ dc'[q].pc = "off"
        /\ \E where \in {"reconnect", "top", "idle", "closing"} : pc' = [pc EXCEPT ![o] = where]
    BY <1>5 DEF Resumed, DcMoves
  <2>2. \A l \in {Writer, Reader} : pc'[l] = pc[l]
    BY <1>0, <2>1, Actors
  <2> QED
    BY <1>c, <2>1, <2>2 DEF Handshaking
<1>6. ASSUME NEW o \in Owners, DcStep(o) PROVE Ios'
  <2>0. dc \in [Owners -> DcRecords] /\ sock \in [id : Nat, open : BOOLEAN]
    BY DEF ConnTypeOK
  <2>1. DcPath(o) /\ UNCHANGED <<pc, io, epoch, stopped>>
    BY <1>6, <2>0, DcPaths, DcOutcome
  <2>2. /\ state \notin {"OPEN", "CLOSED"} /\ ~Ended(o)
        /\ state' = state \/ (state' = "OPEN" /\ dc[o].pc = "handshaked" /\ dc'[o].pc = "returned")
    BY <1>6, DcOutcome
  <2>3. \A q \in Owners \ {o} : dc'[q] = dc[q] /\ dc'[q].pc \notin {"tcp"} \cup Handshaking
    BY <1>a, <2>1, <2>2, OneActive DEF DcPath
  <2>4. CASE /\ dc[o].pc \in {"resolve", "tcp"} /\ dc'[o].pc = "tcp"
             /\ sock'.id = sock.id + 1 /\ sock'.open /\ dc'[o].sid = sock'.id
    BY SMT, <1>0, <2>1, <2>2, <2>3, <2>4 DEF Ios, Handshaking
  <2>5. CASE /\ dc'[o].pc = "returned" /\ sock'.id = sock.id
             /\ sock' = sock \/ (dc[o].pc = "tcp" /\ ~sock'.open)
    BY <2>1, <2>2, <2>3, <2>5 DEF Ios, Handshaking, Stopped
  <2>6. CASE dc'[o].pc = "resolve" /\ sock' = sock
    BY <2>1, <2>2, <2>3, <2>6 DEF Ios, Handshaking, Stopped
  <2>7. CASE /\ dc'[o].pc \in Handshaking /\ sock' = sock /\ dc'[o].sid = dc[o].sid
             /\ \/ dc[o].pc \in Handshaking
                \/ dc[o].pc = "tcp" /\ Usable(dc[o].sid) /\ OlderIoEnded(dc[o].sid)
    <3>1. dc'[o].pc # "tcp" /\ dc'[o].pc # "returned"
      BY <2>7 DEF Handshaking
    <3>2. \A l \in {Writer, Reader} : pc[l] # "io"
      BY SMT, <1>0, <2>7 DEF Ios, OlderIoEnded
    <3>3. sock.open \/ Stopped(epoch)
      BY <2>7 DEF Ios, Usable
    <3>4. dc[o].sid = sock.id
      BY <2>7 DEF Ios
    <3> QED
      BY <2>1, <2>2, <2>3, <2>7, <3>1, <3>2, <3>3, <3>4 DEF Ios, Stopped
  <2> QED
    BY <2>1, <2>4, <2>5, <2>6, <2>7 DEF DcPath
<1>7. ASSUME NEW c \in Callers, Closes(c) PROVE Ios'
  <2>1. /\ sock'.id = sock.id /\ UNCHANGED <<epoch, io, dc>>
        /\ \/ state = "CLOSED" /\ UNCHANGED <<state, stopped, sock>>
           \/ state' = "CLOSING" /\ stopped' = stopped \cup {epoch}
        /\ \A l \in {Writer, Reader} : pc'[l] = pc[l]
    BY <1>0, <1>7, Actors DEF Closes
  <2> QED
    BY <1>c, <2>1 DEF Stopped
<1>8. ASSUME NEW c \in Callers, Returns(c) PROVE Ios'
  <2>1. /\ UNCHANGED <<state, sock, epoch, stopped, io, dc>>
        /\ \A l \in {Writer, Reader} : pc'[l] = pc[l]
    BY <1>0, <1>8, Actors DEF Returns
  <2> QED
    BY <1>c, <2>1
<1>9. ASSUME NEW c \in Callers, Connect(c) PROVE Ios'
  <2>1. /\ state \in {"INIT", "CLOSED"} /\ state' = "CONNECTING"
        /\ \A l \in {Writer, Reader} : pc'[l] = "top"
        /\ DcMoves(c, "start", "none") /\ UNCHANGED <<sock, io>>
    BY <1>9, ConnectFacts, Actors
  <2> QED
    BY <1>b, <1>d, <2>1, Actors DEF DcMoves, Handshaking
<1>10. CASE Joins
  <2>1. Stopped(epoch)
    BY <1>10, Actors DEF Joins, LoopsEnded, Places, Stops
  <2> QED
    BY <1>10, <1>c, <2>1 DEF Joins, Stopped
<1>11. CASE Finishes
  <2>1. state = "CLOSED"
    BY <1>11 DEF Finishes, Places, Stops
  <2>2. /\ UNCHANGED <<state, sock, epoch, stopped, io, dc>>
        /\ \A l \in {Writer, Reader} : pc'[l] = "off"
    BY <1>0, <1>11, <2>1, Actors DEF Finishes
  <2> QED
    BY <1>c, <2>2
<1> QED
  BY <1>1, <1>2, <1>3, <1>4, <1>5, <1>6, <1>7, <1>8, <1>9, <1>10, <1>11, Kinds DEF Kind

-----------------------------------------------------------------------------
(* The stream of replies, and who still counts on it. *)

Reading == {"parse", "more", "bad"}

OnStream(o) ==
    \/ dc[o].pc \in {"push", "write", "read", "parse", "more"}
    \/ dc[o].pc = "handshaked" /\ dc[o].out = "ok"

\* The stream goes on as long as somebody has an operation on the open socket or
\* will start one, and a pending write was given a request that is still queued.
\* read_loop alone has ended a stream on an open socket, and fails the connection
\* in the same run.
Streams ==
    /\ strand # Halted
    /\ pc[Reader] \in Reading => strand = Reader /\ state = "OPEN"
    /\ state = "OPEN" /\ sock.open => live \/ pc[Reader] = "bad"
    /\ \A l \in {Writer, Reader} : Waits(l) => state = "OPEN"
    /\ Waits(Writer) => has_pending_write
    /\ \A o \in Owners : OnStream(o) /\ sock.open => live
    /\ \A o \in Owners : dc[o].pc = "write" /\ sock.open => has_pending_write

LEMMA StreamsClosed ==
    ASSUME ~sock'.open, strand' # Halted, pc'[Reader] \notin Reading
    PROVE  Streams'
  BY Zenon DEF Streams, Waits, Usable

\* A step that leaves the stream and the socket alone.
LEMMA StreamsKept ==
    ASSUME Streams, UNCHANGED <<sock, live>>, has_pending_write => has_pending_write',
           state' = state \/ (state # "OPEN" /\ state' # "OPEN"),
           \A l \in {Writer, Reader} : pc'[l] = "io" => pc[l] = "io" /\ io'[l] = io[l],
           \A o \in Owners : dc'[o] = dc[o] \/ dc'[o].pc \in {"off", "start", "resolve"},
           strand' # Halted, pc[Reader] = "bad" => pc'[Reader] = "bad",
           pc'[Reader] \in Reading => strand' = Reader /\ state = "OPEN"
    PROVE  Streams'
<1> USE Zenon
<1>1. \A l \in {Writer, Reader} : Waits(l)' => Waits(l)
  BY DEF Waits, Usable
<1>2. \A o \in Owners : /\ OnStream(o)' => OnStream(o)
                        /\ dc'[o].pc = "write" => dc[o].pc = "write"
  BY DEF OnStream
<1>3. /\ pc'[Reader] \in Reading => strand' = Reader /\ state' = "OPEN"
      /\ state' = "OPEN" /\ sock'.open => live' \/ pc'[Reader] = "bad"
  BY DEF Streams
<1>4. /\ \A l \in {Writer, Reader} : Waits(l)' => state' = "OPEN"
      /\ Waits(Writer)' => has_pending_write'
  BY <1>1 DEF Streams
<1>5. \A o \in Owners : /\ OnStream(o)' /\ sock'.open => live'
                        /\ dc'[o].pc = "write" /\ sock'.open => has_pending_write'
  BY <1>2 DEF Streams
<1> QED
  BY <1>3, <1>4, <1>5 DEF Streams

LEMMA StreamsFail ==
    ASSUME ConnTypeOK, Streams, NEW err \in Codes, handle_error(err), UNCHANGED dc,
           \A l \in {Writer, Reader} : pc'[l] = "io" => pc[l] = "io" /\ io'[l] = io[l],
           strand' # Halted, pc'[Reader] \notin Reading
    PROVE  Streams'
<1> USE Zenon
<1>1. CASE state = "OPEN"
  <2>1. closeSocket /\ sock \in [id : Nat, open : BOOLEAN]
    BY <1>1 DEF handle_error, FailOpen, ConnTypeOK
  <2> QED
    BY <2>1, SocketClosed, StreamsClosed
<1>2. CASE state # "OPEN"
  <2>1. UNCHANGED <<vars, state, sock>> /\ pc[Reader] # "bad"
    BY <1>2 DEF handle_error, Streams, Reading
  <2> QED
    BY <2>1, StreamsKept DEF vars, peerVars, pipelineVars, has_pending_write
<1> QED
  BY <1>1, <1>2

\* The operations that are pending find what they were started for.
LEMMA IoIsExpected ==
    ASSUME SingleUser, Life, Ios, Streams
    PROVE  IoStillExpected
<1> USE Zenon
<1> SUFFICES ASSUME strand = Idle
             PROVE  (Writes # {} => WriteExpected) /\ (Reads # {} => ReadExpected)
  BY DEF IoStillExpected
<1>1. \A o, q \in Owners : ~Ended(o) /\ ~Ended(q) => o = q
  BY OneActive
<1>2. \A o \in Owners, l \in {Writer, Reader} : dc[o].pc \in {"write", "read"} => pc[l] # "io" /\ ~Ended(o)
  BY DEF Ios, Handshaking, Ended
<1>3. pc[Reader] # "bad"
  BY Actors DEF Streams, Reading
<1>4. /\ \A l \in {Writer, Reader} : Waits(l) => live
      /\ Waits(Writer) => has_pending_write
  BY <1>3 DEF Streams, Waits, Usable
<1>5. \A o \in Owners : /\ DcWaits(o) => live
                        /\ dc[o].pc = "write" /\ DcWaits(o) => has_pending_write
  BY DEF Streams, OnStream, DcWaits, Usable
<1>6. ASSUME NEW p, p \in Writes
      PROVE  (p = Writer /\ Waits(Writer)) \/ (p \in Owners /\ dc[p].pc = "write" /\ DcWaits(p))
  BY <1>6 DEF Writes, Pending, Waits, DcWaits
<1>7. ASSUME NEW p, p \in Reads
      PROVE  (p = Reader /\ Waits(Reader)) \/ (p \in Owners /\ dc[p].pc = "read" /\ DcWaits(p))
  BY <1>7 DEF Reads, Pending, Waits, DcWaits
<1>8. ASSUME NEW p \in Writes, NEW q \in Writes PROVE p = q
  <2>1. /\ p \in Owners => pc[Writer] # "io" /\ ~Ended(p) /\ q \in Owners
        /\ q \in Owners => pc[Writer] # "io" /\ ~Ended(q) /\ p \in Owners
    BY <1>2, <1>6, <1>8, Actors DEF Waits
  <2> QED
    BY <1>1, <1>6, <1>8, <2>1
<1>9. ASSUME NEW p \in Reads, NEW q \in Reads PROVE p = q
  <2>1. /\ p \in Owners => pc[Reader] # "io" /\ ~Ended(p) /\ q \in Owners
        /\ q \in Owners => pc[Reader] # "io" /\ ~Ended(q) /\ p \in Owners
    BY <1>2, <1>7, <1>9, Actors DEF Waits
  <2> QED
    BY <1>1, <1>7, <1>9, <2>1
<1> QED
  BY <1>4, <1>5, <1>6, <1>7, <1>8, <1>9 DEF WriteExpected, ReadExpected

\* write_loop and read_loop.
LEMMA StreamsIo ==
    ASSUME SingleUser, ConnTypeOK, Life, Ios, Streams, WriterStep \/ ReaderStep \/ ReadData
    PROVE  Streams'
<1> USE Zenon
<1>0. /\ pc \in [Loops \cup Callers -> LoopPlaces \cup CallerPlaces]
      /\ io \in [{Writer, Reader} -> Nat]
  BY DEF ConnTypeOK
<1>a. strand # Reader => pc[Reader] \notin Reading
  BY DEF Streams
<1>b. UNCHANGED vars => UNCHANGED live /\ (has_pending_write => has_pending_write')
  BY DEF vars, peerVars, pipelineVars, has_pending_write
<1>c. strand \in {Idle, Writer, Reader, Control} => strand # Halted
  BY Actors
<1>d. ASSUME state = "OPEN" PROVE \A o \in Owners : ~OnStream(o) /\ dc[o].pc # "write"
  BY <1>d, Actors DEF Life, Ended, OnStream
<1>l. ASSUME NEW l \in {Writer, Reader}, NEW where \in LoopPlaces, Goto(l, where), where \notin {"io"} \cup Reading,
             strand \in {Idle, l}, strand' \in {Idle, l}, pc[l] # "bad",
             UNCHANGED <<state, sock, dc, io, live>>, has_pending_write => has_pending_write'
      PROVE  Streams'
  <2>1. /\ pc'[l] = where /\ \A m \in {Writer, Reader} \ {l} : pc'[m] = pc[m]
    BY <1>0, <1>l, Actors DEF Goto
  <2>2. strand' # Halted
    BY <1>l, Actors
  <2>3. l = Writer => pc[Reader] \notin Reading
    BY <1>a, <1>l, Actors
  <2>4. pc[Reader] # "bad" /\ pc'[Reader] \notin Reading
    BY <1>l, <2>1, <2>3, Actors DEF Reading
  <2> QED
    BY <1>l, <2>1, <2>2, <2>4, StreamsKept
<1> USE DEF LoopPlaces, Reading, restVars, lifeVars, sourceVars
<1>1. ASSUME NEW l \in {Writer, Reader}, LoopExit(l) \/ LoopWake(l) \/ LoopWait(l) PROVE Streams'
  BY <1>1, <1>b, <1>l DEF LoopExit, LoopWake, LoopWait, AtTop, Resumes, Suspends
<1>2. ASSUME NEW l \in {Writer, Reader}, IoStart(l) PROVE Streams'
  <2>1. /\ pc[l] = "top" /\ strand \in {Idle, l} /\ pc' = [pc EXCEPT ![l] = "io"]
        /\ io' = [io EXCEPT ![l] = sock.id] /\ strand' = Idle /\ HasWork(l)
        /\ UNCHANGED <<vars, state, sock, dc>>
    BY <1>2 DEF IoStart, AtTop, Goto, Suspends
  <2>2. state = "OPEN" /\ (l = Writer => has_pending_write)
    BY <2>1 DEF HasWork
  <2>3. /\ pc'[l] = "io" /\ \A m \in {Writer, Reader} \ {l} : pc'[m] = pc[m] /\ io'[m] = io[m]
    BY <1>0, <2>1, Actors
  <2>4. pc[Reader] # "bad" /\ pc'[Reader] \notin Reading
    BY <1>a, <2>1, <2>3, Actors
  <2>5. Waits(Writer)' => has_pending_write'
    BY <1>b, <2>1, <2>2, <2>3 DEF Streams, Waits, Usable
  <2>6. \A o \in Owners : ~OnStream(o)' /\ dc'[o].pc # "write"
    BY <1>d, <2>1, <2>2 DEF OnStream
  <2> QED
    BY <1>b, <2>1, <2>2, <2>4, <2>5, <2>6, Actors DEF Streams
<1>3. ASSUME NEW l \in {Writer, Reader}, NEW err \in Codes, IoFails(l, err) PROVE Streams'
  <2>1. /\ pc' = [pc EXCEPT ![l] = "top"] /\ strand = Idle /\ strand' = l
        /\ handle_error(err) /\ UNCHANGED <<io, dc>>
    BY <1>3 DEF IoFails, Goto, Resumes
  <2>2. pc'[l] = "top" /\ \A m \in {Writer, Reader} \ {l} : pc'[m] = pc[m]
    BY <1>0, <2>1, Actors
  <2>3. pc'[Reader] \notin Reading
    BY <1>a, <2>1, <2>2, Actors
  <2> QED
    BY <2>1, <2>2, <2>3, StreamsFail, Actors
<1>4. ASSUME NEW n \in 1..MaxPendingWriteBytes, WriteDone(n) PROVE Streams'
  <2>1. strand = Idle /\ pc[Writer] = "io" /\ Usable(io[Writer])
    BY <1>4 DEF WriteDone, Resumes, Halts
  <2>2. Writer \in Writes
    BY <2>1 DEF Writes, Pending
  <2>3. WriteExpected
    BY <2>1, <2>2, IoIsExpected DEF IoStillExpected
  <2>4. /\ Send(n) /\ pc' = [pc EXCEPT ![Writer] = "top"] /\ strand' = Writer
        /\ UNCHANGED <<state, sock, io, dc>>
    BY <1>4, <2>3 DEF WriteDone, Goto, Resumes
  <2>5. pc'[Writer] = "top" /\ pc'[Reader] = pc[Reader] /\ pc[Reader] \notin Reading
    BY <1>0, <1>a, <2>1, <2>4, Actors
  <2>6. state = "OPEN" /\ live /\ live'
    BY <2>1, <2>3, <2>4 DEF Streams, Waits, Send
  <2>7. \A o \in Owners : ~OnStream(o)' /\ dc'[o].pc # "write"
    BY <1>d, <2>4, <2>6 DEF OnStream
  <2>8. \A l \in {Writer, Reader} : Waits(l)' => l # Writer
    BY <2>5 DEF Waits
  <2> QED
    BY <2>4, <2>5, <2>6, <2>7, <2>8, Actors DEF Streams
<1>5. CASE ReadData
  <2>1. strand = Idle /\ pc[Reader] = "io" /\ Usable(io[Reader])
    BY <1>5 DEF ReadData, Resumes, Halts
  <2>2. Reader \in Reads
    BY <2>1 DEF Reads, Pending
  <2>3. ReadExpected
    BY <2>1, <2>2, IoIsExpected DEF IoStillExpected
  <2>4. /\ pc' = [pc EXCEPT ![Reader] = "parse"] /\ strand' = Reader
        /\ UNCHANGED <<vars, state, sock, io, dc>>
    BY <1>5, <2>3 DEF ReadData, Goto, Resumes
  <2>5. pc'[Reader] = "parse" /\ pc'[Writer] = pc[Writer]
    BY <1>0, <2>4, Actors
  <2>6. state = "OPEN"
    BY <2>1 DEF Streams, Waits
  <2> QED
    BY <1>b, <2>1, <2>4, <2>5, <2>6, StreamsKept, Actors
<1>6. CASE ReadMessage \/ ReadPush
  <2>1. /\ pc[Reader] \in {"parse", "more"} /\ pc' = [pc EXCEPT ![Reader] = "more"]
        /\ strand' = Reader /\ UNCHANGED <<state, sock, io, dc>> /\ (Receive \/ ReceivePush)
    BY <1>6 DEF ReadMessage, ReadPush, Parsing, Goto, Continues
  <2>2. pc'[Reader] = "more" /\ pc'[Writer] = pc[Writer]
    BY <1>0, <2>1, Actors
  <2>3. live' = live /\ (has_pending_write => has_pending_write')
    BY <2>1 DEF Receive, ReceivePush, on_message, DeliverFront, peerVars, has_pending_write
  <2>4. state = "OPEN"
    BY <2>1 DEF Streams
  <2> QED
    BY <2>1, <2>2, <2>3, <2>4, StreamsKept, Actors
<1>7. CASE ReadUnsolicited \/ ReadBadFails
  <2>1. /\ pc' = [pc EXCEPT ![Reader] = "top"] /\ strand' = Reader /\ UNCHANGED <<io, dc>>
        /\ handle_error("unsolicited_message") \/ handle_error("protocol_error")
    BY <1>7 DEF ReadUnsolicited, ReadBadFails, Goto, Continues
  <2>2. pc'[Reader] = "top" /\ pc'[Writer] = pc[Writer]
    BY <1>0, <2>1, Actors
  <2> QED
    BY <2>1, <2>2, StreamsFail, Actors DEF Codes
<1>8. CASE ReadBad
  <2>1. /\ pc[Reader] \in {"parse", "more"} /\ pc' = [pc EXCEPT ![Reader] = "bad"]
        /\ strand' = Reader /\ UNCHANGED <<state, sock, io, dc>>
        /\ ReceiveBad(Code("protocol_error")) \/ UNCHANGED vars
    BY <1>8 DEF ReadBad, Parsing, Goto, Continues
  <2>2. pc'[Reader] = "bad" /\ pc'[Writer] = pc[Writer] /\ state = "OPEN"
    BY <1>0, <2>1, Actors DEF Streams
  <2>3. has_pending_write => has_pending_write'
    BY <1>b, <2>1 DEF ReceiveBad, on_error, DeliverFront, has_pending_write
  <2>4. \A o \in Owners : ~OnStream(o)' /\ dc'[o].pc # "write"
    BY <1>d, <2>1, <2>2 DEF OnStream
  <2>5. Waits(Writer)' => has_pending_write'
    BY <2>1, <2>2, <2>3 DEF Streams, Waits, Usable
  <2> QED
    BY <2>1, <2>2, <2>4, <2>5, Actors DEF Streams
<1>9. CASE ReadEnd
  BY <1>9, <1>b, <1>l DEF ReadEnd, Continues
<1> HIDE DEF LoopPlaces, Reading, restVars, lifeVars, sourceVars
<1> QED
  BY <1>1, <1>2, <1>3, <1>4, <1>5, <1>6, <1>7, <1>8, <1>9
     DEF WriterStep, ReaderStep, IoLoopStep, LoopStep, WriteFails, ReadFails, Codes

\* do_connect(): its handshake ends with the stream.
LEMMA StreamsDc ==
    ASSUME SingleUser, ConnTypeOK, PipelineFacts, Life, Ios, Streams, NEW o \in Owners, DcStep(o)
    PROVE  Streams'
<1> USE Zenon
<1>0. /\ dc \in [Owners -> DcRecords] /\ sock \in [id : Nat, open : BOOLEAN] /\ sock.id \in Nat
      /\ io \in [{Writer, Reader} -> Nat] /\ dc[o].out \in Outs /\ dc[o].left \in Nat
  BY DEF ConnTypeOK, DcRecords, Outs
<1>a. /\ ~Ended(o) /\ strand \in {Idle, o} /\ state \notin {"OPEN", "CLOSED"} /\ UNCHANGED <<pc, io>>
      /\ \A q \in Owners \ {o} : dc'[q] = dc[q]
      /\ state' = state \/ (state' = "OPEN" /\ dc[o].pc = "handshaked")
  BY DcOutcome
<1>b. UNCHANGED vars => (live => live')
  BY SMT DEF vars, peerVars
<1>c. \A l \in {Writer, Reader} : ~Waits(l)'
  <2>1. DcPath(o)
    BY <1>0, DcPaths
  <2>2. sock' = sock \/ ~sock'.open \/ sock'.id = sock.id + 1
    BY <2>1 DEF DcPath
  <2>3. \A l \in {Writer, Reader} : pc[l] = "io" => io[l] # sock.id + 1
    BY SMT, <1>0 DEF Ios
  <2> QED
    BY <1>a, <2>2, <2>3 DEF Waits, Usable, Streams
<1>d. pc[Reader] \notin Reading
  BY <1>a, Actors DEF Streams
<1>e. \A q \in Owners \ {o} : ~OnStream(q)' /\ dc'[q].pc # "write"
  <2>1. \A q \in Owners \ {o} : Ended(q)
    BY <1>a, OneActive
  <2> QED
    BY <1>a, <2>1 DEF OnStream, Ended
<1>s. ASSUME state' = state \/ live' \/ ~sock'.open, strand' \in {Idle, o},
             OnStream(o)' /\ sock'.open => live',
             dc'[o].pc = "write" /\ sock'.open => has_pending_write'
      PROVE  Streams'
  <2>1. strand' # Halted
    BY <1>s, Actors
  <2>2. state' = "OPEN" /\ sock'.open => live'
    BY <1>a, <1>s
  <2>3. \A q \in Owners : /\ OnStream(q)' /\ sock'.open => live'
                          /\ dc'[q].pc = "write" /\ sock'.open => has_pending_write'
    BY <1>e, <1>s
  <2> QED
    BY <1>a, <1>c, <1>d, <2>1, <2>2, <2>3 DEF Streams
<1>g. ASSUME NEW where \in {"resolve", "push", "write", "read", "parse", "more"}, DcGoto(o, where),
             UNCHANGED state, strand' \in {Idle, o}, where # "resolve" /\ sock'.open => live',
             where = "write" /\ sock'.open => has_pending_write'
      PROVE  Streams'
  <2>1. dc'[o].pc = where
    BY <1>0, <1>g, DcGotoMoves DEF DcMoves, DcPlaces
  <2>2. OnStream(o)' /\ sock'.open => live'
    BY <1>g, <2>1 DEF OnStream
  <2> QED
    BY <1>g, <1>s, <2>1, <2>2
<1>h. ASSUME NEW out \in Outs, HandshakeEnds(o, out), UNCHANGED state, out = "ok" => live'
      PROVE  Streams'
  <2>1. dc'[o].pc = "handshaked" /\ dc'[o].out = out /\ strand' \in {Idle, o}
    BY <1>0, <1>h, HandshakeEndsMoves DEF DcMoves
  <2>2. OnStream(o)' /\ sock'.open => live'
    BY <1>h, <2>1 DEF OnStream
  <2> QED
    BY <1>h, <1>s, <2>1, <2>2
<1>r. ASSUME NEW out \in Outs, DcReturn(o, out), state' = state \/ live' \/ ~sock'.open PROVE Streams'
  <2>1. dc'[o].pc = "returned" /\ strand' \in {Idle, o}
    BY <1>0, <1>r, DcReturnMoves DEF DcMoves
  <2>2. ~OnStream(o)'
    BY <2>1 DEF OnStream
  <2> QED
    BY <1>r, <1>s, <2>1, <2>2
<1>t. ASSUME NEW left \in Nat, OpenSocket(o, left), UNCHANGED state, strand' = Idle PROVE Streams'
  <2>1. dc'[o].pc = "tcp"
    BY <1>0, <1>t, OpenSocketMoves DEF DcMoves
  <2>2. ~OnStream(o)'
    BY <2>1 DEF OnStream
  <2> QED
    BY <1>s, <1>t, <2>1, <2>2
<1>k. OnStream(o) /\ sock.open => live
  BY DEF Streams
<1> USE DEF Outs, Suspends, lifeVars
<1>1. CASE DcStart(o) \/ DcResolveFails(o)
  BY <1>1, <1>g, <1>r DEF DcStart, DcResolveFails
<1>2. ASSUME NEW n \in 1..MaxEndpoints, DcResolved(o, n) PROVE Streams'
  <2>1. OpenSocket(o, n - 1) /\ n - 1 \in Nat /\ UNCHANGED state /\ strand' = Idle
    BY SMT, <1>2 DEF DcResolved
  <2> QED
    BY <1>t, <2>1
<1>3. CASE DcTcpFails(o)
  <2>1. UNCHANGED state
    BY <1>3 DEF DcTcpFails
  <2>2. CASE dc[o].left > 0 /\ OpenSocket(o, dc[o].left - 1) /\ strand' = Idle
    <3>1. dc[o].left - 1 \in Nat
      BY SMT, <1>0, <2>2
    <3> QED
      BY <1>t, <2>1, <2>2, <3>1
  <2>3. CASE \E out \in Outs : DcReturn(o, out)
    BY <1>r, <2>1, <2>3
  <2> QED
    BY <1>3, <2>2, <2>3 DEF DcTcpFails
<1>4. CASE DcTcpConnected(o)
  <2>1. UNCHANGED state /\ (OpenStream(o) => live')
    BY <1>4 DEF DcTcpConnected, OpenStream
  <2> QED
    BY <1>4, <1>g, <1>r, <2>1 DEF DcTcpConnected
<1>5. CASE DcPush(o)
  <2>1. UNCHANGED <<state, sock, live>> /\ OnStream(o)
    BY <1>5 DEF DcPush, OnStream, peerVars
  <2>2. push(o, TimeMax) => has_pending_write'
    BY DEF PipelineFacts
  <2> QED
    BY <1>5, <1>g, <1>k, <1>r, <2>1, <2>2 DEF DcPush
<1>6. ASSUME NEW n \in 1..MaxPendingWriteBytes, DcWrote(o, n) PROVE Streams'
  <2>1. strand = Idle /\ dc[o].pc = "write" /\ Usable(dc[o].sid) /\ UNCHANGED state
    BY <1>6 DEF DcWrote
  <2>2. o \in Writes
    BY <2>1 DEF Writes, Pending
  <2>3. WriteExpected
    BY <2>1, <2>2, IoIsExpected DEF IoStillExpected
  <2>4. Send(n) => live'
    BY SMT DEF Send
  <2>5. /\ Send(n) /\ \/ HandshakeEnds(o, "operation_aborted")
                      \/ /\ DcGoto(o, IF pending_write' # <<>> THEN "write" ELSE "read")
                         /\ strand' = Idle
    BY <1>6, <2>3 DEF DcWrote
  <2>6. CASE pending_write' # <<>>
    BY <1>g, <1>h, <2>1, <2>4, <2>5, <2>6 DEF has_pending_write
  <2>7. CASE pending_write' = <<>>
    BY <1>g, <1>h, <2>1, <2>4, <2>5, <2>7
  <2> QED
    BY <2>6, <2>7
<1>7. CASE DcReadable(o)
  <2>1. strand = Idle /\ dc[o].pc = "read" /\ Usable(dc[o].sid) /\ UNCHANGED <<vars, state, sock>>
    BY <1>7 DEF DcReadable
  <2>2. o \in Reads
    BY <2>1 DEF Reads, Pending
  <2>3. ReadExpected
    BY <2>1, <2>2, IoIsExpected DEF IoStillExpected
  <2>4. DcGoto(o, "parse") /\ strand' = o /\ live'
    BY <1>7, <1>b, <2>1, <2>3 DEF DcReadable, ReadExpected
  <2> QED
    BY <1>g, <2>1, <2>4
<1>8. CASE DcTimesOut(o) \/ DcIoFails(o) \/ DcBad(o)
  BY <1>8, <1>h DEF DcTimesOut, DcIoFails, DcBad
<1>9. CASE DcMessage(o)
  <2>1. (Receive \/ ReceivePush) /\ UNCHANGED state /\ strand = o
    BY <1>9 DEF DcMessage
  <2>2. live'
    BY SMT, <2>1 DEF Receive, ReceivePush, peerVars
  <2> QED
    BY <1>9, <1>g, <1>h, <2>1, <2>2 DEF DcMessage
<1>10. CASE DcNeedMore(o)
  <2>1. UNCHANGED <<vars, state, sock>> /\ OnStream(o)
    BY <1>10 DEF DcNeedMore, OnStream
  <2> QED
    BY <1>10, <1>b, <1>g, <1>h, <1>k, <2>1 DEF DcNeedMore
<1>11. CASE DcHandshakeFails(o) \/ DcRejected(o)
  <2>1. UNCHANGED state /\ \E out \in Outs : DcReturn(o, out)
    BY <1>0, <1>11 DEF DcHandshakeFails, DcRejected
  <2> QED
    BY <1>r, <2>1
<1>12. CASE DcOpen(o)
  <2>1. DcReturn(o, "ok") /\ UNCHANGED <<vars, sock>> /\ OnStream(o)
    BY <1>12 DEF DcOpen, Handshaked, OnStream
  <2> QED
    BY <1>b, <1>k, <1>r, <2>1
<1> HIDE DEF Outs, Suspends, lifeVars
<1> QED
  BY ZenonT(40), <1>1, <1>2, <1>3, <1>4, <1>5, <1>6, <1>7, <1>8, <1>9, <1>10, <1>11, <1>12 DEF DcStep

\* control_loop, the calls of the application and the end of the actor.
LEMMA StreamsRest ==
    ASSUME SingleUser, ConnTypeOK, Places, PipelineFacts, Life, Stops, Streams,
           \/ ControlStep \/ UserCall \/ ActorJoins \/ ActorDone \/ Tick \/ UNCHANGED allVars
           \/ \E c \in Callers : CallerStep(c)
    PROVE  Streams'
<1> USE Zenon
<1>0. /\ pc \in [Loops \cup Callers -> LoopPlaces \cup CallerPlaces] /\ dc \in [Owners -> DcRecords]
      /\ sock \in [id : Nat, open : BOOLEAN] /\ epoch \in Nat /\ actor.token \in Nat
  BY SMT DEF ConnTypeOK
<1>a. UNCHANGED vars => UNCHANGED live /\ (has_pending_write => has_pending_write')
  BY DEF vars, peerVars, pipelineVars, has_pending_write
<1>b. strand # Reader => pc[Reader] \notin Reading
  BY DEF Streams
<1>k. ASSUME UNCHANGED <<vars, sock, io>>, strand # Reader, strand' \in {Idle, Control} \cup {strand},
             \A l \in {Writer, Reader} : pc'[l] \in {pc[l], "top", "off"},
             \A o \in Owners : dc'[o] = dc[o] \/ dc'[o].pc \in {"off", "start", "resolve"},
             state' = state \/ (state # "OPEN" /\ state' # "OPEN")
      PROVE  Streams'
  <2>1. pc[Reader] # "bad" /\ pc'[Reader] \notin Reading
    BY <1>b, <1>k DEF Reading
  <2>2. strand' # Halted
    BY <1>k, Actors DEF Streams
  <2>3. \A l \in {Writer, Reader} : pc'[l] = "io" => pc[l] = "io" /\ io'[l] = io[l]
    BY <1>k
  <2> QED
    BY <1>a, <1>k, <2>1, <2>2, <2>3, StreamsKept
<1>c. ASSUME NEW p \in Loops \cup Callers, p \notin {Writer, Reader}, NEW where, Goto(p, where)
      PROVE  \A l \in {Writer, Reader} : pc'[l] = pc[l]
  BY <1>0, <1>c, Actors DEF Goto
<1>g. ASSUME NEW where, Goto(Control, where) \/ UNCHANGED pc, UNCHANGED <<vars, sock, io, dc>>,
             strand \in {Idle, Control}, strand' \in {Idle, Control},
             state' = state \/ (state # "OPEN" /\ state' # "OPEN")
      PROVE  Streams'
  <2>1. \A l \in {Writer, Reader} : pc'[l] = pc[l]
    BY <1>c, <1>g, Actors
  <2> QED
    BY <1>g, <1>k, <2>1, Actors
<1>e. ASSUME NEW c \in Callers, CloseBody(c), strand = Idle PROVE Streams'
  <2>1. /\ \A l \in {Writer, Reader} : pc'[l] = pc[l]
        /\ UNCHANGED <<strand, io, dc>>
        /\ UNCHANGED <<vars, state, sock>> \/ closeSocket
    BY <1>c, <1>e, Actors DEF CloseBody, Shutdown
  <2>2. strand' # Halted /\ pc'[Reader] \notin Reading /\ strand # Reader
    BY <1>b, <1>e, <2>1, Actors
  <2> QED
    BY <1>0, <1>k, <2>1, <2>2, SocketClosed, StreamsClosed
<1> USE DEF restVars, lifeVars
<1>1. CASE LoopStep(Control)
  BY <1>1, <1>g DEF LoopStep, LoopExit, LoopWake, AtTop, Resumes, Suspends
<1>2. CASE ControlShutdown \/ ControlReconnect
  BY <1>2, <1>g DEF ControlShutdown, ControlReconnect, AtTop
<1>3. CASE ControlTimeout
  <2>1. /\ handle_error("request_timeout") /\ strand \in {Idle, Control} /\ strand' = Control
        /\ UNCHANGED <<pc, io, dc>>
    BY <1>3 DEF ControlTimeout, AtTop
  <2> QED
    BY <1>b, <2>1, StreamsFail, Actors DEF Codes
<1>4. CASE ControlSleep \/ ControlAwake
  BY <1>4, <1>g DEF ControlSleep, ControlAwake, AtTop, Resumes, Suspends
<1>5. CASE ControlWait \/ ReconnectLoop
  BY <1>5, <1>g DEF ControlWait, ReconnectLoop, AtTop, Suspends
<1>6. CASE BackoffWake
  BY <1>6, <1>g DEF BackoffWake
<1>7. CASE BackoffElapsed \/ ReconnectCancel
  BY <1>7, <1>g DEF BackoffElapsed, ReconnectCancel, Resumes, Continues
<1>8. CASE ReconnectAttempt \/ ReconnectFailed \/ ReconnectSucceeded
  <2>1. /\ UNCHANGED <<vars, sock, io>> /\ strand = Control /\ strand' \in {Idle, Control}
        /\ \E where : Goto(Control, where)
    BY <1>8 DEF ReconnectAttempt, ReconnectFailed, ReconnectSucceeded, Suspends, Continues
  <2>2. \A l \in {Writer, Reader} : pc'[l] = pc[l]
    BY <1>c, <2>1, Actors
  <2>3. \A o \in Owners : dc'[o] = dc[o] \/ dc'[o].pc \in {"off", "start", "resolve"}
    BY <1>0, <1>8, ReconnectMoves DEF DcMoves
  <2>4. state' = state \/ (state # "OPEN" /\ state' # "OPEN")
    BY <1>8 DEF ReconnectAttempt, ReconnectFailed, ReconnectSucceeded, Life, Recovering
  <2> QED
    BY <1>k, <2>1, <2>2, <2>3, <2>4, Actors
<1>9. ASSUME NEW c \in Callers, CallerStep(c) PROVE Streams'
  <2>1. CASE ConnectSucceeds(c) \/ ConnectFails(c)
    <3>1. UNCHANGED <<vars, state, sock, strand, io>> /\ strand = Idle /\ \E where : Goto(c, where)
      BY <2>1 DEF ConnectSucceeds, ConnectFails, Connected
    <3>2. \A l \in {Writer, Reader} : pc'[l] = pc[l]
      BY <1>c, <3>1, Actors
    <3>3. \A o \in Owners : dc'[o] = dc[o] \/ dc'[o].pc = "off"
      BY <1>0, <2>1, ConnectEndMoves DEF DcMoves
    <3> QED
      BY <1>k, <3>1, <3>2, <3>3, Actors
  <2>2. CASE ConnectCloses(c)
    BY <1>e, <2>2 DEF ConnectCloses
  <2>3. CASE CloseReturns(c)
    <3>1. /\ UNCHANGED <<vars, state, sock, strand, io, dc>> /\ strand = Idle
          /\ \A l \in {Writer, Reader} : pc'[l] = pc[l]
      BY <1>c, <2>3, Actors DEF CloseReturns
    <3> QED
      BY <1>k, <3>1, Actors
  <2> QED
    BY <1>9, <2>1, <2>2, <2>3 DEF CallerStep
<1>10. ASSUME NEW c \in Callers, ConnectRefused(c) \/ Connect(c) \/ Close(c) PROVE Streams'
  <2>1. CASE ConnectRefused(c)
    BY <1>k, <2>1, Actors DEF ConnectRefused, Calls
  <2>2. CASE Connect(c)
    <3>1. UNCHANGED <<vars, sock, strand, io>> /\ strand = Idle /\ state' = "CONNECTING"
      BY <2>2 DEF Connect, Calls
    <3>2. /\ state \in {"INIT", "CLOSED"} /\ DcMoves(c, "start", "none")
          /\ \A l \in Loops : pc'[l] = "top"
      BY <2>2, ConnectFacts
    <3> QED
      BY <1>k, <3>1, <3>2, Actors DEF DcMoves
  <2>3. CASE Close(c)
    BY <1>e, <2>3 DEF Close, Calls
  <2> QED
    BY <1>10, <2>1, <2>2, <2>3
<1>11. ASSUME NEW r \in Requests, enqueue(r) PROVE Streams'
  <2>1. UNCHANGED <<live, state, sock, strand, pc, io, dc>> /\ strand = Idle
    BY <1>11 DEF enqueue, peerVars
  <2>2. has_pending_write => has_pending_write'
    BY <1>11 DEF enqueue, PipelineFacts, reject, has_pending_write
  <2> QED
    BY <1>b, <2>1, <2>2, StreamsKept, Actors DEF Reading
<1>12. CASE ActorJoins \/ ActorDone
  <2>1. /\ strand = Idle /\ strand' = Idle /\ UNCHANGED <<io, dc>>
        /\ UNCHANGED pc \/ pc' = [p \in DOMAIN pc |-> IF p \in Loops THEN "off" ELSE pc[p]]
        /\ closeSocket \/ UNCHANGED <<vars, state, sock>>
    BY <1>12 DEF ActorJoins, ActorDone, transition_to_closed
  <2>2. \A l \in {Writer, Reader} : pc'[l] \in {pc[l], "off"}
    BY <1>0, <2>1, Actors
  <2>3. pc'[Reader] \notin Reading
    BY <1>b, <2>1, <2>2, Actors DEF Reading
  <2> QED
    BY <1>0, <1>k, <2>1, <2>2, <2>3, SocketClosed, StreamsClosed, Actors
<1>13. CASE Tick \/ UNCHANGED allVars
  <2>1. UNCHANGED <<vars, state, sock, strand, pc, io, dc>>
    BY <1>13 DEF Tick, allVars, connVars
  <2> QED
    BY <1>a, <2>1, StreamsKept DEF Streams
<1> HIDE DEF restVars, lifeVars
<1> QED
  BY ZenonT(40), <1>1, <1>2, <1>3, <1>4, <1>5, <1>6, <1>7, <1>8, <1>9, <1>10, <1>11, <1>12, <1>13
     DEF ControlStep, UserCall

LEMMA StreamsStep ==
    ASSUME SingleUser, ConnTypeOK, Places, PipelineFacts, Life, Stops, Ios, Streams,
           [ConnNext]_allVars
    PROVE  Streams'
  BY Zenon, StreamsIo, StreamsDc, StreamsRest DEF ConnNext

-----------------------------------------------------------------------------
(* The events the connection emits. *)

\* After "connected" the connection is OPEN until it reports otherwise, or is
\* being closed, and no do_connect() is in progress or has failed.
Events ==
    last_event = "connected" =>
        /\ state \in {"OPEN", "CLOSING"}
        /\ \A o \in Owners : Ended(o) /\ (dc[o].pc = "returned" => dc[o].out = "ok")

LEMMA EventsStep ==
    ASSUME SingleUser, ConnTypeOK, Places, Life, Stops, Events, [ConnNext]_allVars
    PROVE  Events' /\ (generation' # generation => last_event # "connected")
<1> USE Zenon
<1>1. CASE Quiet \/ Fails
  BY <1>1 DEF Quiet, Fails, LoopsMove, Events, Ended
<1>2. CASE Shuts
  BY <1>2 DEF Shuts, Events, Ended
<1>3. CASE Attempts
  <2>1. state = "FAILED"
    BY <1>3 DEF Attempts, Life, Recovering, ReconnectCancelled
  <2> QED
    BY <1>3, <2>1 DEF Attempts, Events
<1>4. ASSUME NEW o \in Owners, Resumed(o)
      PROVE  Events' /\ (generation' # generation => last_event # "connected")
  <2>1. /\ generation' = generation /\ last_event' \in {last_event, "disconnected"}
        /\ \A q \in Owners : dc'[q] = dc[q] \/ dc'[q].pc = "off"
        /\ state' = state \/ (dc[o].pc = "returned" /\ dc[o].out # "ok")
    BY <1>4 DEF Resumed, DcMoves
  <2> QED
    BY <2>1 DEF Events, Ended
<1>5. ASSUME NEW o \in Owners, DcStep(o)
      PROVE  Events' /\ (generation' # generation => last_event # "connected")
  <2>1. /\ ~Ended(o) /\ strand \in {Idle, o} /\ \A q \in Owners \ {o} : dc'[q] = dc[q]
        /\ \/ UNCHANGED <<state, last_event, generation>>
           \/ state' = "OPEN" /\ dc'[o].pc = "returned" /\ dc'[o].out = "ok"
    BY <1>5, DcOutcome
  <2>2. last_event # "connected"
    BY <2>1 DEF Events
  <2>3. ASSUME NEW q \in Owners \ {o}
        PROVE  Ended(q) /\ (dc[q].pc = "returned" => dc[q].out = "ok")
    <3>1. Ended(q)
      BY <2>1, OneActive
    <3>2. q = Control => dc[q].pc # "returned"
      BY <2>1, Actors DEF Life
    <3>3. q # Control => o = Control /\ q \in Callers
      BY Actors DEF SingleUser
    <3>4. q # Control => state # "CONNECTING"
      BY <2>1, <3>3 DEF Life
    <3> QED
      BY <3>1, <3>2, <3>3, <3>4 DEF Life
  <2> QED
    BY SMT, <2>1, <2>2, <2>3 DEF Events, Ended
<1>6. ASSUME NEW c \in Callers, Closes(c) \/ Returns(c)
      PROVE  Events' /\ (generation' # generation => last_event # "connected")
  BY <1>6 DEF Closes, Returns, Events, Ended
<1>7. ASSUME NEW c \in Callers, Connect(c)
      PROVE  Events' /\ (generation' # generation => last_event # "connected")
  <2>1. state \in {"INIT", "CLOSED"} /\ UNCHANGED <<last_event, generation>>
    BY <1>7, ConnectFacts
  <2> QED
    BY <2>1 DEF Events
<1>8. CASE Joins
  BY <1>8 DEF Joins, Events
<1>9. CASE Finishes
  <2>1. state = "CLOSED"
    BY <1>9 DEF Finishes, Places, Stops
  <2> QED
    BY <1>9, <2>1 DEF Finishes, Events
<1> QED
  BY <1>1, <1>2, <1>3, <1>4, <1>5, <1>6, <1>7, <1>8, <1>9, Kinds DEF Kind

-----------------------------------------------------------------------------
(* What the pipeline holds. *)

\* A user request is queued only in OPEN.
Queues == QueuedSinks \cap Requests # {} => state = "OPEN"

\* A user request enters the queues only in OPEN.
LEMMA RequestsEnter ==
    ASSUME PipelineFacts, [PipelineStep]_vars
    PROVE  QueuedSinks' \cap Requests \subseteq QueuedSinks \/ state' = "OPEN"
<1> USE Zenon
<1>1. CASE UNCHANGED <<pending_write, awaiting_read>>
  BY <1>1 DEF QueuedSinks, PendingWriteSinks, AwaitingReadSinks
<1>2. ASSUME NEW s \in Sinks, NEW d \in 0..TimeMax, Pushes(s, d)
      PROVE  QueuedSinks' \cap Requests \subseteq QueuedSinks \/ state' = "OPEN"
  <2>1. QueuedSinks' = QueuedSinks \cup {s}
    BY <1>2 DEF Pushes, PipelineFacts
  <2> QED
    BY <1>2, <2>1, Sorts DEF Pushes
<1>3. CASE Drained
  BY <1>3 DEF Drained
<1>4. \A s \in Sinks, err \in Errors : Reject(s, err) => UNCHANGED <<pending_write, awaiting_read>>
  BY DEF Reject, reject
<1>5. \A s : OpenStream(s) \/ Dropped => UNCHANGED <<pending_write, awaiting_read>>
  BY DEF OpenStream, make_sink, Dropped, pipelineVars
<1>6. UNCHANGED vars => UNCHANGED <<pending_write, awaiting_read>>
  BY DEF vars, pipelineVars
<1> QED
  BY <1>1, <1>2, <1>3, <1>4, <1>5, <1>6 DEF PipelineStep, PipelineFacts

\* Every step that leaves OPEN clears the queues.
LEMMA OpenLeft ==
    ASSUME SingleUser, ConnTypeOK, Places, Life, Stops, PipelineFacts, [ConnNext]_allVars,
           state = "OPEN"
    PROVE  state' = "OPEN" \/ QueuedSinks' = {}
<1> USE Zenon
<1>0. \A err \in Codes : Disconnect(Code(err)) => QueuedSinks' = {}
  BY CodesAreErrors DEF PipelineFacts
<1>1. CASE Quiet \/ Fails
  BY <1>0, <1>1 DEF Quiet, Fails
<1>2. CASE Shuts \/ Attempts
  BY <1>2 DEF Shuts, Attempts, Life, Recovering
<1>3. ASSUME NEW o \in Owners, Resumed(o) PROVE state' = "OPEN"
  BY <1>3 DEF Resumed, Life
<1>4. ASSUME NEW o \in Owners PROVE ~DcStep(o)
  BY DcOutcome
<1>5. ASSUME NEW c \in Callers, Closes(c) PROVE QueuedSinks' = {}
  BY <1>0, <1>5 DEF Closes, Codes
<1>6. ASSUME NEW c \in Callers, Returns(c) PROVE state' = "OPEN"
  BY <1>6 DEF Returns
<1>7. ASSUME NEW c \in Callers PROVE ~Connect(c)
  BY ConnectFacts
<1>8. CASE Joins
  BY <1>0, <1>8 DEF Joins, Codes
<1>9. ~Finishes
  BY DEF Finishes, Places, Stops
<1> QED
  BY <1>1, <1>2, <1>3, <1>4, <1>5, <1>6, <1>7, <1>8, <1>9, Kinds DEF Kind

\* A do_connect() that has no stream yet finds the pipeline empty.
LEMMA NothingQueued ==
    ASSUME SingleUser, ConnTypeOK, Life, Asked, Queues, QueuedSinks \subseteq Sinks,
           NEW o \in Owners, DcStep(o), dc[o].pc \in {"resolve", "tcp"}
    PROVE  QueuedSinks = {}
<1>1. ~Ended(o) /\ state # "OPEN"
  BY DcOutcome
<1>2. \A q \in Owners : q \in QueuedSinks => q = o
  <2>1. \A q \in Owners : q \in QueuedSinks => ~Ended(q)
    BY Zenon DEF Asked, HandshakeOwned, Ended
  <2> QED
    BY <1>1, <2>1, OneActive
<1>3. o \notin QueuedSinks
  BY Zenon DEF Asked, HandshakeOwned
<1> QED
  BY Zenon, <1>1, <1>2, <1>3, ConnectionConstants DEF Queues, ConnectionConstants

-----------------------------------------------------------------------------
(* Together. *)

ServiceInv == Life /\ Stops /\ Ios /\ Streams /\ Events /\ Queues

LEMMA ServiceInit == ConnInit => ServiceInv
<1> SUFFICES ASSUME ConnInit PROVE ServiceInv
  OBVIOUS
<1>1. /\ state = "INIT" /\ stopped = {} /\ actor_done = 0 /\ last_event = "none"
      /\ strand = Idle /\ ~sock.open /\ actor.running = FALSE /\ \A o \in Owners : dc[o].pc = "off"
      /\ \A l \in Loops : pc[l] = "off"
      /\ \A c \in Callers : pc[c] = "idle"
  BY Actors DEF ConnInit, DcOff
<1>2. QueuedSinks = {}
  BY DEF ConnInit, Init, PipelineInit, QueuedSinks, PendingWriteSinks, AwaitingReadSinks
<1>3. Life
  BY <1>1, Actors DEF Life, Ended, Recovering
<1>4. Stops
  BY <1>1, Actors DEF Stops, Stopped
<1>5. Ios
  BY <1>1, Actors DEF Ios, Handshaking
<1>6. Streams
  BY <1>1, Actors, Zenon DEF Streams, Reading, Waits, Usable
<1> QED
  BY <1>1, <1>2, <1>3, <1>4, <1>5, <1>6 DEF ServiceInv, Events, Queues

LEMMA ServiceStep ==
    ASSUME SingleUser, ConnTypeOK, Places, PipelineFacts, ServiceInv, [PipelineStep]_vars,
           [ConnNext]_allVars
    PROVE  ServiceInv' /\ (generation' # generation => last_event # "connected")
<1> USE Zenon
<1>0. Life /\ Stops /\ Ios /\ Streams /\ Events /\ Queues
  BY DEF ServiceInv
<1>1. Life' /\ Stops' /\ Ios' /\ Streams'
  BY <1>0, LifeStep, StopsStep, IosStep, StreamsStep
<1>2. Events' /\ (generation' # generation => last_event # "connected")
  BY <1>0, EventsStep
<1>3. Queues'
  <2>1. state = "OPEN" => state' = "OPEN" \/ QueuedSinks' = {}
    BY <1>0, OpenLeft
  <2> QED
    BY <1>0, <2>1, RequestsEnter DEF Queues
<1> QED
  BY <1>1, <1>2, <1>3 DEF ServiceInv

-----------------------------------------------------------------------------
(* What follows. *)

LEMMA IoIsAlone == ASSUME SingleUser, ServiceInv PROVE OneIoPerDirection
<1> USE Zenon
<1>1. \A o, q \in Owners : ~Ended(o) /\ ~Ended(q) => o = q
  BY OneActive DEF ServiceInv
<1>2. \A o \in Owners, l \in {Writer, Reader} : dc[o].pc \in {"write", "read"} => pc[l] # "io"
  BY DEF ServiceInv, Ios, Handshaking
<1> QED
  BY <1>1, <1>2 DEF OneIoPerDirection, Ended

LEMMA QueuedAsOpen == ASSUME ServiceInv PROVE QueuedOnlyWhileOpen
  BY Zenon DEF ServiceInv, Queues, Ios, QueuedOnlyWhileOpen

LEMMA OpenAsServed == ASSUME ServiceInv PROVE OpenIsServed
  BY Zenon DEF ServiceInv, Stops, OpenIsServed

LEMMA ClosedAsQuiet ==
    ASSUME ConnTypeOK, Places, Asked, ServiceInv, QueuedSinks \subseteq Sinks
    PROVE  ClosedIsQuiet
<1> USE Zenon
<1> SUFFICES ASSUME state = "CLOSED" PROVE ClosedIsQuiet
  BY DEF ClosedIsQuiet
<1>1. \A o \in Owners : Ended(o)
  BY Actors DEF ServiceInv, Life
<1>2. QueuedSinks \cap Requests = {} /\ QueuedSinks \cap Owners = {}
  BY <1>1 DEF ServiceInv, Queues, Asked, HandshakeOwned, Ended
<1>3. QueuedSinks = {}
  BY <1>2, ConnectionConstants DEF ConnectionConstants
<1>4. \A l \in Loops : pc[l] \in {"done", "off"}
  BY DEF ServiceInv, Stops, Places, LoopsEnded
<1>5. ~sock.open
  BY DEF ServiceInv, Ios
<1> QED
  BY <1>1, <1>3, <1>4, <1>5 DEF ClosedIsQuiet, Ended

\* close() that waited returns in CLOSED.
LEMMA WaitEndsClosed ==
    ASSUME ServiceInv, NEW c \in Callers, CloseReturns(c)
    PROVE  state = "CLOSED" /\ state' = "CLOSED"
  BY Zenon DEF CloseReturns, ServiceInv, Stops, lifeVars

\* close() that need not wait finds the connection CLOSED, unless it was called
\* before the first connect().
LEMMA CloseEndsClosed ==
    ASSUME ConnTypeOK, ServiceInv, "INIT" \notin CloseIn,
           NEW c \in Callers, Close(c) \/ ConnectCloses(c), pc'[c] = "idle"
    PROVE  state' = "CLOSED"
<1> USE Zenon
<1>1. CloseBody(c) /\ (pc[c] = "closing" \/ state \in CloseIn)
  BY DEF Close, Calls, ConnectCloses
<1>2. pc \in [Loops \cup Callers -> LoopPlaces \cup CallerPlaces]
  BY DEF ConnTypeOK
<1>3. /\ state = "CLOSED" => state' = "CLOSED"
      /\ state # "CLOSED" => /\ stopped' = stopped \cup {epoch}
                             /\ pc' = [pc EXCEPT ![c] = IF actor.running THEN "join" ELSE "idle"]
  BY <1>1, CloseMoves DEF ConnTypeOK
<1>4. state # "CLOSED" => ~actor.running
  BY <1>2, <1>3
<1>5. pc[c] = "closing" => state = "CONNECTING"
  BY DEF ServiceInv, Life
<1> QED
  BY <1>1, <1>3, <1>4, <1>5 DEF ServiceInv, Stops

\* A stream starts with an empty pipeline.
LEMMA StreamStartsEmpty ==
    ASSUME SingleUser, ConnTypeOK, Asked, ServiceInv, QueuedSinks \subseteq Sinks,
           [PipelineStep]_vars, live', ~live
    PROVE  QueuedSinks = {}
<1> USE Zenon
<1>1. UNCHANGED vars \/ (\E s \in Sinks, d \in 0..TimeMax : Pushes(s, d)) => live' = live
  BY DEF vars, peerVars, Pushes
<1>2. (\E s \in Sinks, err \in Errors : Reject(s, err)) \/ ReceivePush => live' = live
  BY DEF peerVars, Reject, ReceivePush
<1>3. (\E n \in 1..MaxPendingWriteBytes : Send(n)) \/ Receive => live' = live
  BY DEF Send, Receive
<1>4. \A err \in Errors : ReceiveBad(err) \/ Disconnect(err) => ~live'
  BY DEF ReceiveBad, Disconnect
<1>5. \E o \in Owners : DcStep(o) /\ dc[o].pc \in {"resolve", "tcp"}
  BY <1>1, <1>2, <1>3, <1>4 DEF PipelineStep
<1> QED
  BY <1>5, NothingQueued DEF ServiceInv
=============================================================================
