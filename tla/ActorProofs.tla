---------------------------- MODULE ActorProofs -----------------------------
(*****************************************************************************)
(* The steps of the connection actor: how each one moves the coroutines, and *)
(* what the parts shared by several steps do; the types of its members.      *)
(*****************************************************************************)
EXTENDS Connection, TLAPS

(* The steps of do_connect(), one owner's activation at a time. *)

DcMoves(o, where, out) ==
    /\ dc' \in [Owners -> DcRecords]
    /\ dc'[o].pc = where /\ dc'[o].out = out
    /\ \A q \in Owners \ {o} : dc'[q] = dc[q]

Outs == {"none", "ok", "failed", "operation_aborted"}

LEMMA DcGotoMoves ==
    ASSUME dc \in [Owners -> DcRecords], NEW o \in Owners, NEW where \in DcPlaces,
           DcGoto(o, where)
    PROVE  /\ DcMoves(o, where, dc[o].out)
           /\ dc'[o].sid = dc[o].sid /\ dc'[o].token = dc[o].token
  BY DEF DcGoto, DcMoves, DcRecords

LEMMA DcReturnMoves ==
    ASSUME dc \in [Owners -> DcRecords], NEW o \in Owners, NEW out \in Outs,
           DcReturn(o, out)
    PROVE  /\ DcMoves(o, "returned", out)
           /\ strand' = IF o = Control THEN Control ELSE Idle
  BY ZenonT(30) DEF DcReturn, DcMoves, DcRecords, DcOff, DcPlaces, Outs

LEMMA HandshakeEndsMoves ==
    ASSUME dc \in [Owners -> DcRecords], NEW o \in Owners, NEW out \in Outs,
           HandshakeEnds(o, out)
    PROVE  /\ DcMoves(o, "handshaked", out)
           /\ dc'[o].sid = dc[o].sid /\ dc'[o].token = dc[o].token
           /\ strand' = IF HandshakeTimed THEN Idle ELSE o
<1> USE Zenon
<1>1. dc' = [dc EXCEPT ![o] = [dc[o] EXCEPT !.pc = "handshaked", !.out = out]]
  BY ZenonT(30) DEF HandshakeEnds, DcRecords
<1>2. dc[o] \in DcRecords
  OBVIOUS
<1>3. [dc[o] EXCEPT !.pc = "handshaked", !.out = out] \in DcRecords
  BY ZenonT(30), <1>2 DEF DcRecords, DcPlaces, Outs
<1> QED
  BY SMT, <1>1, <1>2, <1>3 DEF HandshakeEnds, DcMoves, DcRecords

LEMMA OpenSocketMoves ==
    ASSUME dc \in [Owners -> DcRecords], sock \in [id : Nat, open : BOOLEAN],
           NEW o \in Owners, NEW left \in Nat, OpenSocket(o, left)
    PROVE  /\ DcMoves(o, "tcp", dc[o].out)
           /\ dc'[o].sid = sock.id + 1 /\ dc'[o].token = dc[o].token
           /\ sock' = [id |-> sock.id + 1, open |-> TRUE]
<1> USE Zenon
<1> DEFINE new == [dc[o] EXCEPT !.pc = "tcp", !.left = left, !.sid = sock.id + 1]
<1>1. dc' = [dc EXCEPT ![o] = new]
  BY ZenonT(30) DEF OpenSocket, DcRecords
<1>2. dc[o] \in DcRecords /\ sock.id + 1 \in Nat
  BY SMT
<1>3. /\ new \in DcRecords /\ new.pc = "tcp" /\ new.sid = sock.id + 1
      /\ new.token = dc[o].token /\ new.out = dc[o].out
  BY ZenonT(30), <1>2 DEF DcRecords, DcPlaces
<1>4. sock' = [id |-> sock.id + 1, open |-> TRUE]
  BY ZenonT(30) DEF OpenSocket
<1> HIDE DEF new
<1> QED
  BY <1>1, <1>3, <1>4 DEF DcMoves

LEMMA DcBeginMoves ==
    ASSUME dc \in [Owners -> DcRecords], NEW o \in Owners, NEW token \in Nat,
           NEW where \in DcPlaces,
           dc' = [dc EXCEPT ![o] = DcBegin(where, token)]
    PROVE  DcMoves(o, where, "none") /\ dc'[o].token = token
  BY ZenonT(30) DEF DcBegin, DcOff, DcMoves, DcRecords, DcPlaces

LEMMA DcOffMoves ==
    ASSUME dc \in [Owners -> DcRecords], NEW o \in Owners, dc' = [dc EXCEPT ![o] = DcOff]
    PROVE  DcMoves(o, "off", "none")
  BY DEF DcOff, DcMoves, DcRecords, DcPlaces

Handshaking == {"push", "write", "read", "parse", "more", "handshaked"}

\* What a step of do_connect() leaves alone: the loops and the callers always, the
\* life of the connection unless it makes it OPEN.
DcFrame(o) ==
    /\ UNCHANGED dcRest
    /\ dc[o].pc \notin {"off", "returned"}
    /\ strand \in {Idle, o} /\ (strand' \in {Idle, o} \/ Halts)
    /\ faults \in Nat => faults' \in Nat
    /\ UNCHANGED lifeVars \/ DcOpen(o)

\* Where it goes: on to the next socket, on within the attempt, or back to its
\* caller.
DcPath(o) ==
    /\ dc' \in [Owners -> DcRecords] /\ \A q \in Owners \ {o} : dc'[q] = dc[q]
    /\ sock' \in [id : Nat, open : BOOLEAN]
    /\ \/ /\ dc[o].pc \in {"resolve", "tcp"} /\ dc'[o].pc = "tcp"
          /\ sock'.id = sock.id + 1 /\ sock'.open /\ dc'[o].sid = sock'.id
       \/ /\ dc'[o].pc = "returned" /\ sock'.id = sock.id
          /\ strand' = IF o = Control THEN Control ELSE Idle
          /\ dc'[o].out = "ok" => DcOpen(o)
          /\ sock' = sock \/ (dc[o].pc = "tcp" /\ ~sock'.open)
       \/ /\ dc'[o].pc = "resolve" /\ dc[o].pc = "start" /\ sock' = sock
       \/ /\ dc'[o].pc \in Handshaking /\ sock' = sock /\ dc'[o].sid = dc[o].sid
          /\ \/ dc[o].pc \in Handshaking
             \/ dc[o].pc = "tcp" /\ Usable(dc[o].sid) /\ OlderIoEnded(dc[o].sid)

LEMMA SocketClosed ==
    ASSUME sock \in [id : Nat, open : BOOLEAN], closeSocket
    PROVE  /\ sock' \in [id : Nat, open : BOOLEAN]
           /\ sock'.id = sock.id /\ ~sock'.open
  BY ZenonT(30) DEF closeSocket

LEMMA DcFrames == ASSUME NEW o \in Owners, DcStep(o) PROVE DcFrame(o)
<1> USE Zenon
<1>a. \A out : DcReturn(o, out) => strand' \in {Idle, o}
  BY DEF DcReturn
<1>b. \A out : HandshakeEnds(o, out) => strand' \in {Idle, o}
  BY DEF HandshakeEnds
<1>c. faults \in Nat => faults' \in Nat \/ ~Fault
  BY SMT DEF Fault
<1>1. ASSUME DcStart(o) \/ DcResolveFails(o) \/ \E n \in 1..MaxEndpoints : DcResolved(o, n)
      PROVE  DcFrame(o)
  BY <1>1, <1>a, <1>c DEF DcStart, DcResolveFails, DcResolved, DcFrame, Suspends
<1>2. ASSUME DcTcpFails(o) \/ DcTcpConnected(o) \/ DcPush(o)
      PROVE  DcFrame(o)
  BY <1>2, <1>a, <1>c DEF DcTcpFails, DcTcpConnected, DcPush, DcFrame, Suspends
<1>3. ASSUME \/ \E n \in 1..MaxPendingWriteBytes : DcWrote(o, n)
             \/ DcReadable(o) \/ DcTimesOut(o) \/ DcIoFails(o)
      PROVE  DcFrame(o)
  BY <1>3, <1>b, <1>c DEF DcWrote, DcReadable, DcTimesOut, DcIoFails, DcFrame, Suspends
<1>4. ASSUME DcMessage(o) \/ DcNeedMore(o) \/ DcBad(o)
      PROVE  DcFrame(o)
  BY <1>4, <1>b, <1>c DEF DcMessage, DcNeedMore, DcBad, DcFrame, Suspends
<1>5. ASSUME DcHandshakeFails(o) \/ DcRejected(o) \/ DcOpen(o)
      PROVE  DcFrame(o)
  BY <1>5, <1>a, <1>c DEF DcHandshakeFails, DcRejected, DcOpen, DcFrame, Handshaked
<1> QED
  BY <1>1, <1>2, <1>3, <1>4, <1>5 DEF DcStep

LEMMA DcPaths ==
    ASSUME dc \in [Owners -> DcRecords], sock \in [id : Nat, open : BOOLEAN],
           NEW o \in Owners, DcStep(o)
    PROVE  DcPath(o)
<1> USE Zenon
<1>0. dc[o].out \in Outs /\ dc[o].left \in Nat
  BY DEF Outs, DcRecords
<1>g. ASSUME NEW where \in Handshaking, DcGoto(o, where), UNCHANGED sock,
             \/ dc[o].pc \in Handshaking
             \/ dc[o].pc = "tcp" /\ Usable(dc[o].sid) /\ OlderIoEnded(dc[o].sid)
      PROVE  DcPath(o)
  <2>1. where \in DcPlaces
    BY DEF Handshaking, DcPlaces
  <2> QED
    BY <1>g, <2>1, DcGotoMoves DEF DcPath, DcMoves
<1>e. ASSUME NEW out \in Outs, HandshakeEnds(o, out), UNCHANGED sock, dc[o].pc \in Handshaking
      PROVE  DcPath(o)
  BY <1>e, HandshakeEndsMoves DEF DcPath, DcMoves, Handshaking
<1>r. ASSUME NEW out \in Outs, DcReturn(o, out), out = "ok" => DcOpen(o),
             UNCHANGED sock \/ (dc[o].pc = "tcp" /\ closeSocket)
      PROVE  DcPath(o)
  <2>1. DcMoves(o, "returned", out) /\ strand' = IF o = Control THEN Control ELSE Idle
    BY <1>r, DcReturnMoves
  <2>2. /\ sock' \in [id : Nat, open : BOOLEAN] /\ sock'.id = sock.id
        /\ sock' = sock \/ (dc[o].pc = "tcp" /\ ~sock'.open)
    BY <1>r, SocketClosed
  <2> QED
    BY <1>r, <2>1, <2>2 DEF DcPath, DcMoves
<1>s. ASSUME NEW left \in Nat, OpenSocket(o, left), dc[o].pc \in {"resolve", "tcp"}
      PROVE  DcPath(o)
  <2>1. /\ DcMoves(o, "tcp", dc[o].out) /\ dc'[o].sid = sock.id + 1
        /\ sock' = [id |-> sock.id + 1, open |-> TRUE]
    BY <1>s, OpenSocketMoves
  <2>2. sock' \in [id : Nat, open : BOOLEAN] /\ sock'.id = sock.id + 1 /\ sock'.open
    BY SMT, <2>1
  <2> QED
    BY <1>s, <2>1, <2>2 DEF DcPath, DcMoves
<1>h. ASSUME UNCHANGED <<sock, dc>>, dc[o].pc \in Handshaking PROVE DcPath(o)
  BY <1>h DEF DcPath
<1>1. CASE DcStart(o)
  <2>1. CASE DcGoto(o, "resolve") /\ UNCHANGED sock
    BY <1>1, <2>1, DcGotoMoves DEF DcStart, DcPath, DcMoves, DcPlaces
  <2> QED
    BY <1>1, <1>r, <2>1 DEF DcStart, Outs
<1>2. ASSUME NEW n \in 1..MaxEndpoints, DcResolved(o, n) PROVE DcPath(o)
  BY SMT, <1>2, <1>s DEF DcResolved
<1>3. CASE DcResolveFails(o)
  BY <1>3, <1>r DEF DcResolveFails, Outs
<1>4. CASE DcTcpFails(o)
  BY SMT, <1>0, <1>4, <1>r, <1>s DEF DcTcpFails, Outs
<1>5. CASE DcTcpConnected(o)
  BY <1>5, <1>g, <1>r DEF DcTcpConnected, Outs, Handshaking
<1>6. CASE DcPush(o)
  BY <1>6, <1>g, <1>r DEF DcPush, Outs, Handshaking
<1>7. ASSUME NEW n \in 1..MaxPendingWriteBytes, DcWrote(o, n) PROVE DcPath(o)
  BY <1>7, <1>e, <1>g, <1>h DEF DcWrote, Outs, Handshaking
<1>8. CASE DcReadable(o) \/ DcTimesOut(o) \/ DcIoFails(o)
  BY <1>8, <1>e, <1>g, <1>h DEF DcReadable, DcTimesOut, DcIoFails, Outs, Handshaking
<1>9. CASE DcMessage(o)
  BY <1>9, <1>e, <1>g DEF DcMessage, Outs, Handshaking
<1>10. CASE DcNeedMore(o) \/ DcBad(o)
  BY <1>10, <1>e, <1>g DEF DcNeedMore, DcBad, Outs, Handshaking
<1>11. CASE DcHandshakeFails(o)
  <2>1. \E out \in Outs \ {"ok"} : DcReturn(o, out)
    BY <1>0, <1>11 DEF DcHandshakeFails, Outs
  <2>2. UNCHANGED sock
    BY <1>11 DEF DcHandshakeFails
  <2> QED
    BY <1>r, <2>1, <2>2
<1>12. CASE DcRejected(o) \/ DcOpen(o)
  <2>1. (DcReturn(o, "failed") \/ (DcOpen(o) /\ DcReturn(o, "ok"))) /\ UNCHANGED sock
    BY <1>12 DEF DcRejected, DcOpen
  <2> QED
    BY <1>r, <2>1 DEF Outs
<1> QED
  BY <1>1, <1>2, <1>3, <1>4, <1>5, <1>6, <1>7, <1>8, <1>9, <1>10, <1>11, <1>12 DEF DcStep

LEMMA ReconnectMoves ==
    ASSUME dc \in [Owners -> DcRecords], actor.token \in Nat
    PROVE  /\ ReconnectAttempt => DcMoves(Control, "resolve", "none")
           /\ ReconnectFailed => DcMoves(Control, "off", "none")
           /\ ReconnectSucceeded => DcMoves(Control, "off", "none")
<1> USE Zenon
<1>1. Control \in Owners
  BY DEF Owners
<1>2. ASSUME ReconnectAttempt PROVE DcMoves(Control, "resolve", "none")
  <2>1. dc' = [dc EXCEPT ![Control] = DcBegin("resolve", actor.token)]
    BY <1>2 DEF ReconnectAttempt
  <2> QED
    BY <1>1, <2>1, DcBeginMoves, ZenonT(30) DEF DcPlaces
<1>3. ASSUME ReconnectFailed \/ ReconnectSucceeded PROVE DcMoves(Control, "off", "none")
  <2>1. dc' = [dc EXCEPT ![Control] = DcOff]
    BY <1>3 DEF ReconnectFailed, ReconnectSucceeded
  <2> QED
    BY <1>1, <2>1, DcOffMoves, ZenonT(30)
<1> QED
  BY <1>2, <1>3

LEMMA ConnectMoves ==
    ASSUME dc \in [Owners -> DcRecords], epoch \in Nat, NEW c \in Callers, Connect(c)
    PROVE  DcMoves(c, "start", "none")
<1> USE Zenon
<1>1. c \in Owners
  BY DEF Owners
<1>2. dc' = [dc EXCEPT ![c] = DcBegin("start", epoch')] /\ epoch' \in Nat
  BY SMT DEF Connect
<1> QED
  BY <1>1, <1>2, DcBeginMoves, ZenonT(30) DEF DcPlaces

LEMMA ConnectEndMoves ==
    ASSUME dc \in [Owners -> DcRecords], NEW c \in Callers, ConnectSucceeds(c) \/ ConnectFails(c)
    PROVE  DcMoves(c, "off", "none")
<1> USE Zenon
<1>1. c \in Owners
  BY DEF Owners
<1>2. dc' = [dc EXCEPT ![c] = DcOff]
  BY DEF ConnectSucceeds, ConnectFails, Connected
<1> QED
  BY <1>1, <1>2, DcOffMoves, ZenonT(30)

-----------------------------------------------------------------------------
(* Where the coroutines are. *)

\* The coroutines are told apart.
LEMMA Actors ==
    /\ {Writer, Reader, Control} = Loops
    /\ Writer # Reader /\ Writer # Control /\ Reader # Control
    /\ Writer \notin Owners /\ Reader \notin Owners /\ Control \in Owners
    /\ Callers \subseteq Owners /\ Loops \cap Callers = {}
    /\ \A o \in Owners : o \in Callers \/ o = Control
    /\ Owners \subseteq Loops \cup Callers
    /\ Idle \notin Owners /\ Idle \notin Loops
    /\ Halted \notin Owners /\ Halted \notin Loops /\ Halted # Idle
  BY ConnectionConstants DEF ConnectionConstants, Owners, Loops

\* A do_connect() exists exactly while its owner awaits it; the loops exist
\* exactly while the actor runs, and it is joined when all of them have ended.
Places ==
    /\ \A o \in Owners : dc[o].pc # "off" <=> pc[o] = "connecting"
    /\ \A l \in Loops : pc[l] = "off" <=> ~actor.running
    /\ actor.joined => actor.running /\ LoopsEnded

LEMMA PlacesInit == ConnInit => Places
  BY Actors DEF ConnInit, Places, DcOff

LEMMA PlacesStep ==
    ASSUME ConnTypeOK, Places, [ConnNext]_allVars
    PROVE  Places'
<1> USE Zenon
<1>0. /\ pc \in [Loops \cup Callers -> LoopPlaces \cup CallerPlaces]
      /\ dc \in [Owners -> DcRecords]
      /\ sock \in [id : Nat, open : BOOLEAN]
      /\ actor \in [running : BOOLEAN, joined : BOOLEAN, token : Nat]
      /\ epoch \in Nat
  BY SMT DEF ConnTypeOK
<1> USE <1>0, Actors DEF Places, LoopsEnded, restVars
<1>1. CASE UNCHANGED allVars
  BY <1>1 DEF allVars, connVars, lifeVars, sourceVars, restVars
<1>2. ASSUME NEW l \in Loops, LoopStep(l) PROVE Places'
  <2>1. CASE LoopExit(l)
    BY <2>1 DEF LoopExit, AtTop, Goto
  <2>2. CASE LoopWake(l)
    BY <2>2 DEF LoopWake, Goto
  <2> HIDE <1>0, Actors DEF Places, LoopsEnded, restVars
  <2> QED
    BY <1>2, <2>1, <2>2 DEF LoopStep
<1>3. ASSUME NEW l \in {Writer, Reader}, LoopWait(l) \/ IoStart(l) PROVE Places'
  <2>1. CASE LoopWait(l)
    BY <2>1 DEF LoopWait, AtTop, Goto
  <2>2. CASE IoStart(l)
    BY <2>2 DEF IoStart, AtTop, Goto
  <2> HIDE <1>0, Actors DEF Places, LoopsEnded, restVars
  <2> QED
    BY <1>3, <2>1, <2>2
<1>4. ASSUME NEW l \in {Writer, Reader}, NEW err \in Codes, IoFails(l, err) PROVE Places'
  BY <1>4 DEF IoFails, Goto
<1>5. CASE WriterStep
  <2>1. ASSUME NEW n \in 1..MaxPendingWriteBytes, WriteDone(n) PROVE Places'
    <3>1. UNCHANGED <<dc, actor>> /\ (Goto(Writer, "top") \/ UNCHANGED pc) /\ pc[Writer] = "io"
      BY <2>1 DEF WriteDone
    <3>2. CASE Goto(Writer, "top")
      BY <3>1, <3>2 DEF Goto
    <3>3. CASE UNCHANGED pc
      BY <3>1, <3>3
    <3> HIDE <1>0, Actors DEF Places, LoopsEnded, restVars
    <3> QED
      BY <3>1, <3>2, <3>3
  <2> HIDE <1>0, Actors DEF Places, LoopsEnded, restVars
  <2> QED
    BY <1>5, <1>2, <1>3, <1>4, <2>1 DEF WriterStep, IoLoopStep, WriteFails, Loops, Codes
<1>6. CASE ReaderStep
  <2>1. CASE ReadMessage
    BY <2>1 DEF ReadMessage, Parsing, Goto
  <2>2. CASE ReadPush
    BY <2>2 DEF ReadPush, Parsing, Goto
  <2>3. CASE ReadUnsolicited
    BY <2>3 DEF ReadUnsolicited, Parsing, Goto
  <2>4. CASE ReadBad
    BY <2>4 DEF ReadBad, Parsing, Goto
  <2>5. CASE ReadBadFails
    BY <2>5 DEF ReadBadFails, Goto
  <2>6. CASE ReadEnd
    BY <2>6 DEF ReadEnd, Goto
  <2> HIDE <1>0, Actors DEF Places, LoopsEnded, restVars
  <2> QED
    BY <1>6, <1>2, <1>3, <1>4, <2>1, <2>2, <2>3, <2>4, <2>5, <2>6 DEF ReaderStep, IoLoopStep,
       ReadFails, Loops, Codes
<1>7. CASE ReadData
  <2>1. UNCHANGED <<dc, actor>> /\ (Goto(Reader, "parse") \/ UNCHANGED pc) /\ pc[Reader] = "io"
    BY <1>7 DEF ReadData
  <2>2. CASE Goto(Reader, "parse")
    BY <2>1, <2>2 DEF Goto
  <2>3. CASE UNCHANGED pc
    BY <2>1, <2>3
  <2> HIDE <1>0, Actors DEF Places, LoopsEnded, restVars
  <2> QED
    BY <2>1, <2>2, <2>3
<1>8. ASSUME \/ ReconnectLoop \/ BackoffWake \/ BackoffElapsed \/ ReconnectAttempt
             \/ ReconnectCancel \/ ReconnectFailed \/ ReconnectSucceeded
      PROVE  Places'
  <2>1. CASE ReconnectLoop
    BY SMT, <2>1 DEF ReconnectLoop, Goto
  <2>2. CASE BackoffWake
    BY SMT, <2>2 DEF BackoffWake, Goto
  <2>3. CASE BackoffElapsed
    BY <2>3 DEF BackoffElapsed, Goto
  <2>4. CASE ReconnectAttempt
    BY SMT, <2>4, ReconnectMoves DEF ReconnectAttempt, Goto, DcMoves, DcPlaces
  <2>5. CASE ReconnectCancel
    BY <2>5 DEF ReconnectCancel, Goto
  <2>6. CASE ReconnectFailed
    BY SMT, <2>6, ReconnectMoves DEF ReconnectFailed, Goto, DcMoves, DcPlaces
  <2>7. CASE ReconnectSucceeded
    BY SMT, <2>7, ReconnectMoves DEF ReconnectSucceeded, Goto, DcMoves, DcPlaces
  <2> HIDE <1>0, Actors DEF Places, LoopsEnded, restVars
  <2> QED
    BY <1>8, <2>1, <2>2, <2>3, <2>4, <2>5, <2>6, <2>7
<1>9. CASE ControlStep
  <2>1. CASE ControlShutdown
    BY <2>1 DEF ControlShutdown, AtTop
  <2>2. CASE ControlReconnect
    BY <2>2 DEF ControlReconnect, AtTop, Goto
  <2>3. CASE ControlTimeout
    BY <2>3 DEF ControlTimeout, AtTop
  <2>4. CASE ControlSleep
    BY <2>4 DEF ControlSleep, AtTop, Goto
  <2>5. CASE ControlAwake
    BY <2>5 DEF ControlAwake, Goto
  <2>6. CASE ControlWait
    BY <2>6 DEF ControlWait, AtTop, Goto
  <2> HIDE <1>0, Actors DEF Places, LoopsEnded, restVars
  <2> QED
    BY <1>9, <1>2, <1>8, <2>1, <2>2, <2>3, <2>4, <2>5, <2>6 DEF ControlStep, Loops
<1>10. ASSUME NEW c \in Callers, CallerStep(c) PROVE Places'
  <2>1. CASE ConnectSucceeds(c)
    <3>1. DcMoves(c, "off", "none")
      BY <2>1, ConnectEndMoves
    <3>2. pc' = [pc EXCEPT ![c] = "idle"] /\ UNCHANGED actor
      BY <2>1 DEF ConnectSucceeds, Connected, Goto
    <3> QED
      BY SMT, <3>1, <3>2 DEF DcMoves
  <2>2. CASE ConnectFails(c)
    <3>1. DcMoves(c, "off", "none")
      BY <2>2, ConnectEndMoves
    <3>2. pc' = [pc EXCEPT ![c] = "closing"] /\ UNCHANGED actor
      BY <2>2 DEF ConnectFails, Connected, Goto
    <3> QED
      BY SMT, <3>1, <3>2 DEF DcMoves
  <2>3. CASE ConnectCloses(c)
    BY SMT, <2>3 DEF ConnectCloses, CloseBody, AfterShutdown, Goto
  <2>4. CASE CloseReturns(c)
    BY <2>4 DEF CloseReturns, Goto
  <2> HIDE <1>0, Actors DEF Places, LoopsEnded, restVars
  <2> QED
    BY <1>10, <2>1, <2>2, <2>3, <2>4 DEF CallerStep
<1>11. CASE UserCall
  <2>1. ASSUME NEW c \in Callers, ConnectRefused(c) PROVE Places'
    BY <2>1 DEF ConnectRefused, Calls
  <2>2. ASSUME NEW c \in Callers, Connect(c) PROVE Places'
    <3>1. DcMoves(c, "start", "none")
      BY <2>2, ConnectMoves
    <3>2. /\ actor' = IF actor.running THEN actor
                       ELSE [running |-> TRUE, joined |-> FALSE, token |-> epoch']
          /\ pc' = [p \in DOMAIN pc |-> IF p = c THEN "connecting"
                                          ELSE IF p \in Loops /\ ~actor.running THEN "top"
                                          ELSE pc[p]]
      BY <2>2 DEF Connect
    <3>3. c \notin Loops /\ c # Control /\ \A o \in Owners \ {c} : o \in Loops \cup Callers
      BY SMTT(30)
    <3> QED
      BY SMT, <3>1, <3>2, <3>3 DEF DcMoves
  <2>3. ASSUME NEW c \in Callers, Close(c) PROVE Places'
    BY SMT, <2>3 DEF Close, Calls, CloseBody, AfterShutdown, Goto
  <2>4. ASSUME NEW r \in Requests, enqueue(r) PROVE Places'
    BY <2>4 DEF enqueue
  <2> HIDE <1>0, Actors DEF Places, LoopsEnded, restVars
  <2> QED
    BY <1>11, <2>1, <2>2, <2>3, <2>4 DEF UserCall
<1>12. ASSUME NEW o \in Owners, DcStep(o) PROVE Places'
  BY SMT, <1>12, DcFrames, DcPaths DEF DcFrame, DcPath, Handshaking, dcRest
<1>13. CASE ActorJoins
  BY <1>13 DEF ActorJoins
<1>14. CASE ActorDone
  BY <1>14 DEF ActorDone
<1>15. CASE Tick
  BY <1>15 DEF Tick
<1> HIDE <1>0, Actors DEF Places, LoopsEnded, restVars
<1> QED
  BY <1>1, <1>5, <1>6, <1>7, <1>9, <1>10, <1>11, <1>12, <1>13, <1>14, <1>15 DEF ConnNext

-----------------------------------------------------------------------------
(* What the parts shared by several steps do. *)

LEMMA CallsCounted ==
    ASSUME calls \in [Callers -> 0..MaxCalls], MaxCalls \in Nat, NEW c \in Callers,
           calls[c] < MaxCalls, calls' = [calls EXCEPT ![c] = @ + 1]
    PROVE  calls' \in [Callers -> 0..MaxCalls]
<1> USE Zenon
<1>1. calls[c] + 1 \in 0..MaxCalls
  BY SMT
<1> QED
  BY <1>1

LEMMA ErrorHandled ==
    ASSUME sock \in [id : Nat, open : BOOLEAN], NEW err, handle_error(err)
    PROVE  /\ sock' \in [id : Nat, open : BOOLEAN] /\ sock'.id = sock.id
           /\ IF state = "OPEN"
              THEN /\ state' = "FAILED" /\ last_event' = "disconnected" /\ ~sock'.open
                   /\ Disconnect(Code(err))
              ELSE UNCHANGED <<vars, state, last_event, sock>>
           /\ wake \in [Loops -> Nat] => wake' \in [Loops -> Nat]
<1> USE Zenon
<1>1. CASE state = "OPEN"
  BY SMT, <1>1, SocketClosed DEF handle_error, FailOpen, notify
<1>2. CASE state # "OPEN"
  BY SMT, <1>2, Actors DEF handle_error
<1> QED
  BY <1>1, <1>2

LEMMA ClosedReached ==
    ASSUME sock \in [id : Nat, open : BOOLEAN], transition_to_closed
    PROVE  /\ sock' \in [id : Nat, open : BOOLEAN] /\ sock'.id = sock.id /\ ~sock'.open
           /\ state' = "CLOSED" /\ last_event' = "closed"
           /\ Disconnect(Code("connection_closed"))
  BY SocketClosed DEF transition_to_closed

\* close() that is not too late: it clears, closes and tells the actor to stop.
LEMMA CloseMoves ==
    ASSUME sock \in [id : Nat, open : BOOLEAN], epoch \in Nat, stopped \subseteq 0..epoch,
           NEW c \in Callers, CloseBody(c)
    PROVE  /\ sock' \in [id : Nat, open : BOOLEAN] /\ sock'.id = sock.id
           /\ stopped' \subseteq 0..epoch /\ stopped \subseteq stopped'
           /\ IF state = "CLOSED"
              THEN /\ UNCHANGED <<vars, state, stopped, sock, wake>>
                   /\ pc' = [pc EXCEPT ![c] = "idle"]
              ELSE /\ state' = "CLOSING" /\ stopped' = stopped \cup {epoch} /\ ~sock'.open
                   /\ Disconnect(Code("connection_closed"))
                   /\ pc' = [pc EXCEPT ![c] = IF actor.running THEN "join" ELSE "idle"]
           /\ wake \in [Loops -> Nat] => wake' \in [Loops -> Nat]
<1> USE Zenon
<1>1. CASE state = "CLOSED"
  BY <1>1, ZenonT(30) DEF CloseBody, Goto
<1>2. CASE state # "CLOSED"
  <2>1. Shutdown /\ pc' = [pc EXCEPT ![c] = IF actor.running THEN "join" ELSE "idle"]
    BY <1>2 DEF CloseBody, AfterShutdown, Goto
  <2>2. /\ state' = "CLOSING" /\ stopped' = stopped \cup {epoch} /\ closeSocket
        /\ Disconnect(Code("connection_closed"))
    BY <2>1 DEF Shutdown
  <2>3. wake \in [Loops -> Nat] => wake' \in [Loops -> Nat]
    BY SMT, <2>1 DEF Shutdown, notify
  <2>4. stopped' \subseteq 0..epoch /\ stopped \subseteq stopped'
    BY SMT, <2>2
  <2> QED
    BY <1>2, <2>1, <2>2, <2>3, <2>4, SocketClosed
<1> QED
  BY <1>1, <1>2

-----------------------------------------------------------------------------
(* The members of the connection and the places of its coroutines keep their *)
(* types.                                                                    *)


Scalars ==
    /\ state \in States
    /\ generation \in Nat /\ reconnect_count \in Nat /\ epoch \in Nat /\ actor_done \in Nat
    /\ now \in Nat /\ timer \in Nat /\ faults \in Nat
    /\ stopped \subseteq 0..epoch
    /\ sock \in [id : Nat, open : BOOLEAN]
    /\ strand \in {Idle, Halted} \cup Loops \cup Owners
    /\ actor \in [running : BOOLEAN, joined : BOOLEAN, token : 0..epoch]
    /\ last_event \in {"none", "connected", "disconnected", "closed"}
    /\ asked \subseteq Requests

Tables ==
    /\ pc \in [Loops \cup Callers -> LoopPlaces \cup CallerPlaces]
    /\ io \in [{Writer, Reader} -> Nat]
    /\ dc \in [Owners -> DcRecords]
    /\ wake \in [Loops -> Nat]
    /\ calls \in [Callers -> 0..MaxCalls]

LEMMA TypesSplit ==
    /\ ConnTypeOK <=> TypeOK /\ Scalars /\ Tables
    /\ ConnTypeOK' <=> TypeOK' /\ Scalars' /\ Tables'
  BY DEF ConnTypeOK, Scalars, Tables

LEMMA ScalarsStep ==
    ASSUME ConnTypeOK, next_deadline \in Nat, [ConnNext]_allVars
    PROVE  Scalars'
<1> USE Zenon
<1>0. next_deadline \in Nat /\ Scalars /\ dc \in [Owners -> DcRecords]
  BY DEF ConnTypeOK, Scalars
<1> USE <1>0, Actors DEF Scalars, States, restVars
<1>1. CASE UNCHANGED allVars
  BY <1>1 DEF allVars, connVars, lifeVars, sourceVars, restVars, Resumes, Continues, Suspends
<1>2. ASSUME NEW l \in Loops, LoopStep(l) PROVE Scalars'
  <2>1. CASE LoopExit(l)
    BY <2>1 DEF LoopExit, AtTop, Goto, Resumes, Continues, Suspends, sourceVars, lifeVars
  <2>2. CASE LoopWake(l)
    BY <2>2 DEF LoopWake, Goto, async_wait, Resumes, Resumes, Continues, Suspends, sourceVars,
       lifeVars
  <2> HIDE <1>0, Actors DEF Scalars, States, restVars
  <2> QED
    BY <1>2, <2>1, <2>2 DEF LoopStep
<1>3. ASSUME NEW l \in {Writer, Reader}, LoopWait(l) \/ IoStart(l) PROVE Scalars'
  <2>1. CASE LoopWait(l)
    BY <2>1 DEF LoopWait, AtTop, Goto, Resumes, Continues, Suspends, sourceVars, lifeVars
  <2>2. CASE IoStart(l)
    BY <2>2 DEF IoStart, AtTop, Goto, Resumes, Continues, Suspends, sourceVars, lifeVars
  <2> HIDE <1>0, Actors DEF Scalars, States, restVars
  <2> QED
    BY <1>3, <2>1, <2>2
<1>4. ASSUME NEW l \in {Writer, Reader}, NEW err \in Codes, IoFails(l, err) PROVE Scalars'
  <2>1. /\ handle_error(err) /\ faults' \in Nat /\ strand' \in Loops
        /\ UNCHANGED <<sourceVars, restVars>>
    BY SMT, <1>4 DEF IoFails, Fault, Resumes, Continues
  <2> QED
    BY <2>1, ErrorHandled DEF sourceVars
<1>5. CASE WriterStep
  <2>1. ASSUME NEW n \in 1..MaxPendingWriteBytes, WriteDone(n) PROVE Scalars'
    BY <2>1 DEF WriteDone, Goto, Resumes, Halts, sourceVars, lifeVars
  <2> HIDE <1>0, Actors DEF Scalars, States, restVars
  <2> QED
    BY <1>5, <1>2, <1>3, <1>4, <2>1 DEF WriterStep, IoLoopStep, WriteFails, Loops, Codes
<1>6. CASE ReaderStep
  <2>1. CASE ReadMessage
    BY <2>1 DEF ReadMessage, Parsing, Goto, Resumes, Continues, Suspends, sourceVars, lifeVars
  <2>2. CASE ReadPush
    BY SMT, <2>2 DEF ReadPush, Parsing, Goto, Fault, Resumes, Continues, Suspends, sourceVars,
       lifeVars
  <2>3. CASE ReadUnsolicited
    <3>1. /\ handle_error("unsolicited_message") /\ faults' \in Nat /\ strand' \in Loops
          /\ UNCHANGED <<sourceVars, restVars>>
      BY SMT, <2>3 DEF ReadUnsolicited, Fault, Resumes, Continues
    <3> QED
      BY <3>1, ErrorHandled DEF sourceVars
  <2>4. CASE ReadBad
    BY SMT, <2>4 DEF ReadBad, Parsing, Goto, Fault, Resumes, Continues, Suspends, sourceVars, lifeVars
  <2>5. CASE ReadBadFails
    <3>1. /\ handle_error("protocol_error") /\ faults' \in Nat /\ strand' \in Loops
          /\ UNCHANGED <<sourceVars, restVars>>
      BY <2>5 DEF ReadBadFails, Fault, Resumes, Continues
    <3> QED
      BY <3>1, ErrorHandled DEF sourceVars
  <2>6. CASE ReadEnd
    BY <2>6 DEF ReadEnd, Goto, Resumes, Continues, Suspends, sourceVars, lifeVars
  <2> HIDE <1>0, Actors DEF Scalars, States, restVars
  <2> QED
    BY <1>6, <1>2, <1>3, <1>4, <2>1, <2>2, <2>3, <2>4, <2>5, <2>6 DEF ReaderStep, IoLoopStep,
       ReadFails, Loops, Codes
<1>7. CASE ReadData
  BY <1>7 DEF ReadData, Goto, Resumes, Halts, sourceVars, lifeVars
<1>8. ASSUME \/ ReconnectLoop \/ BackoffWake \/ BackoffElapsed \/ ReconnectAttempt
             \/ ReconnectCancel \/ ReconnectFailed \/ ReconnectSucceeded
      PROVE  Scalars'
  <2>1. CASE ReconnectLoop
    BY <2>1 DEF ReconnectLoop, Goto, Resumes, Continues, Suspends, sourceVars, lifeVars
  <2>2. CASE BackoffWake
    BY <2>2 DEF BackoffWake, Goto, async_wait, Resumes, Resumes, Continues, Suspends, sourceVars,
       lifeVars
  <2>3. CASE BackoffElapsed
    BY <2>3 DEF BackoffElapsed, Goto, Resumes, Continues, Suspends, sourceVars, lifeVars
  <2>4. CASE ReconnectAttempt
    BY <2>4 DEF ReconnectAttempt, Goto, Resumes, Continues, Suspends, sourceVars, lifeVars
  <2>5. CASE ReconnectCancel
    BY <2>5 DEF ReconnectCancel, Goto, Resumes, Continues, Suspends, sourceVars, lifeVars
  <2>6. CASE ReconnectFailed
    BY SMT, <2>6 DEF ReconnectFailed, Goto, Resumes, Continues, Suspends, sourceVars, lifeVars
  <2>7. CASE ReconnectSucceeded
    BY <2>7 DEF ReconnectSucceeded, Goto, notify, Resumes, Continues, Suspends, sourceVars,
       lifeVars
  <2> HIDE <1>0, Actors DEF Scalars, States, restVars
  <2> QED
    BY <1>8, <2>1, <2>2, <2>3, <2>4, <2>5, <2>6, <2>7
<1>9. CASE ControlStep
  <2>1. CASE ControlShutdown
    BY SMT, <2>1 DEF ControlShutdown, AtTop, NotifyShutdown, notify, Resumes, Continues, Suspends,
       sourceVars, lifeVars
  <2>2. CASE ControlReconnect
    BY <2>2 DEF ControlReconnect, AtTop, Goto, Resumes, Continues, Suspends, sourceVars, lifeVars
  <2>3. CASE ControlTimeout
    <3>1. /\ handle_error("request_timeout") /\ faults' \in Nat /\ strand' \in Loops
          /\ UNCHANGED <<sourceVars, restVars>>
      BY <2>3 DEF ControlTimeout, Fault, Resumes, Continues
    <3> QED
      BY <3>1, ErrorHandled DEF sourceVars
  <2>4. CASE ControlSleep
    BY <2>4 DEF ControlSleep, AtTop, Goto, Resumes, Continues, Suspends, sourceVars,
       lifeVars
  <2>5. CASE ControlAwake
    BY <2>5 DEF ControlAwake, Goto, async_wait, Resumes, Resumes, Continues, Suspends,
       sourceVars, lifeVars
  <2>6. CASE ControlWait
    BY <2>6 DEF ControlWait, AtTop, Goto, Resumes, Continues, Suspends, sourceVars, lifeVars
  <2> HIDE <1>0, Actors DEF Scalars, States, restVars
  <2> QED
    BY <1>9, <1>2, <1>8, <2>1, <2>2, <2>3, <2>4, <2>5, <2>6 DEF ControlStep, Loops
<1>10. ASSUME NEW c \in Callers, CallerStep(c) PROVE Scalars'
  <2>1. CASE ConnectSucceeds(c)
    BY <2>1 DEF ConnectSucceeds, Connected, Goto, notify, Resumes, Continues, Suspends,
       sourceVars, lifeVars
  <2>2. CASE ConnectFails(c)
    BY <2>2 DEF ConnectFails, Connected, Goto, Resumes, Continues, Suspends, sourceVars, lifeVars
  <2>3. CASE ConnectCloses(c)
    <3>1. CloseBody(c) /\ UNCHANGED asked
      BY <2>3 DEF ConnectCloses, CloseBody
    <3>2. sock' \in [id : Nat, open : BOOLEAN] /\ stopped' \subseteq 0..epoch /\ state' \in States
      BY <3>1, CloseMoves DEF States
    <3> QED
      BY <3>1, <3>2 DEF CloseBody
  <2>4. CASE CloseReturns(c)
    BY SMT, <2>4 DEF CloseReturns, Goto, Resumes, Continues, Suspends, sourceVars, lifeVars
  <2> HIDE <1>0, Actors DEF Scalars, States, restVars
  <2> QED
    BY <1>10, <2>1, <2>2, <2>3, <2>4 DEF CallerStep
<1>11. CASE UserCall
  <2>1. ASSUME NEW c \in Callers, ConnectRefused(c) PROVE Scalars'
    BY <2>1 DEF ConnectRefused, Calls, Resumes, Continues, Suspends, sourceVars, lifeVars
  <2>2. ASSUME NEW c \in Callers, Connect(c) PROVE Scalars'
    BY SMT, <2>2 DEF Connect, Calls, Resumes, Continues, Suspends, sourceVars, lifeVars
  <2>3. ASSUME NEW c \in Callers, Close(c) PROVE Scalars'
    <3>1. CloseBody(c) /\ UNCHANGED asked
      BY <2>3 DEF Close, CloseBody
    <3>2. sock' \in [id : Nat, open : BOOLEAN] /\ stopped' \subseteq 0..epoch /\ state' \in States
      BY <3>1, CloseMoves DEF States
    <3> QED
      BY <3>1, <3>2 DEF CloseBody
  <2>4. ASSUME NEW r \in Requests, enqueue(r) PROVE Scalars'
    BY <2>4 DEF enqueue, NotifyEnqueued, notify, Resumes, Continues, Suspends, sourceVars,
       lifeVars
  <2> HIDE <1>0, Actors DEF Scalars, States, restVars
  <2> QED
    BY <1>11, <2>1, <2>2, <2>3, <2>4 DEF UserCall
<1>12. ASSUME NEW o \in Owners, DcStep(o) PROVE Scalars'
  <2>1. UNCHANGED dcRest
    BY <1>12, DcFrames DEF DcFrame
  <2>2. /\ state' \in States /\ last_event' \in {"none", "connected", "disconnected", "closed"}
        /\ generation' \in Nat /\ reconnect_count' \in Nat /\ UNCHANGED <<epoch, stopped>>
    <3>1. CASE UNCHANGED lifeVars
      BY <3>1 DEF lifeVars, sourceVars
    <3>2. CASE DcOpen(o)
      BY SMT, <3>2 DEF DcOpen
    <3> QED
      BY <1>12, <3>1, <3>2, DcFrames DEF DcFrame
  <2>3. /\ sock' \in [id : Nat, open : BOOLEAN] /\ faults' \in Nat
        /\ strand' \in {Idle, Halted} \cup Loops \cup Owners
    BY <1>12, DcFrames, DcPaths DEF DcFrame, DcPath, Halts
  <2> QED
    BY <2>1, <2>2, <2>3 DEF dcRest
<1>13. CASE ActorJoins
  BY <1>13, ClosedReached, ZenonT(30) DEF ActorJoins, Resumes, Continues, Suspends, sourceVars, lifeVars
<1>14. CASE ActorDone
  <2>1. /\ transition_to_closed \/ UNCHANGED <<vars, state, last_event, sock>>
        /\ actor' \in [running : BOOLEAN, joined : BOOLEAN, token : 0..epoch]
        /\ actor_done' \in Nat
        /\ UNCHANGED <<sourceVars, strand, faults, timer, now, asked>>
    <3>1. actor' = [actor EXCEPT !.running = FALSE, !.joined = FALSE]
      BY <1>14 DEF ActorDone
    <3>2. actor_done' = actor_done + 1
      BY <1>14 DEF ActorDone
    <3>3. transition_to_closed \/ UNCHANGED <<vars, state, last_event, sock>>
      BY <1>14 DEF ActorDone
    <3>4. UNCHANGED <<sourceVars, strand, faults, timer, now, asked>>
      BY <1>14 DEF ActorDone
    <3>5. actor' \in [running : BOOLEAN, joined : BOOLEAN, token : 0..epoch]
      BY <3>1, ZenonT(30)
    <3> QED
      BY SMT, <3>2, <3>3, <3>4, <3>5
  <2> QED
    BY <2>1, ClosedReached DEF sourceVars
<1>15. CASE Tick
  BY SMT, <1>15 DEF Tick, Resumes, Continues, Suspends, sourceVars, lifeVars
<1> HIDE <1>0, Actors DEF Scalars, States, restVars
<1> QED
  BY <1>1, <1>5, <1>6, <1>7, <1>9, <1>10, <1>11, <1>12, <1>13, <1>14, <1>15 DEF ConnNext

LEMMA TablesStep ==
    ASSUME ConnTypeOK, next_deadline \in Nat, [ConnNext]_allVars
    PROVE  Tables'
<1> USE Zenon
<1>0. Scalars /\ Tables
  BY TypesSplit
<1>a. /\ actor.token \in Nat /\ epoch \in Nat /\ sock \in [id : Nat, open : BOOLEAN]
      /\ stopped \subseteq 0..epoch
  BY SMT, <1>0 DEF Scalars
<1> USE <1>0, <1>a, Actors DEF Tables, LoopPlaces, CallerPlaces, restVars
<1>c. ASSUME NEW c \in Callers, NEW in, Calls(c, in) PROVE calls' \in [Callers -> 0..MaxCalls]
  <2>1. MaxCalls \in Nat /\ calls \in [Callers -> 0..MaxCalls]
    BY ConnectionConstants DEF ConnectionConstants
  <2> QED
    BY <1>c, <2>1, CallsCounted DEF Calls
<1>1. CASE UNCHANGED allVars
  BY <1>1 DEF allVars, connVars, lifeVars, sourceVars, restVars
<1>2. ASSUME NEW l \in Loops, LoopStep(l) PROVE Tables'
  <2>1. CASE LoopExit(l)
    BY <2>1 DEF LoopExit, AtTop, Goto, lifeVars
  <2>2. CASE LoopWake(l)
    BY SMT, <2>2 DEF LoopWake, Goto, async_wait, lifeVars
  <2> HIDE <1>0, <1>a, Actors DEF Tables, LoopPlaces, CallerPlaces, restVars
  <2> QED
    BY <1>2, <2>1, <2>2 DEF LoopStep
<1>3. ASSUME NEW l \in {Writer, Reader}, LoopWait(l) \/ IoStart(l) PROVE Tables'
  <2>1. CASE LoopWait(l)
    BY <2>1 DEF LoopWait, AtTop, Goto, lifeVars
  <2>2. CASE IoStart(l)
    <3>1. sock.id \in Nat /\ io' = [io EXCEPT ![l] = sock.id] /\ pc' = [pc EXCEPT ![l] = "io"]
      BY <2>2, <1>a DEF IoStart, Goto
    <3>2. UNCHANGED <<dc, wake, calls>>
      BY <2>2 DEF IoStart
    <3> QED
      BY <3>1, <3>2
  <2> HIDE <1>0, <1>a, Actors DEF Tables, LoopPlaces, CallerPlaces, restVars
  <2> QED
    BY <1>3, <2>1, <2>2
<1>4. ASSUME NEW l \in {Writer, Reader}, NEW err \in Codes, IoFails(l, err) PROVE Tables'
  BY <1>4, ErrorHandled DEF IoFails, Goto, Fault, lifeVars
<1>5. CASE WriterStep
  <2>1. ASSUME NEW n \in 1..MaxPendingWriteBytes, WriteDone(n) PROVE Tables'
    <3>1. /\ UNCHANGED <<io, dc, calls>> /\ (Goto(Writer, "top") \/ UNCHANGED pc)
          /\ wake' = wake \/ wake' = [wake EXCEPT ![Reader] = @ + 1]
      BY <2>1 DEF WriteDone
    <3>2. wake' \in [Loops -> Nat]
      BY SMT, <3>1
    <3> QED
      BY <3>1, <3>2 DEF Goto
  <2> HIDE <1>0, <1>a, Actors DEF Tables, LoopPlaces, CallerPlaces, restVars
  <2> QED
    BY <1>5, <1>2, <1>3, <1>4, <2>1 DEF WriterStep, IoLoopStep, WriteFails, Loops, Codes
<1>6. CASE ReaderStep
  <2>1. CASE ReadMessage
    BY <2>1 DEF ReadMessage, Parsing, Goto, lifeVars
  <2>2. CASE ReadPush
    BY <2>2 DEF ReadPush, Parsing, Goto, Fault, lifeVars
  <2>3. CASE ReadUnsolicited
    BY <2>3, ErrorHandled DEF ReadUnsolicited, Parsing, Goto, Fault, lifeVars
  <2>4. CASE ReadBad
    BY <2>4 DEF ReadBad, Parsing, Goto, Fault, lifeVars
  <2>5. CASE ReadBadFails
    BY <2>5, ErrorHandled DEF ReadBadFails, Goto, lifeVars
  <2>6. CASE ReadEnd
    BY <2>6 DEF ReadEnd, Goto, lifeVars
  <2> HIDE <1>0, <1>a, Actors DEF Tables, LoopPlaces, CallerPlaces, restVars
  <2> QED
    BY <1>6, <1>2, <1>3, <1>4, <2>1, <2>2, <2>3, <2>4, <2>5, <2>6 DEF ReaderStep, IoLoopStep,
       ReadFails, Loops, Codes
<1>7. CASE ReadData
  <2>1. UNCHANGED <<io, dc, wake, calls>> /\ (Goto(Reader, "parse") \/ UNCHANGED pc)
    BY <1>7 DEF ReadData
  <2> QED
    BY <2>1 DEF Goto
<1>8. ASSUME \/ ReconnectLoop \/ BackoffWake \/ BackoffElapsed \/ ReconnectAttempt
             \/ ReconnectCancel \/ ReconnectFailed \/ ReconnectSucceeded
      PROVE  Tables'
  <2>1. CASE ReconnectLoop
    BY <2>1 DEF ReconnectLoop, Goto, lifeVars
  <2>2. CASE BackoffWake
    BY SMT, <2>2 DEF BackoffWake, Goto, async_wait, lifeVars
  <2>3. CASE BackoffElapsed
    BY <2>3 DEF BackoffElapsed, Goto, lifeVars
  <2>4. CASE ReconnectAttempt
    <3>1. DcMoves(Control, "resolve", "none")
      BY <2>4, <1>a, ReconnectMoves
    <3>2. pc' = [pc EXCEPT ![Control] = "connecting"]
      BY <2>4 DEF ReconnectAttempt, Goto
    <3>3. UNCHANGED wake /\ UNCHANGED <<io, calls>>
      BY <2>4 DEF ReconnectAttempt, Goto, notify
    <3> QED
      BY <3>1, <3>2, <3>3 DEF DcMoves
  <2>5. CASE ReconnectCancel
    BY <2>5 DEF ReconnectCancel, Goto, lifeVars
  <2>6. CASE ReconnectFailed
    <3>1. DcMoves(Control, "off", "none")
      BY <2>6, <1>a, ReconnectMoves
    <3>2. pc' = [pc EXCEPT ![Control] = "reconnect"]
      BY <2>6 DEF ReconnectFailed, Goto
    <3>3. UNCHANGED wake /\ UNCHANGED <<io, calls>>
      BY <2>6 DEF ReconnectFailed, Goto, notify
    <3> QED
      BY <3>1, <3>2, <3>3 DEF DcMoves
  <2>7. CASE ReconnectSucceeded
    <3>1. DcMoves(Control, "off", "none")
      BY <2>7, <1>a, ReconnectMoves
    <3>2. pc' = [pc EXCEPT ![Control] = "top"]
      BY <2>7 DEF ReconnectSucceeded, Goto
    <3>3. wake' \in [Loops -> Nat] /\ UNCHANGED <<io, calls>>
      BY SMTT(20), <2>7 DEF ReconnectSucceeded, Goto, notify
    <3> QED
      BY <3>1, <3>2, <3>3 DEF DcMoves
  <2> HIDE <1>0, <1>a, Actors DEF Tables, LoopPlaces, CallerPlaces, restVars
  <2> QED
    BY <1>8, <2>1, <2>2, <2>3, <2>4, <2>5, <2>6, <2>7
<1>9. CASE ControlStep
  <2>1. CASE ControlShutdown
    BY SMT, <2>1 DEF ControlShutdown, AtTop, NotifyShutdown, notify, lifeVars
  <2>2. CASE ControlReconnect
    BY <2>2 DEF ControlReconnect, AtTop, Goto, lifeVars
  <2>3. CASE ControlTimeout
    BY <2>3, ErrorHandled DEF ControlTimeout, AtTop, lifeVars
  <2>4. CASE ControlSleep
    BY <2>4 DEF ControlSleep, AtTop, Goto, lifeVars
  <2>5. CASE ControlAwake
    BY SMT, <2>5 DEF ControlAwake, Goto, async_wait, lifeVars
  <2>6. CASE ControlWait
    BY <2>6 DEF ControlWait, AtTop, Goto, lifeVars
  <2> HIDE <1>0, <1>a, Actors DEF Tables, LoopPlaces, CallerPlaces, restVars
  <2> QED
    BY <1>9, <1>2, <1>8, <2>1, <2>2, <2>3, <2>4, <2>5, <2>6 DEF ControlStep, Loops
<1>10. ASSUME NEW c \in Callers, CallerStep(c) PROVE Tables'
  <2>1. CASE ConnectSucceeds(c)
    <3>1. DcMoves(c, "off", "none")
      BY <2>1, <1>a, ConnectEndMoves
    <3>2. pc' = [pc EXCEPT ![c] = "idle"]
      BY <2>1 DEF ConnectSucceeds, Connected, Goto
    <3>3. wake' \in [Loops -> Nat] /\ UNCHANGED <<io, calls>>
      BY SMT, <2>1 DEF ConnectSucceeds, Connected, Goto, notify
    <3> QED
      BY <3>1, <3>2, <3>3 DEF DcMoves
  <2>2. CASE ConnectFails(c)
    <3>1. DcMoves(c, "off", "none")
      BY <2>2, <1>a, ConnectEndMoves
    <3>2. pc' = [pc EXCEPT ![c] = "closing"]
      BY <2>2 DEF ConnectFails, Connected, Goto
    <3>3. UNCHANGED wake /\ UNCHANGED <<io, calls>>
      BY <2>2 DEF ConnectFails, Connected, Goto, notify
    <3> QED
      BY <3>1, <3>2, <3>3 DEF DcMoves
  <2>3. CASE ConnectCloses(c)
    <3>1. UNCHANGED calls /\ CloseBody(c)
      BY <2>3 DEF ConnectCloses
    <3>2. /\ pc' = [pc EXCEPT ![c] = "idle"] \/ pc' = [pc EXCEPT ![c] = "join"]
          /\ wake' \in [Loops -> Nat]
      BY <3>1, CloseMoves
    <3>3. UNCHANGED <<io, dc>>
      BY <3>1 DEF CloseBody
    <3> QED
      BY <3>1, <3>2, <3>3
  <2>4. CASE CloseReturns(c)
    BY <2>4 DEF CloseReturns, Goto, lifeVars
  <2> HIDE <1>0, <1>a, Actors DEF Tables, LoopPlaces, CallerPlaces, restVars
  <2> QED
    BY <1>10, <2>1, <2>2, <2>3, <2>4 DEF CallerStep
<1>11. CASE UserCall
  <2>1. ASSUME NEW c \in Callers, ConnectRefused(c) PROVE Tables'
    BY <1>c, <2>1 DEF ConnectRefused
  <2>2. ASSUME NEW c \in Callers, Connect(c) PROVE Tables'
    <3>1. DcMoves(c, "start", "none")
      BY <2>2, <1>a, ConnectMoves
    <3>2. pc' = [p \in DOMAIN pc |-> IF p = c THEN "connecting"
                                        ELSE IF p \in Loops /\ ~actor.running THEN "top"
                                        ELSE pc[p]]
      BY <2>2 DEF Connect, Calls
    <3>3. UNCHANGED wake /\ UNCHANGED io /\ calls' \in [Callers -> 0..MaxCalls]
      BY <1>c, <2>2 DEF Connect, notify
    <3> QED
      BY <3>1, <3>2, <3>3 DEF DcMoves
  <2>3. ASSUME NEW c \in Callers, Close(c) PROVE Tables'
    <3>1. calls' \in [Callers -> 0..MaxCalls] /\ CloseBody(c)
      BY <1>c, <2>3 DEF Close
    <3>2. /\ pc' = [pc EXCEPT ![c] = "idle"] \/ pc' = [pc EXCEPT ![c] = "join"]
          /\ wake' \in [Loops -> Nat]
      BY <3>1, CloseMoves
    <3>3. UNCHANGED <<io, dc>>
      BY <3>1 DEF CloseBody
    <3> QED
      BY <3>1, <3>2, <3>3
  <2>4. ASSUME NEW r \in Requests, enqueue(r) PROVE Tables'
    BY SMT, <2>4 DEF enqueue, NotifyEnqueued, notify, lifeVars
  <2> HIDE <1>0, <1>a, Actors DEF Tables, LoopPlaces, CallerPlaces, restVars
  <2> QED
    BY <1>11, <2>1, <2>2, <2>3, <2>4 DEF UserCall
<1>12. ASSUME NEW o \in Owners, DcStep(o) PROVE Tables'
  BY <1>12, <1>a, DcFrames, DcPaths DEF DcFrame, DcPath, dcRest
<1>13. CASE ActorJoins
  BY <1>13, ClosedReached DEF ActorJoins, lifeVars
<1>14. CASE ActorDone
  BY <1>14, ClosedReached DEF ActorDone, lifeVars
<1>15. CASE Tick
  BY <1>15 DEF Tick, lifeVars
<1> HIDE <1>0, <1>a, Actors DEF Tables, LoopPlaces, CallerPlaces, restVars
<1> QED
  BY <1>1, <1>5, <1>6, <1>7, <1>9, <1>10, <1>11, <1>12, <1>13, <1>14, <1>15 DEF ConnNext

=============================================================================
