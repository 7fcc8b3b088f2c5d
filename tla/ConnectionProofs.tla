-------------------------- MODULE ConnectionProofs --------------------------
(*****************************************************************************)
(* The theorems about the connection actor.  The first two hold however it   *)
(* is used, until an assertion of the code fails: any number of callers,     *)
(* connect() and close() in any state and any order.  The others hold of a   *)
(* connection used as SingleUser says, where no assertion fails; the last    *)
(* ones show that it drives its pipeline as PipelinePeer says, so that       *)
(* what is proved of the pipeline with its peer holds of it inside the       *)
(* connection, across failures, reconnections and close().                   *)
(*****************************************************************************)
EXTENDS PipelineProofs, ServiceProofs, FiniteSetTheorems

-----------------------------------------------------------------------------
(* The invariant of every use of the connection. *)

BaseInv ==
    /\ QueueInv
    /\ NoOverDelivery
    /\ ConnTypeOK
    /\ Places
    /\ Asked

LEMMA TypesInit == ConnInit => ConnTypeOK
<1> SUFFICES ASSUME ConnInit PROVE ConnTypeOK
  OBVIOUS
<1>1. TypeOK
  BY QueueInit DEF ConnInit, QueueInv
<1>2. Scalars
  BY SMTT(30) DEF ConnInit, Scalars, States
<1>a. MaxCalls \in Nat /\ 0 \in 0..MaxCalls /\ DcOff \in DcRecords
  BY ConnectionConstants DEF ConnectionConstants, DcOff, DcRecords, DcPlaces
<1>3. Tables
  BY <1>a DEF ConnInit, Tables, LoopPlaces, CallerPlaces
<1> QED
  BY <1>1, <1>2, <1>3, TypesSplit

LEMMA BaseInit == ConnInit => BaseInv
  BY QueueInit, OverDeliveryInit, TypesInit, PlacesInit, AskedInit DEF BaseInv, ConnInit

\* What the proofs about the actor take from its pipeline.
LEMMA FactsHold == ASSUME QueueInv PROVE PipelineFacts
<1>1. Drains => Drained
  BY DrainsQueued DEF Drains, Drained
<1>2. results \in [Sinks -> Seq(Slots)] /\ TimeMax \in Nat
  BY Numbers DEF QueueInv, TypeOK
<1>3. \A s \in Sinks : is_complete(s) => s \notin QueuedSinks
  BY CompleteLeft
<1>4. \A s \in Sinks, d \in 0..TimeMax :
          push(s, d) => QueuedSinks' = QueuedSinks \cup {s} /\ results' = results
  BY PushQueued
<1>5. \A n \in 1..MaxPendingWriteBytes : Send(n) => Drained
  <2>1. \A n \in 1..MaxPendingWriteBytes : n \in Nat
    BY Numbers
  <2> QED
    BY <1>1, <2>1, DrainsSend
<1>6. Receive \/ ReceivePush => Drained
  BY <1>1, DrainsReceive
<1>7. \A err \in Errors : ReceiveBad(err) => Drained
  BY <1>1, DrainsReceive
<1>8. \A err \in Errors : Disconnect(err) => Drained /\ QueuedSinks' = {}
  <2> SUFFICES ASSUME NEW err \in Errors, Disconnect(err) PROVE Drained /\ QueuedSinks' = {}
    OBVIOUS
  <2>1. Drains /\ Held' = {}
    BY DrainsDisconnect
  <2> QED
    BY <1>1, <2>1, HeldSinksNext
<1>9. \A s, d : push(s, d) => has_pending_write'
  <2> SUFFICES ASSUME NEW s, NEW d, push(s, d) PROVE has_pending_write'
    OBVIOUS
  <2>1. pending_write' = Append(pending_write, [sink |-> s, written |-> 0, deadline |-> d])
    BY DEF push
  <2>2. PICK S : pending_write \in Seq(S)
    BY DEF QueueInv, TypeOK
  <2> QED
    BY <2>1, <2>2 DEF has_pending_write
<1> QED
  BY <1>2, <1>3, <1>4, <1>5, <1>6, <1>7, <1>8, <1>9 DEF PipelineFacts

LEMMA StepIsUse == PipelineStep => AnyUse
<1>1. 1..MaxPendingWriteBytes \subseteq 0..MaxPendingWriteBytes
  BY Numbers
<1> QED
  BY <1>1, Sorts, ZenonT(30) DEF PipelineStep, AnyUse, Pushes, Dropped

LEMMA BaseStep ==
    ASSUME BaseInv, [ConnNext]_allVars
    PROVE  BaseInv' /\ [PipelineStep]_vars
<1>0. QueueInv /\ NoOverDelivery /\ ConnTypeOK /\ Places /\ Asked
  BY DEF BaseInv
<1>a. PipelineFacts /\ next_deadline \in Nat
  BY <1>0, FactsHold, DeadlineNat DEF QueueInv
<1>b. \A r \in Requests \ asked : Deadline \in 0..TimeMax
  <2>1. asked \subseteq Requests
    BY <1>0 DEF ConnTypeOK
  <2> QED
    BY <1>a, <2>1, ConnectionConstants DEF Deadline, ConnectionConstants, PipelineFacts
<1>1. Asked' /\ [PipelineStep]_vars
  BY <1>0, <1>a, <1>b, AskedStep
<1>2. NonEmptyRequests
  BY ConnectionConstants DEF ConnectionConstants
<1>3. QueueInv' /\ NoOverDelivery'
  BY <1>0, <1>1, <1>2, StepIsUse, QueueUse, OverDeliveryUse
<1>4. ConnTypeOK'
  <2>1. TypeOK'
    BY <1>3 DEF QueueInv
  <2> QED
    BY <1>0, <1>a, <2>1, ScalarsStep, TablesStep, TypesSplit
<1>5. Places'
  BY <1>0, PlacesStep
<1> QED
  BY <1>1, <1>3, <1>4, <1>5 DEF BaseInv

LEMMA BaseAlways == ConnSpec => []BaseInv
<1>1. BaseInv /\ [ConnNext]_allVars => BaseInv'
  BY BaseStep
<1> QED
  BY <1>1, BaseInit, PTL DEF ConnSpec

\* The members of connection and the places of its coroutines keep their types
\* (connection.hpp), whatever the application calls and whatever fails, until an
\* assertion does.
THEOREM ActorTypes == ConnSpec => []ConnTypeOK
<1>1. BaseInv => ConnTypeOK
  BY DEF BaseInv
<1> QED
  BY <1>1, BaseAlways, PTL

\* A handshake request leaves the pipeline before its do_connect() returns
\* (do_connect, do_handshake), whoever else connects or closes meanwhile, until
\* an assertion fails.
THEOREM HandshakesOwned == ConnSpec => []HandshakeOwned
<1>1. BaseInv => HandshakeOwned
  BY DEF BaseInv, Asked
<1> QED
  BY <1>1, BaseAlways, PTL

-----------------------------------------------------------------------------
(* The connection as one user coroutine uses it. *)

UserInv == BaseInv /\ ServiceInv

LEMMA UserFacts ==
    ASSUME UserInv
    PROVE  /\ ConnTypeOK /\ Places /\ Asked /\ ServiceInv /\ QueueInv
           /\ PipelineFacts /\ QueuedSinks \subseteq Sinks
<1> USE Zenon
<1>1. ConnTypeOK /\ Places /\ Asked /\ ServiceInv /\ QueueInv
  BY DEF UserInv, BaseInv
<1>2. TypeOK
  BY <1>1 DEF QueueInv
<1> QED
  BY <1>1, <1>2, FactsHold, HeldTypes

\* What a step keeps, and what it may not do.
StepIsSafe ==
    /\ generation' # generation => last_event # "connected"
    /\ live' /\ ~live => QueuedSinks = {}
    /\ \A c \in Callers : CloseReturns(c) => state = "CLOSED"
    /\ "INIT" \notin CloseIn =>
          \A c \in Callers : (Close(c) \/ ConnectCloses(c) \/ CloseReturns(c)) /\ pc'[c] = "idle"
                               => state' = "CLOSED"

LEMMA UserStep ==
    ASSUME SingleUser, UserInv, [ConnNext]_allVars
    PROVE  UserInv' /\ StepIsSafe
<1> USE Zenon
<1>0. /\ ConnTypeOK /\ Places /\ Asked /\ ServiceInv
      /\ PipelineFacts /\ QueuedSinks \subseteq Sinks
  BY UserFacts
<1>1. BaseInv' /\ [PipelineStep]_vars
  BY BaseStep DEF UserInv
<1>2. ServiceInv' /\ (generation' # generation => last_event # "connected")
  BY <1>0, <1>1, ServiceStep
<1>3. live' /\ ~live => QueuedSinks = {}
  BY <1>0, <1>1, StreamStartsEmpty
<1> QED
  BY <1>0, <1>1, <1>2, <1>3, WaitEndsClosed, CloseEndsClosed DEF UserInv, StepIsSafe

LEMMA UserAlways ==
    ASSUME SingleUser
    PROVE  ConnSpec => []UserInv /\ [][StepIsSafe]_allVars
<1>1. ConnInit => UserInv
  BY Zenon, BaseInit, ServiceInit DEF UserInv
<1>2. UserInv /\ [ConnNext]_allVars => UserInv' /\ [StepIsSafe]_allVars
  BY Zenon, UserStep
<1> QED
  BY <1>1, <1>2, PTL DEF ConnSpec

\* No operation on the socket completes that the pipeline does not expect: the
\* assertions of on_write_done() hold (pipeline.ipp:47-52), and read_loop and the
\* handshake read no reply of a stream that was given up.
THEOREM IoExpected == ASSUME SingleUser PROVE ConnSpec => [](IoStillExpected /\ strand # Halted)
<1>1. UserInv => IoStillExpected /\ strand # Halted
  BY Zenon, IoIsExpected DEF UserInv, ServiceInv, Streams
<1> QED
  BY <1>1, UserAlways, PTL

\* The pipeline keeps each request in one place, counts the bytes it has left to
\* write and fills no slot twice, and no call of the connection fails one of its
\* assertions, so that this holds to the end.
THEOREM PipelineSound ==
    ASSUME SingleUser
    PROVE  ConnSpec => [](QueueDiscipline /\ BytesAccounted /\ NoOverDelivery /\ strand # Halted)
<1>1. UserInv => QueueDiscipline /\ BytesAccounted /\ NoOverDelivery /\ strand # Halted
  BY Zenon DEF UserInv, BaseInv, QueueInv, ServiceInv, Streams
<1> QED
  BY <1>1, UserAlways, PTL

\* "At most ONE in-flight async_read_some at any time" and the same for
\* async_write_some (connection.hpp:142-143), do_connect()'s handshake included.
THEOREM OneIo == ASSUME SingleUser PROVE ConnSpec => []OneIoPerDirection
<1>1. UserInv => OneIoPerDirection
  BY Zenon, IoIsAlone DEF UserInv
<1> QED
  BY <1>1, UserAlways, PTL

\* "no request buffering across connection generations"
\* (connection_state.hpp:31): user requests are queued in OPEN only.
THEOREM QueuedInOpen == ASSUME SingleUser PROVE ConnSpec => []QueuedOnlyWhileOpen
<1>1. UserInv => QueuedOnlyWhileOpen
  BY Zenon, QueuedAsOpen DEF UserInv
<1> QED
  BY <1>1, UserAlways, PTL

\* CLOSED means that all has ended (transition_to_closed).
THEOREM QuietInClosed == ASSUME SingleUser PROVE ConnSpec => []ClosedIsQuiet
<1>1. UserInv => ClosedIsQuiet
  BY Zenon, UserFacts, ClosedAsQuiet
<1> QED
  BY <1>1, UserAlways, PTL

\* While the connection is OPEN its actor runs, and its loops do unless it was
\* told to stop: somebody serves what enqueue() accepts.
THEOREM ServedInOpen == ASSUME SingleUser PROVE ConnSpec => []OpenIsServed
<1>1. UserInv => OpenIsServed
  BY Zenon, OpenAsServed DEF UserInv
<1> QED
  BY <1>1, UserAlways, PTL

\* A "connected" event is emitted only after the end of the previous connection
\* was reported (emit_connection_event).
THEOREM EventsInTurn == ASSUME SingleUser PROVE ConnSpec => EventsAlternate
<1>1. StepIsSafe => (generation' # generation => last_event # "connected")
  BY Zenon DEF StepIsSafe
<1> QED
  BY <1>1, UserAlways, PTL DEF EventsAlternate

\* "there is no buffering/replay across connection generations"
\* (connection.hpp:46-47): a new stream starts with an empty pipeline.
THEOREM NothingCarried == ASSUME SingleUser PROVE ConnSpec => NoCarryOver
<1>1. StepIsSafe => (live' /\ ~live => QueuedSinks = {})
  BY Zenon DEF StepIsSafe
<1> QED
  BY <1>1, UserAlways, PTL DEF NoCarryOver

\* A close() that waited for the actor finds the connection CLOSED (the
\* assertion at core.ipp:296).
THEOREM JoinsEndClosed == ASSUME SingleUser PROVE ConnSpec => JoinEndsClosed
<1>1. StepIsSafe => \A c \in Callers : CloseReturns(c) => state = "CLOSED"
  BY Zenon DEF StepIsSafe
<1> QED
  BY <1>1, UserAlways, PTL DEF JoinEndsClosed

\* Every close() returns in CLOSED with the actor joined, if the connection was
\* connected before (core.ipp:296).
THEOREM ClosesJoin ==
    ASSUME SingleUser, "INIT" \notin CloseIn
    PROVE  ConnSpec => CloseJoins
<1>1. StepIsSafe => \A c \in Callers :
          (Close(c) \/ ConnectCloses(c) \/ CloseReturns(c)) /\ pc'[c] = "idle" => state' = "CLOSED"
  BY Zenon DEF StepIsSafe
<1> QED
  BY <1>1, UserAlways, PTL DEF CloseJoins

-----------------------------------------------------------------------------
(* The connection implements the pipeline with its peer. *)

\* With a request timeout no queued request has a later deadline than the last
\* one that was enqueued.
Deadlines ==
    /\ IsFiniteSet(asked)
    /\ RequestTimeout => \A s \in Requests, d \in 0..TimeMax :
                             <<s, d>> \in Held => d <= Cardinality(asked)

UseInv == UserInv /\ Deadlines

LEMMA DeadlinesInit == ConnInit => Deadlines
<1> SUFFICES ASSUME ConnInit PROVE Deadlines
  OBVIOUS
<1>1. asked = {} /\ pending_write = <<>> /\ awaiting_read = <<>>
  BY Zenon DEF ConnInit, Init, PipelineInit
<1>2. Held = {}
  BY <1>1, EmptyHasNone DEF Held
<1> QED
  BY Zenon, <1>1, <1>2, FS_EmptySet DEF Deadlines

\* What a step of the connection adds to the queues.
LEMMA HeldGrows ==
    ASSUME QueueInv, [PipelineStep]_vars
    PROVE  \/ Held' \subseteq Held
           \/ \E s \in Sinks, d \in 0..TimeMax : Pushes(s, d) /\ Held' = Held \cup {<<s, d>>}
<1> USE Zenon
<1>1. UNCHANGED <<pending_write, awaiting_read>> => Held' \subseteq Held
  BY DEF Held
<1>2. UNCHANGED vars \/ Dropped => UNCHANGED <<pending_write, awaiting_read>>
  BY DEF vars, pipelineVars, Dropped
<1>3. \A s \in Sinks, err \in Errors : Reject(s, err) => UNCHANGED <<pending_write, awaiting_read>>
  BY DEF Reject, reject
<1>4. \A s : OpenStream(s) => UNCHANGED <<pending_write, awaiting_read>>
  BY DEF OpenStream, make_sink
<1>5. \A n \in 1..MaxPendingWriteBytes : Send(n) => Held' \subseteq Held
  <2>1. \A n \in 1..MaxPendingWriteBytes : n \in Nat
    BY SMT, Numbers
  <2> QED
    BY <2>1, DrainsSend DEF Drains
<1>6. Receive \/ ReceivePush \/ (\E err \in Errors : ReceiveBad(err) \/ Disconnect(err))
          => Held' \subseteq Held
  BY DrainsReceive, DrainsDisconnect DEF Drains
<1>7. \A s \in Sinks, d \in 0..TimeMax : Pushes(s, d) => Held' = Held \cup {<<s, d>>}
  BY HeldPush DEF Pushes
<1> QED
  BY <1>1, <1>2, <1>3, <1>4, <1>5, <1>6, <1>7 DEF PipelineStep

LEMMA DeadlinesStep ==
    ASSUME QueueInv, ConnTypeOK, Places, Deadlines, [PipelineStep]_vars, [ConnNext]_allVars
    PROVE  Deadlines'
<1>1. IsFiniteSet(asked) /\ Cardinality(asked) \in Nat
  BY Zenon, FS_CardinalityType DEF Deadlines
<1>2. \A r : /\ IsFiniteSet(asked \cup {r})
             /\ r \notin asked => Cardinality(asked \cup {r}) = Cardinality(asked) + 1
  BY Zenon, <1>1, FS_AddElement
<1>3. /\ IsFiniteSet(asked')
      /\ Cardinality(asked') \in {Cardinality(asked), Cardinality(asked) + 1}
  BY Zenon, <1>1, <1>2, AskedGrows
<1>4. TimeMax \in Nat
  BY Numbers
<1>5. \A d \in 0..TimeMax : d <= Cardinality(asked) => d <= Cardinality(asked')
  BY <1>1, <1>3, <1>4
<1>6. CASE Held' \subseteq Held
  BY Zenon, <1>3, <1>5, <1>6 DEF Deadlines
<1>7. ASSUME NEW s \in Sinks, NEW d \in 0..TimeMax, Pushes(s, d), Held' = Held \cup {<<s, d>>}
      PROVE  Deadlines'
  <2>1. s \in Requests => d = Deadline /\ s \notin asked /\ asked' = asked \cup {s}
    BY Zenon, <1>7, Sorts DEF Pushes
  <2>2. RequestTimeout /\ s \in Requests => d <= Cardinality(asked')
    BY <1>1, <1>2, <2>1 DEF Deadline
  <2> QED
    BY Zenon, <1>3, <1>5, <1>7, <2>2 DEF Deadlines
<1> QED
  BY Zenon, <1>6, <1>7, HeldGrows

\* A push keeps the order of the deadlines.
LEMMA PushAllowed ==
    ASSUME UseInv, NEW s \in Sinks, NEW d \in 0..TimeMax, Pushes(s, d)
    PROVE  Push(s, d)
<1> USE Zenon
<1>0. QueueInv /\ Asked /\ ServiceInv /\ QueuedSinks \subseteq Sinks /\ Deadlines
  BY UserFacts DEF UseInv
<1>1. TypeOK /\ Life
  BY <1>0 DEF QueueInv, ServiceInv
<1>2. ASSUME NEW e \in QueuedDeadlines PROVE e <= d
  <2>1. PICK t : <<t, e>> \in Held
    BY HeldSinks
  <2>2. t \in QueuedSinks /\ e \in 0..TimeMax
    BY <1>1, <2>1, HeldTypes
  <2>3. CASE d = TimeMax
    BY SMT, <2>2, <2>3, Numbers
  <2>4. CASE RequestTimeout /\ d = Deadline /\ state = "OPEN"
    <3>1. t \notin Owners
      <4>1. \A o \in Owners : dc[o].pc \in {"off", "returned"}
        BY <1>1, <2>4, Actors DEF Life, Ended
      <4> QED
        BY <1>0, <2>2, <4>1 DEF Asked, HandshakeOwned
    <3>2. t \in Requests
      BY <1>0, <2>2, <3>1, ConnectionConstants DEF ConnectionConstants
    <3>3. e <= Cardinality(asked) /\ Cardinality(asked) \in Nat
      BY <1>0, <2>1, <2>2, <2>4, <3>2, FS_CardinalityType DEF Deadlines
    <3> QED
      BY SMT, <2>2, <2>4, <3>3, Numbers DEF Deadline
  <2> QED
    BY <2>3, <2>4 DEF Pushes, Deadline
<1> QED
  BY <1>2 DEF Pushes, Push, DeadlineAllowed

\* A stream starts, or ends with its socket, while nothing is queued.
LEMMA StreamAllowed ==
    ASSUME SingleUser, UseInv, NEW o \in Owners, DcStep(o), dc[o].pc \in {"resolve", "tcp"},
           OpenStream(o) \/ Dropped
    PROVE  Next
<1> USE Zenon
<1>1. QueueInv /\ ConnTypeOK /\ Asked /\ ServiceInv /\ QueuedSinks \subseteq Sinks
  BY UserFacts DEF UseInv
<1>2. QueuedSinks = {}
  BY <1>1, NothingQueued DEF ServiceInv
<1>3. CASE OpenStream(o)
  BY <1>2, <1>3, Sorts DEF Next, Establish
<1>4. CASE Dropped
  <2>1. Disconnect(Code("connection_closed"))
    BY <1>1, <1>2, <1>4, EmptyCleared DEF Dropped
  <2> QED
    BY <2>1, CodesAreErrors DEF Next, Codes
<1> QED
  BY <1>3, <1>4

LEMMA StepIsNext ==
    ASSUME SingleUser, UseInv, [PipelineStep]_vars
    PROVE  [Next]_vars
<1> USE Zenon
<1>1. \A n \in 1..MaxPendingWriteBytes : n \in 0..MaxPendingWriteBytes
  BY SMT, Numbers
<1> QED
  BY <1>1, PushAllowed, StreamAllowed DEF PipelineStep, Next

LEMMA UseStep ==
    ASSUME SingleUser, UseInv, [ConnNext]_allVars
    PROVE  UseInv' /\ [Next]_vars
<1> USE Zenon
<1>1. QueueInv /\ ConnTypeOK /\ Places
  BY UserFacts DEF UseInv
<1>2. [PipelineStep]_vars
  BY BaseStep DEF UseInv, UserInv
<1>3. UserInv' /\ Deadlines'
  BY <1>1, <1>2, UserStep, DeadlinesStep DEF UseInv
<1> QED
  BY <1>2, <1>3, StepIsNext DEF UseInv

\* The connection uses its pipeline as PipelinePeer assumes: it starts no stream
\* over requests of an older one, writes and reads on no finished stream, and
\* pushes requests in the order of their deadlines (do_connect, do_write,
\* do_read, enqueue_impl), whatever fails and whenever it is closed.
THEOREM UsesPipeline == ASSUME SingleUser PROVE ConnSpec => PipelineUse
<1>1. ConnInit => UseInv /\ Init
  BY Zenon, BaseInit, ServiceInit, DeadlinesInit DEF UseInv, UserInv, ConnInit
<1>2. UseInv /\ [ConnNext]_allVars => UseInv' /\ [Next]_vars
  BY Zenon, UseStep
<1> QED
  BY <1>1, <1>2, PTL DEF ConnSpec, PipelineUse, Spec

\* Every reply a request gets answers the command of its slot, across failures
\* and reconnections, if no out-of-band message arrives (on_message).
THEOREM RepliesOfConnection ==
    ASSUME SingleUser, PushWhilePending = FALSE
    PROVE  ConnSpec => [](ReplyMatch /\ StreamMatch)
<1>1. NonEmptyRequests
  BY ConnectionConstants DEF ConnectionConstants
<1>2. Spec => [](ReplyMatch /\ StreamMatch)
  BY <1>1, RepliesMatch, EndsAgree, PTL
<1> QED
  BY <1>2, UsesPipeline, PTL DEF PipelineUse

\* The deadline control_loop watches is the earliest of all queued requests
\* ("Earliest deadline among all pending requests", pipeline.hpp:94): with one
\* request timeout the fronts of the queues are enough.
THEOREM TimeoutsOfConnection ==
    ASSUME SingleUser, FifoDeadlines = TRUE
    PROVE  ConnSpec => []NextDeadlineEarliest
<1>1. NonEmptyRequests
  BY ConnectionConstants DEF ConnectionConstants
<1>2. Spec => []NextDeadlineEarliest
  BY <1>1, DeadlinesWatched
<1> QED
  BY <1>2, UsesPipeline, PTL DEF PipelineUse

=============================================================================
