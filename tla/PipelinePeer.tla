---------------------------- MODULE PipelinePeer ----------------------------
(***************************************************************************)
(* The pipeline composed with a Redis server at the other end of one TCP   *)
(* stream.  The server (external) answers the requests it has received     *)
(* whole, in order, one reply per command; the stream carries the bytes of *)
(* either direction in order.  What the module promises is that every      *)
(* reply reaches the slot of the command it answers.                       *)
(*                                                                         *)
(* The connection drives the pipeline this way: do_write() and the         *)
(* handshake send, do_read() and the handshake receive, handle_error(),    *)
(* close() and transition_to_closed() clear, do_connect() establishes.     *)
(***************************************************************************)
EXTENDS Pipeline

CONSTANTS
    PushMessage,        \* an out-of-band message (RESP3 PUSH)
    PushWhilePending,   \* the server pushes while replies are owed
    FifoDeadlines       \* requests are pushed in the order of their deadlines

Reply(s, i) == [of |-> s, nth |-> i]

ASSUME PeerConstants ==
    /\ \A s \in Sinks : \A i \in 1..Expected[s] : Reply(s, i) \in Replies
    /\ PushMessage \in Replies
    /\ \A s \in Sinks : \A i \in 1..Expected[s] : Reply(s, i) # PushMessage
    /\ PushWhilePending \in BOOLEAN
    /\ FifoDeadlines \in BOOLEAN

VARIABLES
    live,   \* the current stream may still carry requests and replies
    srv,    \* requests the server has received and not completely answered
    sent    \* replies the server has given to the first of them

peerVars == <<live, srv, sent>>
vars == <<pipelineVars, peerVars>>

\* A request holds at least one command: request::push() adds the bytes and
\* the reply of one command together, and only request{} itself has none.
NonEmptyRequests == \A s \in Sinks : Expected[s] > 0 /\ Wire[s] > 0

-----------------------------------------------------------------------------
(* A request is pushed once, with a sink that nothing was delivered to. *)

Fresh(s) == s \notin QueuedSinks /\ results[s] = <<>>

QueuedDeadlines ==
    {pending_write[i].deadline : i \in DOMAIN pending_write}
        \cup {awaiting_read[i].deadline : i \in DOMAIN awaiting_read}

\* One request timeout for all: a later request has a later deadline.
DeadlineAllowed(d) == FifoDeadlines => \A e \in QueuedDeadlines : e <= d

Push(s, d) == Fresh(s) /\ DeadlineAllowed(d) /\ push(s, d) /\ UNCHANGED peerVars

Reject(s, err) == Fresh(s) /\ reject(s, err) /\ UNCHANGED peerVars

(* The stream. *)

\* A new stream starts, and with it the sink of its handshake request.
OpenStream(s) ==
    /\ make_sink(s)
    /\ live' = TRUE
    /\ srv' = <<>>
    /\ sent' = 0

\* It starts only when no request of an older stream is queued.
Establish(s) == QueuedSinks = {} /\ OpenStream(s)

\* n bytes are written; the last one hands the request to the server.  An
\* empty request has no command the server could answer.
Send(n) ==
    LET front == Head(pending_write)
    IN  /\ live
        /\ on_write_done(n)
        /\ srv' = IF n = Remaining(front) /\ Expected[front.sink] > 0
                  THEN Append(srv, front.sink) ELSE srv
        /\ UNCHANGED <<live, sent>>

\* The next reply of the stream arrives and is given to the pipeline.
Receive ==
    /\ live
    /\ srv # <<>>
    /\ on_message(Reply(Head(srv), sent + 1))
    /\ IF sent + 1 = Expected[Head(srv)]
       THEN srv' = Tail(srv) /\ sent' = 0
       ELSE sent' = sent + 1 /\ UNCHANGED srv
    /\ UNCHANGED live

\* An out-of-band message arrives while the pipeline awaits a reply: do_read
\* does not look at the kind of a message before it delivers it.  From then on
\* the server owes replies that nothing awaits: at most one message per stream
\* does so, which bounds srv.
ReceivePush ==
    /\ PushWhilePending
    /\ live
    /\ Len(srv) <= Len(awaiting_read)
    /\ on_message(PushMessage)
    /\ UNCHANGED peerVars

\* The parser fails: the front sink gets the error, the stream is finished.
ReceiveBad(err) ==
    /\ live
    /\ on_error(err)
    /\ live' = FALSE
    /\ srv' = <<>>
    /\ sent' = 0

Disconnect(err) ==
    /\ clear_all(err)
    /\ live' = FALSE
    /\ srv' = <<>>
    /\ sent' = 0

-----------------------------------------------------------------------------

Init ==
    /\ PipelineInit
    /\ live = FALSE
    /\ srv = <<>>
    /\ sent = 0

Next ==
    \/ \E s \in Sinks, d \in 0..TimeMax : Push(s, d)
    \/ \E s \in Sinks, err \in Errors : Reject(s, err)
    \/ \E s \in Sinks : Establish(s)
    \/ \E n \in 0..MaxPendingWriteBytes : Send(n)
    \/ Receive
    \/ ReceivePush
    \/ \E err \in Errors : ReceiveBad(err)
    \/ \E err \in Errors : Disconnect(err)

Spec == Init /\ [][Next]_vars

-----------------------------------------------------------------------------
(* Properties. *)

\* The fields of the pipeline and of the stream stay within their types.
TypeOK ==
    /\ pending_write \in Seq(PendingItem)
    /\ awaiting_read \in Seq(AwaitingItem)
    /\ pending_write_bytes \in 0..MaxPendingWriteBytes
    /\ results \in [Sinks -> Seq(Slots)]
    /\ live \in BOOLEAN
    /\ srv \in Seq(Sinks)
    /\ sent \in Nat

\* Every reply a sink holds answers the command of its slot: pushing, partial
\* writes, replies split over reads, parse errors and clear_all() never let a
\* reply reach another request or another slot (on_message, on_write_done).
ReplyMatch ==
    \A s \in Sinks : \A i \in DOMAIN results[s] :
        results[s][i] \in Replies => results[s][i] = Reply(s, i)

\* The replies the server still owes on a live stream are the ones the
\* pipeline awaits, in the same order and from the same slot on.
StreamMatch ==
    live =>
        /\ Len(srv) = Len(awaiting_read)
        /\ \A i \in DOMAIN awaiting_read : srv[i] = awaiting_read[i].sink
        /\ sent = IF has_pending_read
                  THEN Len(results[Head(awaiting_read).sink]) ELSE 0

\* "pipeline MUST NOT deliver more than sink->expected_replies() replies into
\* a sink" (pipeline.hpp:57).
NoOverDelivery == \A s \in Sinks : Len(results[s]) <= Expected[s]

\* A request is in at most one place of one queue, an unfinished write is at
\* the front of pending_write, only the front of awaiting_read holds replies,
\* and no queued sink is complete, so deliver() is never called on a finished
\* sink (the assertion at response_sink.hpp:39).
QueueDiscipline ==
    /\ \A i, j \in DOMAIN pending_write :
           pending_write[i].sink = pending_write[j].sink => i = j
    /\ \A i, j \in DOMAIN awaiting_read :
           awaiting_read[i].sink = awaiting_read[j].sink => i = j
    /\ \A i \in DOMAIN pending_write, j \in DOMAIN awaiting_read :
           pending_write[i].sink # awaiting_read[j].sink
    /\ \A i \in DOMAIN pending_write :
           /\ results[pending_write[i].sink] = <<>>
           /\ pending_write[i].written < Wire[pending_write[i].sink]
           /\ i > 1 => pending_write[i].written = 0
    /\ \A i \in DOMAIN awaiting_read :
           /\ Len(results[awaiting_read[i].sink]) < Expected[awaiting_read[i].sink]
           /\ i > 1 => results[awaiting_read[i].sink] = <<>>

\* pending_write_bytes is the sum of what pending_write has left to write, so
\* the limit of push() counts exactly the unwritten bytes and on_write_done()
\* never makes the counter wrap: c[i] is what is left from the i-th request on.
BytesAccounted ==
    LET n == Len(pending_write)
    IN  \E c \in [1..(n + 1) -> 0..MaxPendingWriteBytes] :
            /\ c[n + 1] = 0
            /\ \A i \in 1..n : c[i] = Remaining(pending_write[i]) + c[i + 1]
            /\ \A i, j \in 1..(n + 1) : i <= j => c[j] <= c[i]
            /\ pending_write_bytes = c[1]

\* next_deadline() is the "Earliest deadline among all pending requests"
\* (pipeline.hpp:94): no queued request expires before it.
NextDeadlineEarliest == \A d \in QueuedDeadlines : next_deadline <= d

=============================================================================
