------------------------------ MODULE Pipeline ------------------------------
(***************************************************************************)
(* The request pipeline (detail/pipeline.hpp, impl/pipeline.ipp) and the   *)
(* response sinks it delivers into (detail/response_sink.hpp,              *)
(* detail/pending_response.hpp, detail/response_builder.hpp).              *)
(*                                                                         *)
(* A request moves from pending_write to awaiting_read when its last byte  *)
(* is written, and leaves awaiting_read when its sink holds all replies.   *)
(* A sink stands for the request it was pushed with: Wire[s] is the size   *)
(* of the request on the wire, Expected[s] its number of replies.  What a  *)
(* reply or an error says is abstract.  Every operation runs on the        *)
(* connection strand, so each one is a single step.                        *)
(***************************************************************************)
EXTENDS Integers, Sequences

CONSTANTS
    Sinks,                  \* sinks, one per request in flight
    Replies,                \* RESP3 messages that may be delivered
    Errors,                 \* errors that may be delivered
    Expected,               \* Expected[s]: sink->expected_replies()
    Wire,                   \* Wire[s]: req.wire().size()
    MaxRequests,            \* limits.max_requests
    MaxPendingWriteBytes,   \* limits.max_pending_write_bytes
    TimeMax                 \* time_point::max(), "no timeout"

ASSUME PipelineConstants ==
    /\ Replies \cap Errors = {}
    /\ Expected \in [Sinks -> Nat]
    /\ Wire \in [Sinks -> Nat]
    /\ MaxRequests \in Nat
    /\ MaxPendingWriteBytes \in Nat
    /\ TimeMax \in Nat

VARIABLES
    pending_write,          \* requests not yet completely written
    awaiting_read,          \* written requests, waiting for replies
    pending_write_bytes,    \* bytes accepted and not yet written
    results                 \* results[s]: the slots filled so far

pipelineVars == <<pending_write, awaiting_read, pending_write_bytes, results>>

Slots == Replies \cup Errors
PendingItem == [sink : Sinks, written : Nat, deadline : 0..TimeMax]
AwaitingItem == [sink : Sinks, deadline : 0..TimeMax]

-----------------------------------------------------------------------------
(* Response sinks. *)

\* Mutant: complete only beyond the last slot.
CompleteWith_late(s, slots) == slots # <<>> /\ Len(slots) > Expected[s]

\* result_ gets its value inside do_deliver, never before: a sink that
\* expects no reply is not complete until something is delivered to it.
CompleteWith(s, slots) == slots # <<>> /\ Len(slots) = Expected[s]
is_complete(s) == CompleteWith(s, results[s])

\* deliver() and deliver_error() ignore a completed sink in release builds.
Delivered(s, x) ==
    IF is_complete(s) THEN results[s] ELSE Append(results[s], x)

\* fail_all() delivers errors until the sink is complete.  The loop ends
\* only if a slot is still free: an accept beyond the last slot never makes
\* the builder done() again.
FailAllEnds(s) == is_complete(s) \/ Len(results[s]) < Expected[s]

\* The slots of s after fail_all(err): the remaining ones hold err.
fail_all(s, err) ==
    [i \in 1..Expected[s] |->
        IF i <= Len(results[s]) THEN results[s][i] ELSE err]

PendingWriteSinks == {pending_write[i].sink : i \in DOMAIN pending_write}
AwaitingReadSinks == {awaiting_read[i].sink : i \in DOMAIN awaiting_read}
QueuedSinks == PendingWriteSinks \cup AwaitingReadSinks

-----------------------------------------------------------------------------
(* Queries. *)

has_pending_write == pending_write # <<>>
has_pending_read == awaiting_read # <<>>
pending_count == Len(pending_write) + Len(awaiting_read)

\* What next_write_buffer() offers to the socket of an item.
Remaining(item) == Wire[item.sink] - item.written

\* Mutant: awaiting_read is not consulted while something is left to write.
next_deadline_write_only ==
    IF has_pending_write THEN Head(pending_write).deadline
    ELSE IF has_pending_read THEN Head(awaiting_read).deadline ELSE TimeMax

next_deadline ==
    LET a == IF has_pending_write THEN Head(pending_write).deadline ELSE TimeMax
        b == IF has_pending_read THEN Head(awaiting_read).deadline ELSE TimeMax
    IN  IF b < a THEN b ELSE a

has_expired(now) == next_deadline # TimeMax /\ next_deadline <= now

\* push() accepts: below both limits, compared without overflow.
CanPush(s) ==
    /\ pending_count < MaxRequests
    /\ Wire[s] <= MaxPendingWriteBytes
    /\ pending_write_bytes <= MaxPendingWriteBytes - Wire[s]

-----------------------------------------------------------------------------
(* Operations. *)

\* A sink object is created before its request is pushed.
make_sink(s) ==
    /\ s \notin QueuedSinks
    /\ results' = [results EXCEPT ![s] = <<>>]
    /\ UNCHANGED <<pending_write, awaiting_read, pending_write_bytes>>

push(s, deadline) ==
    /\ CanPush(s)
    /\ pending_write_bytes' = pending_write_bytes + Wire[s]
    /\ pending_write' = Append(pending_write,
                            [sink |-> s, written |-> 0, deadline |-> deadline])
    /\ UNCHANGED <<awaiting_read, results>>

\* The caller of a refused push fails the sink.
reject(s, err) ==
    /\ FailAllEnds(s)
    /\ results' = [results EXCEPT ![s] = fail_all(s, err)]
    /\ UNCHANGED <<pending_write, awaiting_read, pending_write_bytes>>

\* Mutant: the size of the whole request is subtracted on every write.
CountWritten_whole(n) ==
    pending_write_bytes' = pending_write_bytes - Wire[Head(pending_write).sink]

CountWritten(n) == pending_write_bytes' = pending_write_bytes - n

\* Mutant: a written request overtakes the ones that await replies.
Await_first(item) == awaiting_read' = <<item>> \o awaiting_read

Await(item) == awaiting_read' = Append(awaiting_read, item)

\* Its first two conjuncts are what the code asserts of the caller.  n is at most
\* what next_write_buffer() offered.  That the queue still holds the request is
\* not for the pipeline to say: module Connection takes the step of a caller
\* that finds it empty, and asks whether there is one.
on_write_done(n) ==
    LET front == Head(pending_write)
    IN  /\ has_pending_write
        /\ n <= Remaining(front)
        /\ CountWritten(n)
        /\ IF n = Remaining(front)
           THEN /\ pending_write' = Tail(pending_write)
                /\ Await([sink |-> front.sink, deadline |-> front.deadline])
           ELSE /\ pending_write' = [pending_write EXCEPT ![1].written = @ + n]
                /\ UNCHANGED awaiting_read
        /\ UNCHANGED results

\* Mutant: the request leaves the queue with its first reply.
LeaveQueue_first(complete) == awaiting_read' = Tail(awaiting_read)

\* Mutant: a completed request stays in the queue.
LeaveQueue_never(complete) == UNCHANGED awaiting_read

LeaveQueue(complete) ==
    awaiting_read' = IF complete THEN Tail(awaiting_read) ELSE awaiting_read

\* The common part of on_message and on_error: the front sink takes x and
\* leaves the queue once complete.
DeliverFront(x) ==
    LET s == Head(awaiting_read).sink
    IN  /\ has_pending_read
        /\ results' = [results EXCEPT ![s] = Delivered(s, x)]
        /\ LeaveQueue(CompleteWith(s, Delivered(s, x)))
        /\ UNCHANGED <<pending_write, pending_write_bytes>>

on_message(msg) == msg \in Replies /\ DeliverFront(msg)
on_error(err) == err \in Errors /\ DeliverFront(err)

\* Mutant: the byte counter is not reset.
clear_all_keep_bytes(err) ==
    /\ \A s \in QueuedSinks : FailAllEnds(s)
    /\ pending_write' = <<>>
    /\ awaiting_read' = <<>>
    /\ results' = [s \in Sinks |->
                    IF s \in QueuedSinks THEN fail_all(s, err) ELSE results[s]]
    /\ UNCHANGED pending_write_bytes

\* Both queues are drained and every queued sink fails its remaining slots.
clear_all(err) ==
    /\ \A s \in QueuedSinks : FailAllEnds(s)
    /\ pending_write' = <<>>
    /\ awaiting_read' = <<>>
    /\ pending_write_bytes' = 0
    /\ results' = [s \in Sinks |->
                    IF s \in QueuedSinks THEN fail_all(s, err) ELSE results[s]]

PipelineInit ==
    /\ pending_write = <<>>
    /\ awaiting_read = <<>>
    /\ pending_write_bytes = 0
    /\ results = [s \in Sinks |-> <<>>]

=============================================================================
