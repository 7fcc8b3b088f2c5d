# Verification of rediscoro

TLA+ models of the rediscoro client (`src/include/rediscoro`), checked with TLC on small instances
and proved with TLAPS for every instance: every safety property that a passing run checks is also a
theorem, except `MessagesMatch`. `PROJECT.json` maps each definition to the lines it models.

## The system

| Part | State | Operations | Modules |
|---|---|---|---|
| pipeline (`detail/pipeline.hpp`, `impl/pipeline.ipp`) | `pending_write_`, `awaiting_read_`, `pending_write_bytes_`, limits | push, on_write_done, on_message, on_error, clear_all, next_deadline, has_expired | `Pipeline`, `PipelinePeer` |
| sinks (`detail/response_sink.hpp`, `pending_response.hpp`, `response_builder.hpp`) | filled slots, `result_` | deliver, deliver_error, fail_all | `Pipeline` |
| ring queue (`detail/ring_queue.hpp`) | `data_`, `cap_`, `head_`, `size_`, `alloc_` | emplace_back, pop_front, clear, moves, destruction | `RingQueue`, `Fifo` |
| RESP3 parser and buffer (`resp3/impl/parser.ipp`, `parser.hpp`, `buffer.hpp`, `raw.hpp`) | buffer, raw tree, frames, pending attributes, `failed_`, `tree_ready_` | prepare, commit, parse_one, reclaim, reset | `Resp3Parser`, `Resp3Buffer` |
| RESP3 messages (`resp3/builder.hpp`, `value.hpp`) | | build_message | `Resp3Builder` |
| actor loops and I/O (`impl/connection/actor_loops.ipp`, `io.ipp`) | `state_`, wake-up events, in-flight guards | write_loop, read_loop, control_loop, do_write, do_read, handle_error | `Connection` |
| lifecycle (`core.ipp`, `stop_scope.hpp`) | `stop_`, `actor_running_`, `actor_done_` | connect, close, run_actor, enqueue_impl, transition_to_closed | `Connection` |
| establishment (`connect.ipp`) | socket, parser, handshake slot | do_connect | `Connection` |
| reconnection (`reconnect.ipp`) | `reconnect_count_` | do_reconnect, calculate_reconnect_delay | `Connection` |

All mutations happen on one strand. A coroutine runs without interruption from one `co_await` of an
iocoro operation to the next; everything hard comes from what other coroutines do in between: a
failure, a `close()` or a reconnection while a read, a write or a handshake is suspended. The parser
is suspended in the same way: between two reads it keeps an unfinished tree.

## Modules

- `Pipeline`: the pipeline and its sinks. One operator per member function; a sink stands for its
  request, `Wire[s]` is its size and `Expected[s]` its number of replies.
- `PipelinePeer`: the pipeline with a Redis server at the other end of a TCP stream. It is the
  abstract specification of how a connection may use the pipeline.
- `Connection`: the actor. It extends `PipelinePeer` and shares its variables; the property
  `PipelineUse` says that every step of the connection is a step of `PipelinePeer` or a stutter
  (the refinement mapping is the identity). `strand` names the coroutine in the middle of a run, so
  that a run of several steps stays uninterrupted; `pc` and `dc` say where coroutines are suspended.
  A write or a read that completes relies on facts the code asserts: its request is still the front
  of the queue, the stream is the one it began on, no other operation of its kind is pending
  (`WriteExpected`, `ReadExpected`; `pipeline.ipp:47-52`, `io.ipp:20`, `io.ipp:100`). They are no
  guards: a completion that finds one of them false sets `strand` to `Halted`, the failed assertion,
  and the behaviour ends there.
- `Fifo`: what a queue promises, as a sequence per queue object, with moves between objects and
  operations that fail half way.
- `RingQueue`: the ring buffer, slot by slot. A slot holds an element or `Raw` memory; `home` is a
  history of which allocator allocated the storage. `F == INSTANCE Fifo WITH items <- AbstractItems`
  is the refinement: the abstract content is `at(0) .. at(size_ - 1)` of a queue that is alive.
- `Resp3Buffer`: the buffer as operations on a record. `storage` names the memory block, so that a
  view (`string_view`) is a block and a position, and is stale once the vector has moved.
- `Resp3Parser`: the parser with its buffer and its tree, driven as `do_read()` and `do_connect()`
  drive it. The stream is a sequence of tokens, each a scalar or the header of an aggregate with its
  true length in bytes, and a read may end at any byte. What a scalar says, and whether its text is
  malformed, belongs to the token. The loops of `parse_one()` and `attach_to_parent()` are steps, one
  for each iteration: a branch of `parse_value()` is an `Accept...` action (or `NeedMore`,
  `ParseFails`), a branch of `attach_to_parent()` an `Attach...` action. `child` is the node that is
  being attached, 0 if there is none; a `pending_key` of 0 is `has_pending_key == false`. `Layout`
  says of every token where it begins, how many values the message under way still needs there, and
  how many messages came before: it is what the parser is measured against.
- `Resp3Builder`: `build_message()` as a recursion over nodes and links, and `Decode`, the reference:
  the messages that the tokens of a stream denote, computed without frames, links or buffer.
- `RingQueueProofs`, `PipelineProofs`: theorems about the ring queue and the pipeline.
- `ActorProofs`, `ServiceProofs`, `ConnectionProofs`: the steps of the actor and its types; the life
  of a connection; the theorems about it.
- `ParserStateProofs`, `ParserTreeProofs`, `ParserProgressProofs`: streams, verdicts, the buffer and
  the frames of the parser; its tree; how far it gets in a stream. The last two extend the first.
- `MCPipeline`, `MCConnection`, `MCRingQueue`, `MCParser`: instances for TLC.

Operators whose comment begins with "Mutant" are faulty variants of the definition that follows
them; no specification uses them. They serve to confirm that each property can fail.

### Assumptions on iocoro (not part of this repository)

- `condition_event` counts notifications and `async_wait` takes one (`connection.hpp:256`).
- Closing a socket ends its pending operation with `operation_aborted`, also one that had completed
  and not been resumed. Operations aborted with an older socket resume before a later
  `async_connect` completes (`OlderIoEnded`).
- `co_spawn(use_awaitable)`, `with_timeout` and `switch_to` resume the awaiting coroutine in a turn of
  its own; awaiting a member coroutine, or the slot of a completed handshake, does not suspend.
- `async_write_some` of a non-empty buffer writes at least one byte.

If one of these is wrong, the results about `Connection` do not carry over.

## Runs that pass

| Run | Question |
|---|---|
| `pipeline_replies` | does every reply reach the slot of its command; is `next_deadline()` the earliest |
| `pipeline_queues` | are queues, byte counter and sinks consistent, with out-of-band messages and deadlines in any order |
| `connection_faults` | does every completed read or write find what it relies on (`IoStillExpected`); lifecycle safety and `PipelineUse`; with one failure anywhere and a timed handshake |
| `connection_replies` | do replies match, and is every failure handled, across two failures and the reconnections between them |
| `connection_liveness` | do requests complete, do `connect()` and `close()` return, whatever the server does |
| `connection_no_reconnect` | does a failure end everything when reconnection is disabled |
| `ring_queue` | is the ring buffer a FIFO, are exactly its live slots constructed, is storage freed by its own allocator |
| `resp3_parser` | does the parser return every message that has arrived, as it was sent, whatever the reads; do its frames and its tree stay sound |

**What the connection runs do not cover.** Each passing connection run has ONE caller and one user
request, and limits the states in which it calls (`ConnectIn`, `CloseIn`). None calls `connect()` in
FAILED or RECONNECTING, or `close()` in INIT or CONNECTING. The safety properties hold for those
calls and not in general. In particular `ClosedIsQuiet` is false with two callers: the actor joins
its three loops but not the `do_connect()` that `connect()` spawned. If a second caller closes in
CONNECTING, TLC reaches CLOSED with that coroutine still pending, and, with two endpoints, with a
socket it opened afterwards. `connection_liveness` has no network faults; its failures are request
timeouts. `connection_replies` calls `connect()` once and never `close()`.

Bounds of the connection runs: a user request of two bytes, so that its write can be partial, and a
handshake of one; one reply each, two in `connection_replies`; two endpoints in `connection_faults`,
one elsewhere; `MaxFaults` failures and `MaxCalls` calls per caller. They admit a failure in
every stage of a connection, the reconnection that follows and a call during it. A handshake of
`connect()` that times out counts against the calls, one of `do_reconnect()` against the failures.
The largest run has 770,000 states and takes two to three minutes. The bounds do not admit
several user requests in flight on one connection; that is left to the pipeline runs and the proofs,
through `PipelineUse`, which is itself checked with one user request.

Bounds of `ring_queue`: two queues, two values, two allocators, `MaxLength` = 3 elements, and
`MinCapacity` = 1 instead of 8, so that three elements already grow the storage twice and wrap
around in it. The proofs need none of these values.

**What `resp3_parser` covers.** The limits are small (a line of 3 bytes, a bulk string of 4, a
container of 3, indices up to 5) and the buffer begins with 6 bytes instead of 4096, so that it grows
and is compacted inside short streams. Streams have one message or two, and a behaviour two
connections. The kinds `double_number` and `big_number`, whose control is that of `integer` and
`simple_string`, are not among the tokens. Three statements are limited on purpose, each by what the
code does; the theorem about `VerdictOfStream` has the same limit:

- `MessagesMatch` speaks of messages whose links lie together (`WellPlaced`): only the first element
  of an aggregate has links of its own, and there is at most one pair of attributes. The run
  `nested_links` shows the rest is not built as it was sent.
- `MessagesMatch` compares texts only up to `Garbled`; `split_views` is the run about texts.
  `ViewsHold`, which does hold, says that nothing overwrites a text while its block stays in place.
- `VerdictOfStream` leaves out messages with a line of exactly `max_resp_line_bytes`: when a read
  ends between its CR and LF the CR is counted (`parser.ipp:98`, `parser.ipp:363`) and the line is
  refused, although it is accepted as a whole.

`CHECK_DEADLOCK FALSE` is set for the connection runs (a closed or idle connection may stop) and for
the parser runs (the stream ends).

Fairness (`Connection` only): weak fairness of each coroutine's steps, of the timeout of a handshake,
of the actor's end and of the clock. The strand is a FIFO executor, so a coroutine that can go on
does; timers fire; the resolver and the TCP connect end, with their timeout or that of the system; an
operation on a closed socket is aborted. While a read or a write waits on an open socket (`Waits`,
`DcWaits`), in OPEN as in a handshake, nothing is assumed: the server need not read, answer or fail.
Nor need the application call. So each liveness property rests on what the code itself does:

- `RequestsComplete`, `CloseTerminates` and `ConnectTerminates` are checked with a request timeout,
  which is also the timeout of the handshake. It is the timeout that ends the wait for a silent server.
- `FailureIsHandled` is checked without timeouts, where nothing in the code ends a handshake that the
  server does not answer (`connect.ipp:234-243`). It says so: a failed connection is OPEN or CLOSED
  later, or the handshake of `do_reconnect()` waits for its server for ever.

## Runs that show a disagreement

| Run | What TLC shows |
|---|---|
| `nested_links` | `[a, [b]]` is built as `[a, b]`: `attach_to_parent()` appends the link of the inner element before that of the inner array, and `build_message()` reads consecutive links |
| `split_views` | an array split over two reads: the buffer grows for the second read, and the text of the first element refers to the old block when the message is built |
| `stale_actor_done` | `close()` takes the notification an earlier actor left and returns in CLOSING while its own actor runs |
| `connect_while_reconnecting` | `connect()` beside `do_reconnect()`: a request accepted on one socket is carried to the next stream |

In the instance of `connect_while_reconnecting` TLC also reaches `Halted`, with a timed handshake and
without: the handshake of `connect()` fails because `do_reconnect()` has replaced its socket, its
`clear_all()` removes the handshake request that `do_reconnect()` is writing, and that write completes
on an empty queue (`pipeline.ipp:47`). A build without assertions takes the front of an empty queue;
the model does not follow it.

The test `parse_array_nested` (`test/resp3_parser_test.cpp:91`) parses a flat array, and no parser
test has a container inside a container, so the repository's tests do not meet `nested_links`.

Further observations, from reading the code and from instances that are not kept as runs:

- A PUSH that arrives while a reply is awaited is delivered as that reply (`io.ipp:72-82`), although
  `connection.hpp:137` says that unsolicited messages "are treated as an error for now". `ReplyMatch` is
  false with `PushWhilePending = TRUE`.
- A request without commands passes `push()` and, once written, takes a reply of the next request;
  `NoOverDelivery` is false without `NonEmptyRequests`.
- `connect()` between `transition_to_closed()` and the posted completion handler (`core.ipp:155-193`)
  starts a lifecycle without an actor, which the handler closes.
- Two `close()` calls wait for one notification of `actor_done_`: the second never returns.
- `close()` in INIT returns in CLOSING (`core.ipp:291-296`).
- `do_reconnect()` writes FAILED over CLOSING (`reconnect.ipp:112`), though the diagram of
  `connection_state.hpp` leads from CLOSING to CLOSED only.
- `close()` fails pending requests (`core.ipp:279`) although `client.hpp:56` says "Waits for pending
  requests to complete."
- With two pairs of attributes the first pair is attached to the key of the second, not to the value
  that follows (`parser.hpp:127`, called for every node).
- `reset()` after the handshake (`connect.ipp:316`) drops bytes that arrived behind the last
  handshake reply.

## Proofs

Every theorem holds for all values of the constants that satisfy the `ASSUME`s of its modules. They
ask for little: limits, capacities and bounds are natural numbers, the sets of actors are disjoint,
every request holds a command (`NonEmptyRequests`, without which `NoOverDelivery` is false), the
buffer asks for at least one byte at a time, and the clock can count the requests (`TimeMax`). The
number of requests, callers, queues, streams, tokens, faults and calls is not bounded.

**Ring queue** (`RingQueueProofs`). `RingInv` says of each queue that its fields have their shape,
that exactly the slots of the window hold objects, and where its storage came from; it is inductive
as a whole. The argument is arithmetic: for a head below the capacity, the slots of a window are
distinct. `RingsKeepShape`, `SlotsStayLive` and `StorageFindsHome` follow. `RingIsFifo` is the
refinement: one lemma per operation says what it does to the abstract content.

**Pipeline** (`PipelineProofs`), for all requests, limits, splits over writes and reconnections.

- `QueueInv` is `TypeOK`, `QueueDiscipline` and `BytesAccounted`, which are inductive only together:
  `TypeOK` bounds the byte counter, which needs the accounting, which needs that only the front
  request is partly written. It gives `TypesKept`, `QueuesInOrder`, `BytesAddUp` and
  `NeverOverDelivers`. `BytesAccounted` is stated with suffix sums.
- `StreamInv` adds `StreamMatch`, that server and pipeline agree on what comes next; without it
  `ReplyMatch` is not inductive. `EndsAgree` and `RepliesMatch` need a server that sends only replies
  (`PushWhilePending = FALSE`).
- `DeadlineInv` adds that deadlines never decrease along `awaiting_read`, then `pending_write`.
  `DeadlinesWatched` needs deadlines that are pushed in order (`FifoDeadlines = TRUE`).

**Connection** (`ConnectionProofs`).

- However it is used, with any number of callers that connect and close in any state, also as the
  runs that show violations use it, until an assertion fails: `ActorTypes` and `HandshakesOwned`. The
  invariant is `BaseInv`: `QueueInv`, `NoOverDelivery`, `ConnTypeOK`, `Places` (a `do_connect()`
  exists exactly while its owner awaits it, the loops exactly while the actor runs) and `Asked`
  (whose requests are queued).
- Used as `SingleUser` says: one caller at a time, no `connect()` in FAILED or RECONNECTING, and one
  `connect()` only if reconnection is disabled. All passing connection runs are such uses, and
  `connect_while_reconnecting` and `stale_actor_done` show what is lost otherwise. Then `IoExpected`,
  `PipelineSound`, `OneIo`,
  `QueuedInOpen`, `QuietInClosed`, `ServedInOpen`, `EventsInTurn`, `NothingCarried` and
  `JoinsEndClosed` hold, and `ClosesJoin` if `close()` is not called in INIT. `IoExpected` and
  `PipelineSound` include that `Halted` is not reached: no read or write ends in a failed assertion,
  and the pipeline is consistent because of how the connection uses it. `NothingCarried` and
  `JoinsEndClosed` state the very properties that those two runs violate. The invariant is
  `ServiceInv`: `Life` (who may change the state), `Stops` (what the stop source, the actor and its
  completion say of the state), `Ios` (which socket a pending operation belongs to), `Streams` (who
  reads from and writes to the live stream, and that its request is queued), `Events` and `Queues`. The parts need each other: that the loops have no operation pending during a handshake
  needs the state, which needs that only one `do_connect()` runs, which needs that the stop source
  and the actor belong to the same lifecycle.
- `UsesPipeline`: every step of the connection is a step of `PipelinePeer` or a stutter. It needs
  `ServiceInv` and `Deadlines`: no queued request has a later deadline than the last one enqueued.
  Through it the theorems about the pipeline hold inside the connection: `RepliesOfConnection` and
  `TimeoutsOfConnection`, across failures, reconnections and `close()`.

**Parser** (`ParserStateProofs`, then `ParserTreeProofs` and `ParserProgressProofs`), for all streams
of tokens, well formed or not and nested to any depth, all limits, all sizes of the buffer, and all
ways to cut the stream into reads. The invariant has six parts. The first four are `StateInv`;
`Progress` and `TreeInv` are each preserved given `StateInv`, and need nothing of each other.

- `Types`: `ParserTypeOK` without its last conjunct, what was handed out has a type, and the flags of
  the parser follow its program counter.
- `Unread`: the unread bytes are the last `size()` bytes that were committed. `Views`: the text of a
  node lies below the write position and is what was parsed, unless the block has changed. They give
  `UnreadBytesKept` and `TextsStay`.
- `FramesInv`: each frame counts less than it expects, and a value frame has another frame on it
  exactly if that is the frame of an attribute that precedes the value. From it `FramesAlwaysFit`.
- `Progress`: the consumed bytes are whole tokens of the stream, all of them well formed, and the
  frames together wait for exactly as many values as the message under way still needs at that
  place. This is the step from a stack of counters to the grammar of the stream; the sum over the
  stack is a function constrained at each level (`Sums`). `NoMessageStalls`, `SameVerdict` and
  `ParserTypes`, with its bound on the number of messages, follow: at the place where `parse_one()`
  asks for more or fails, the token at the front of the buffer is the one the stream has there, and a
  verdict about a part of a token is the verdict about the whole token or "need", but for a line of
  exactly `max_resp_line_bytes` (`VerdictFacts`).
- `TreeInv`: every node is complete except those that a frame drives; such a frame counts the links of
  its node; and no link, key or attribute names a node that is not complete. The links of a complete
  node come before every link to it, since it is linked when it is complete. From it `TreesSound`.

Facts about all positions of a stream or a stack are proved with `Induct`, induction over the
natural numbers with a set in the place of a predicate, from the existence of least elements. The
layout of a stream is a recursive function; `Recursion` proves that it exists.

**Only model-checked.** The liveness properties (`RequestsComplete`, `CloseTerminates`,
`ConnectTerminates`, `FailureIsHandled`), since the prover does not treat fairness. `MessagesMatch`, which compares two
recursive operators, `build_message` and `Decode`: it would need induction over trees. What is proved
of the trees is that the walk over them is safe and ends (`TreesSound`); what they denote is checked
for the streams of `MCParser`.

## Not modelled

Adapters and response types (compile-time dispatch, no state); the accessors of messages and the
visitor (they only read); how digits are parsed and formatted; the request encoder beyond "each
command adds bytes and one reply"; floating-point backoff, jitter and `sanitize_reconnection_policy`
(the delay is zero or not); the destructor of a connection; an actor that ends with an exception;
exceptions in the enqueue front end; elements of a ring queue whose move throws; tracing, logging and
the wording of errors; the thread pool behind the resolver. `Connection` and `Resp3Parser` are not
composed: in `Connection` a read yields a message, an error or nothing, and `Resp3Parser` says which.
Overflow of `std::size_t` in the growth of buffers is left out: memory ends first. The same holds for
`std::uint32_t` indices of nodes and links, which a message of more than 2^32 values would exceed.
