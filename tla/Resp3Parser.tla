---------------------------- MODULE Resp3Parser ----------------------------
(***************************************************************************)
(* resp3::parser with its buffer and raw tree, driven the way do_read()    *)
(* and do_handshake() drive it: prepare(), a read of any number of bytes,  *)
(* commit(), then parse_one(), build_message() and reclaim() until it asks *)
(* for more; reset() when the connection is replaced.                      *)
(*                                                                         *)
(* The stream is a sequence of tokens (a scalar, or the header of an       *)
(* aggregate) with their true lengths in bytes, so that a read may end     *)
(* inside any of them.  What a scalar says is a value of its own.  The     *)
(* loops of parse_one() and attach_to_parent() are steps: one for each     *)
(* iteration.  Indices of nodes and links start at 1.                      *)
(***************************************************************************)
EXTENDS Resp3Buffer

CONSTANTS Streams,                  \* what a server may send
          Texts,                    \* what a scalar may say
          max_resp_line_bytes, max_resp_bulk_bytes, max_resp_container_len,
          max_u32,                  \* the largest index of raw_tree
          Garbled,                  \* what a text reads as when its bytes have gone
          MaxStreams                \* bound: connections in one behaviour

VARIABLES stream,    \* the tokens the server sends on the current connection
          gen,       \* the number of the connection
          fed,       \* how many bytes of it have been committed
          buf_, tree_, stack_, pending_attrs_, tree_ready_, failed_,
          child,     \* the node that attach_to_parent() attaches, and the root
          result,    \* what parse_one() returned last
          out,       \* the trees handed out on this connection
          pc         \* where the caller, and the parser within parse_one(), stand

vars == <<stream, gen, fed, buf_, tree_, stack_, pending_attrs_, tree_ready_, failed_,
          child, result, out, pc>>

-----------------------------------------------------------------------------
(* Tokens *)

Sequential == {"array", "set", "push"}
Containers == Sequential \cup {"map"}
Bulk == {"bulk_string", "bulk_error", "verbatim_string"}

\* The kinds whose node keeps a string_view into the buffer as its value.
Textual == {"simple_string", "simple_error", "big_number"} \cup Bulk

Kinds == Containers \cup Textual
            \cup {"attribute", "null", "boolean", "integer", "double_number", "none"}

ProtocolErrors == {"invalid_type_byte", "invalid_length", "invalid_null", "invalid_boolean",
                   "invalid_bulk_trailer", "invalid_verbatim", "invalid_integer", "invalid_double"}

\* line: bytes between type byte and CRLF; len: the declared length; says: the
\* payload; err: what is wrong with the token, or "ok".  A token of kind "none"
\* begins with a byte that is not a type byte.
Tokens == [kind : Kinds, line : Nat, len : Int, says : Texts, err : ProtocolErrors \cup {"ok"}]

ASSUME ParserAssumption ==
    /\ Streams \subseteq Seq(Tokens)
    /\ max_resp_line_bytes \in Nat /\ max_resp_bulk_bytes \in Nat
    /\ max_resp_container_len \in Nat /\ max_u32 \in Nat
    /\ MaxStreams \in Nat

Bytes(t) ==
    CASE t.kind = "null" -> 3
      [] t.kind = "boolean" -> 4
      [] t.kind \in Bulk /\ t.len >= 0 -> 1 + t.line + 2 + t.len + 2
      [] OTHER -> 1 + t.line + 2

\* How many values belong to the aggregate that t begins.
Inner(t) ==
    CASE t.kind \in {"map", "attribute"} /\ t.len > 0 -> 2 * t.len
      [] t.kind \in Sequential /\ t.len > 0 -> t.len
      [] OTHER -> 0

\* The place of a token: the number of its first byte, how many values the message
\* under way still needs (0 between two messages), and how many messages came before.
FirstPlace == [first |-> 1, owed |-> 0, done |-> 0]

NextPlace(l, t) ==
    LET due == IF l.owed = 0 THEN 1 ELSE l.owed
        owed == due + Inner(t) - (IF t.kind = "attribute" THEN 0 ELSE 1)
    IN  [first |-> l.first + Bytes(t), owed |-> owed,
         done |-> IF owed = 0 THEN l.done + 1 ELSE l.done]

\* The places of the tokens of every stream, and the place behind the last one.
Layout ==
    [s \in Streams |->
        LET place[i \in 1..(Len(s) + 1)] ==
                IF i = 1 THEN FirstPlace ELSE NextPlace(place[i - 1], s[i - 1])
        IN  place]

End(s) == Layout[s][Len(s) + 1]

\* Byte i of the stream of the current connection.
Byte(i) == <<gen, i>>

\* The token whose first byte is the first unread one of the buffer.
Unknown == [kind |-> "none", line |-> 0, len |-> 0, says |-> Garbled, err |-> "ok"]

FrontToken ==
    LET at == {i \in 1..Len(stream) :
                 buf_.mem[buf_.read_pos + 1] = Byte(Layout[stream][i].first)}
    IN  IF at = {} THEN Unknown ELSE stream[CHOOSE i \in at : TRUE]

-----------------------------------------------------------------------------
(* What parse_value() decides about the token at the front, given that avail   *)
(* bytes are there: "need" (more bytes), an error, or "ok".                     *)

is_representable_length(k, len) ==
    IF k \in Sequential THEN len <= max_u32 ELSE len <= max_u32 \div 2

\* Mutant: the type byte counts as part of the line.
LineVerdict_type_byte(t, avail) ==
    CASE avail >= 1 + t.line + 2 /\ t.line > max_resp_line_bytes -> "invalid_length"
      [] avail >= 1 + t.line + 2 /\ t.line <= max_resp_line_bytes -> "ok"
      [] avail < 1 + t.line + 2 /\ avail > max_resp_line_bytes -> "invalid_length"
      [] OTHER -> "need"

\* The line after the type byte, for lengths and for line-like values.
LineVerdict(t, avail) ==
    CASE avail >= 1 + t.line + 2 /\ t.line > max_resp_line_bytes -> "invalid_length"
      [] avail >= 1 + t.line + 2 /\ t.line <= max_resp_line_bytes -> "ok"
      [] avail < 1 + t.line + 2 /\ avail - 1 > max_resp_line_bytes -> "invalid_length"
      [] OTHER -> "need"

parse_length_after_type(t, avail) ==
    IF LineVerdict(t, avail) = "ok" /\ t.err = "invalid_length"
      THEN "invalid_length" ELSE LineVerdict(t, avail)

ContainerVerdict(t) ==
    IF \/ t.len < -1 \/ t.len > max_resp_container_len
       \/ t.len >= 0 /\ ~is_representable_length(t.kind, t.len)
      THEN "invalid_length" ELSE "ok"

AttributeVerdict(t) ==
    IF t.len < 0 \/ t.len > max_resp_container_len \/ ~is_representable_length(t.kind, t.len)
      THEN "invalid_length" ELSE "ok"

\* Mutant: the trailing CRLF is not waited for.
BulkVerdict_no_trailer(t, avail) ==
    CASE t.len < -1 \/ t.len > max_resp_bulk_bytes -> "invalid_length"
      [] t.len = -1 -> "ok"
      [] t.len \in 0..max_resp_bulk_bytes /\ avail < Bytes(t) - 2 -> "need"
      [] OTHER -> t.err

\* Mutant: one byte more than the value is waited for.
BulkVerdict_one_more(t, avail) ==
    CASE t.len < -1 \/ t.len > max_resp_bulk_bytes -> "invalid_length"
      [] t.len = -1 -> "ok"
      [] t.len \in 0..max_resp_bulk_bytes /\ avail <= Bytes(t) -> "need"
      [] OTHER -> t.err

\* The payload of a bulk-like value: it stays in the buffer, header included,
\* until all of it is there.
BulkVerdict(t, avail) ==
    CASE t.len < -1 \/ t.len > max_resp_bulk_bytes -> "invalid_length"
      [] t.len = -1 -> "ok"
      [] t.len \in 0..max_resp_bulk_bytes /\ avail < Bytes(t) -> "need"
      [] OTHER -> t.err

Verdict(t, avail) ==
    LET header == parse_length_after_type(t, avail)
    IN  CASE t.kind = "none" -> "invalid_type_byte"
          [] t.kind \in {"null", "boolean"} -> IF avail < Bytes(t) THEN "need" ELSE t.err
          [] t.kind = "attribute" -> IF header = "ok" THEN AttributeVerdict(t) ELSE header
          [] t.kind \in Containers -> IF header = "ok" THEN ContainerVerdict(t) ELSE header
          [] t.kind \in Bulk -> IF header = "ok" THEN BulkVerdict(t, avail) ELSE header
          [] OTHER -> IF LineVerdict(t, avail) = "ok" THEN t.err ELSE LineVerdict(t, avail)

\* The header of an aggregate is consumed before its length is judged.
HeaderGone(t, avail) ==
    t.kind \in Containers \cup {"attribute"} /\ parse_length_after_type(t, avail) = "ok"

\* What parse_value() decides about the unread bytes of the buffer.
Decision == IF size(buf_) = 0 THEN "need" ELSE Verdict(FrontToken, size(buf_))

-----------------------------------------------------------------------------
(* The tree and the frames *)

NewTree == [nodes |-> <<>>, links |-> <<>>]

NoAttributes == [first |-> 1, count |-> 0]

Frame(state, expected, node) ==
    [state |-> state, expected |-> expected, produced |-> 0, node |-> node, pending_key |-> 0]

ValueFrame == Frame("value", 0, 0)

\* The last frame, and the frames without it.
back(st) == st[Len(st)]

pop_back(st) == SubSeq(st, 1, Len(st) - 1)

ReplaceTop(st, f) == Append(pop_back(st), f)

\* The node of the token at the front, with the attributes that are pending; its text
\* is a view of the buffer behind the type byte or the header.
RawNode(t) ==
    LET at == buf_.read_pos + 1 + (IF t.kind \in Bulk /\ t.len >= 0 THEN 1 + t.line + 2 ELSE 1)
    IN  [kind |-> t.kind, len |-> t.len, says |-> t.says,
         storage |-> buf_.storage, at |-> at, byte |-> buf_.mem[at],
         first_child |-> IF t.kind \in Containers /\ t.len >= 0 THEN Len(tree_.links) + 1 ELSE 1,
         child_count |-> 0,
         first_attr |-> pending_attrs_.first, attr_count |-> pending_attrs_.count]

AddNode(t) ==
    /\ tree_' = [tree_ EXCEPT !.nodes = Append(@, RawNode(t))]
    /\ pending_attrs_' = NoAttributes

NewIndex == Len(tree_.nodes) + 1

\* Mutant: first_child stays what it was when the container began.
LinkChildren_from_start(n, children, count) ==
    [tree_ EXCEPT !.nodes[n].child_count = count, !.links = @ \o children]

\* Mutant: first_child is taken after the link was added.
LinkChildren_late(n, children, count) ==
    [tree_ EXCEPT !.nodes[n].first_child =
                      IF tree_.nodes[n].child_count = 0 THEN Len(tree_.links) + 2 ELSE @,
                  !.nodes[n].child_count = count,
                  !.links = @ \o children]

\* The children are linked to node n when they are complete.
LinkChildren(n, children, count) ==
    [tree_ EXCEPT !.nodes[n].first_child =
                      IF tree_.nodes[n].child_count = 0 THEN Len(tree_.links) + 1 ELSE @,
                  !.nodes[n].child_count = count,
                  !.links = @ \o children]

\* Mutant: the attribute frame takes the place of the value frame.
start_attribute_in_place(t) ==
    IF t.len = 0 THEN stack_ ELSE ReplaceTop(stack_, Frame("attribute", t.len, 0))

\* The pairs of an attribute come before the value whose frame is below.
start_attribute(t) ==
    IF t.len = 0 THEN stack_ ELSE Append(stack_, Frame("attribute", t.len, 0))

\* The value frame becomes the frame that drives the elements of the new node.
start_container(t) ==
    ReplaceTop(stack_, Frame(IF t.kind = "map" THEN "map_key" ELSE "array", t.len, NewIndex))

\* pending_attributes::push of the nodes kv.
push(p, links, kv) ==
    [first |-> IF p.count = 0 THEN Len(links) + 1 ELSE p.first, count |-> p.count + Len(kv)]

\* What the text of a node reads as, in the memory as it is now.
Text(node) ==
    IF \/ node.kind \notin Textual
       \/ node.storage = buf_.storage /\ buf_.mem[node.at] = node.byte
      THEN node.says ELSE Garbled

-----------------------------------------------------------------------------
(* The caller *)

ParserInit ==
    /\ stream \in Streams
    /\ gen = 1 /\ fed = 0
    /\ buf_ = NewBuffer
    /\ tree_ = NewTree /\ stack_ = <<>> /\ pending_attrs_ = NoAttributes
    /\ tree_ready_ = FALSE /\ failed_ = FALSE
    /\ child = 0 /\ result = "none"
    /\ out = <<>>
    /\ pc = "read"

\* The caller prepares the buffer and suspends in the read.
Prepare ==
    /\ pc = "read"
    /\ \E new \in Capacities(buf_) : GrowsTo(buf_, new) /\ buf_' = prepare(buf_, new)
    /\ pc' = "reading"
    /\ UNCHANGED <<stream, gen, fed, tree_, stack_, pending_attrs_, tree_ready_, failed_,
                   child, result, out>>

\* The read ends with n bytes.
Commit(n) ==
    /\ pc = "reading"
    /\ n <= Writable(buf_) /\ fed + n < End(stream).first
    /\ buf_' = commit(buf_, [i \in 1..n |-> Byte(fed + i)])
    /\ fed' = fed + n
    /\ pc' = "parse"
    /\ UNCHANGED <<stream, gen, tree_, stack_, pending_attrs_, tree_ready_, failed_,
                   child, result, out>>

\* The caller builds the message, of which on_message() copies the texts before it
\* returns, and calls reclaim().
Consume ==
    /\ pc = "consume"
    /\ out' = Append(out, [tree |-> tree_, root |-> child,
                           texts |-> [n \in DOMAIN tree_.nodes |-> Text(tree_.nodes[n])]])
    /\ tree_' = NewTree /\ stack_' = <<>> /\ pending_attrs_' = NoAttributes
    /\ tree_ready_' = FALSE
    /\ buf_' = compact(buf_)
    /\ child' = 0
    /\ pc' = "parse"
    /\ UNCHANGED <<stream, gen, fed, failed_, result>>

\* reset(), and a new stream: the connection was lost or given up while a read
\* waited, after an error, or with a message nobody waited for; or the handshake is
\* complete, and what the server sends from now on answers the runtime loops.
Reset(s) ==
    /\ \/ pc \in {"reading", "failed", "consume"}
       \/ pc = "parse" /\ Len(out) = End(stream).done
    /\ gen < MaxStreams
    /\ stream' = s /\ gen' = gen + 1 /\ fed' = 0
    /\ buf_' = reset(buf_)
    /\ tree_' = NewTree /\ stack_' = <<>> /\ pending_attrs_' = NoAttributes
    /\ tree_ready_' = FALSE /\ failed_' = FALSE
    /\ child' = 0 /\ result' = "none"
    /\ out' = <<>>
    /\ pc' = "read"

-----------------------------------------------------------------------------
(* parse_one() *)

\* parse_one() before the tree was reclaimed, or after an error.
ParseRefused ==
    /\ pc \in {"parse", "consume", "failed"}
    /\ tree_ready_ \/ failed_
    /\ result' = IF tree_ready_ THEN "tree_not_consumed" ELSE "parser_failed"
    /\ pc' = IF pc = "parse" THEN "failed" ELSE pc
    /\ UNCHANGED <<stream, gen, fed, buf_, tree_, stack_, pending_attrs_, tree_ready_, failed_,
                   child, out>>

ParseOne ==
    /\ pc = "parse" /\ ~tree_ready_ /\ ~failed_
    /\ stack_' = IF stack_ = <<>> THEN <<ValueFrame>> ELSE stack_
    /\ pc' = "loop"
    /\ UNCHANGED <<stream, gen, fed, buf_, tree_, pending_attrs_, tree_ready_, failed_,
                   child, result, out>>

\* A frame of an aggregate is driven by the values in it.
DriveValue ==
    /\ pc = "loop" /\ stack_ # <<>> /\ back(stack_).state # "value"
    /\ stack_' = Append(stack_, ValueFrame)
    /\ UNCHANGED <<stream, gen, fed, buf_, tree_, pending_attrs_, tree_ready_, failed_,
                   child, result, out, pc>>

\* The value frame is on top: parse_value() looks at the buffer.
ParsingValue == pc = "loop" /\ stack_ # <<>> /\ back(stack_).state = "value"

NeedMore ==
    /\ ParsingValue /\ Decision = "need"
    /\ result' = "need"
    /\ pc' = "read"
    /\ UNCHANGED <<stream, gen, fed, buf_, tree_, stack_, pending_attrs_, tree_ready_, failed_,
                   child, out>>

ParseFails ==
    /\ ParsingValue /\ Decision \notin {"need", "ok"}
    /\ result' = Decision
    /\ failed_' = TRUE
    /\ buf_' = IF HeaderGone(FrontToken, size(buf_)) THEN consume(buf_, Bytes(FrontToken))
               ELSE buf_
    /\ pc' = "failed"
    /\ UNCHANGED <<stream, gen, fed, tree_, stack_, pending_attrs_, tree_ready_, child, out>>

AcceptAttribute ==
    /\ ParsingValue /\ Decision = "ok" /\ FrontToken.kind = "attribute"
    /\ buf_' = consume(buf_, Bytes(FrontToken))
    /\ stack_' = start_attribute(FrontToken)
    /\ UNCHANGED <<stream, gen, fed, tree_, pending_attrs_, tree_ready_, failed_,
                   child, result, out, pc>>

AcceptContainer ==
    /\ ParsingValue /\ Decision = "ok"
    /\ FrontToken.kind \in Containers /\ FrontToken.len > 0
    /\ buf_' = consume(buf_, Bytes(FrontToken))
    /\ AddNode(FrontToken)
    /\ stack_' = start_container(FrontToken)
    /\ UNCHANGED <<stream, gen, fed, tree_ready_, failed_, child, result, out, pc>>

\* A scalar, a null or an empty aggregate is a complete value.
AcceptValue ==
    /\ ParsingValue /\ Decision = "ok"
    /\ FrontToken.kind # "attribute"
    /\ FrontToken.kind \in Containers => FrontToken.len <= 0
    /\ buf_' = consume(buf_, Bytes(FrontToken))
    /\ AddNode(FrontToken)
    /\ stack_' = pop_back(stack_)
    /\ child' = NewIndex
    /\ pc' = "attach"
    /\ UNCHANGED <<stream, gen, fed, tree_ready_, failed_, result, out>>

-----------------------------------------------------------------------------
(* attach_to_parent() *)

Attaching(state) == pc = "attach" /\ stack_ # <<>> /\ back(stack_).state = state

\* Nothing encloses the value: it is the root.
AttachRoot ==
    /\ pc = "attach" /\ stack_ = <<>>
    /\ tree_ready_' = TRUE
    /\ result' = "message"
    /\ pc' = "consume"
    /\ UNCHANGED <<stream, gen, fed, buf_, tree_, stack_, pending_attrs_, failed_, child, out>>

\* f is the innermost frame, with one more of its elements or pairs complete. The
\* container that is complete goes to the frame below.
Produced(f) ==
    IF f.produced = f.expected
      THEN stack_' = pop_back(stack_) /\ child' = f.node /\ pc' = "attach"
      ELSE stack_' = Append(ReplaceTop(stack_, f), ValueFrame) /\ child' = 0 /\ pc' = "loop"

AttachElement ==
    /\ Attaching("array")
    /\ LET f == [back(stack_) EXCEPT !.produced = @ + 1]
       IN  tree_' = LinkChildren(f.node, <<child>>, f.produced) /\ Produced(f)
    /\ UNCHANGED <<stream, gen, fed, buf_, pending_attrs_, tree_ready_, failed_, result, out>>

\* The key of a pair waits in the frame for its value.
KeepKey(state) ==
    /\ stack_' = Append(ReplaceTop(stack_, [back(stack_) EXCEPT !.state = state,
                                                               !.pending_key = child]), ValueFrame)
    /\ child' = 0
    /\ pc' = "loop"
    /\ UNCHANGED <<stream, gen, fed, buf_, tree_, pending_attrs_, tree_ready_, failed_, result, out>>

AttachKey == Attaching("map_key") /\ KeepKey("map_value")

AttachEntry ==
    /\ Attaching("map_value")
    /\ LET f == [back(stack_) EXCEPT !.state = "map_key", !.produced = @ + 1, !.pending_key = 0]
       IN  /\ tree_' = LinkChildren(f.node, <<back(stack_).pending_key, child>>, 2 * f.produced)
           /\ Produced(f)
    /\ UNCHANGED <<stream, gen, fed, buf_, pending_attrs_, tree_ready_, failed_, result, out>>

AttachAttributeKey ==
    Attaching("attribute") /\ back(stack_).pending_key = 0 /\ KeepKey("attribute")

\* The pair is pending until the next node is added.
AttachAttribute ==
    /\ Attaching("attribute") /\ back(stack_).pending_key # 0
    /\ LET f == [back(stack_) EXCEPT !.produced = @ + 1, !.pending_key = 0]
           kv == <<back(stack_).pending_key, child>>
       IN  /\ pending_attrs_' = push(pending_attrs_, tree_.links, kv)
           /\ tree_' = [tree_ EXCEPT !.links = @ \o kv]
           /\ stack_' = IF f.produced = f.expected THEN pop_back(stack_)
                        ELSE Append(ReplaceTop(stack_, f), ValueFrame)
    /\ child' = 0
    /\ pc' = "loop"
    /\ UNCHANGED <<stream, gen, fed, buf_, tree_ready_, failed_, result, out>>

ParserNext ==
    \/ Prepare
    \/ \E n \in 1..(End(stream).first - 1) : Commit(n)
    \/ ParseRefused
    \/ ParseOne
    \/ DriveValue
    \/ NeedMore
    \/ ParseFails
    \/ AcceptAttribute
    \/ AcceptContainer
    \/ AcceptValue
    \/ AttachRoot
    \/ AttachElement
    \/ AttachKey
    \/ AttachEntry
    \/ AttachAttributeKey
    \/ AttachAttribute
    \/ Consume
    \/ \E s \in Streams : Reset(s)

ParserSpec == ParserInit /\ [][ParserNext]_vars

-----------------------------------------------------------------------------
(* Properties *)

\* What a token is worth when all of it is at hand.
Whole(t) == Verdict(t, Bytes(t))

Nodes == [kind : Kinds, len : Int, says : Texts, storage : Nat, at : Nat,
          byte : (Nat \X Nat) \cup {NoByte}, first_child : Nat, child_count : Nat,
          first_attr : Nat, attr_count : Nat]

Frames == [state : {"value", "array", "map_key", "map_value", "attribute"},
           expected : Nat, produced : Nat, node : Nat, pending_key : Nat]

ParserTypeOK ==
    /\ stream \in Streams /\ gen \in Nat /\ fed \in Nat /\ fed < End(stream).first
    /\ buf_ \in [mem : Seq((Nat \X Nat) \cup {NoByte}), storage : Nat,
                 read_pos : Nat, write_pos : Nat]
    /\ buf_.read_pos <= buf_.write_pos /\ buf_.write_pos <= Capacity(buf_)
    /\ tree_ \in [nodes : Seq(Nodes), links : Seq(Nat)]
    /\ stack_ \in Seq(Frames)
    /\ pending_attrs_ \in [first : Nat, count : Nat]
    /\ tree_ready_ \in BOOLEAN /\ failed_ \in BOOLEAN /\ child \in Nat
    /\ pc \in {"read", "reading", "parse", "loop", "attach", "consume", "failed"}
    /\ Len(out) <= End(stream).done

\* A message that has arrived is never left in the buffer: whenever the caller
\* waits for more bytes, parse_one() has returned every message of which the last
\* byte has been read.
NoStall ==
    pc = "reading" =>
        \A i \in 1..(Len(stream) + 1) :
            Layout[stream][i].first <= fed + 1 => Len(out) >= Layout[stream][i].done

\* The verdict does not depend on how the bytes arrive, nor on what happened on
\* an earlier connection: parse_one() fails only on the first token that is faulty
\* when all of it is at hand, with the same error, after every message before it
\* was handed out. A line of exactly max_resp_line_bytes is left out: parser.ipp 98
\* and 363 count its '\r' when the read ends before the '\n', and refuse what is
\* accepted as a whole.
VerdictOfStream ==
    pc = "failed" =>
        \E i \in 1..Len(stream) :
            /\ Layout[stream][i].done = Len(out)
            /\ \A j \in 1..(i - 1) : Whole(stream[j]) = "ok"
            /\ \/ Whole(stream[i]) # "ok" /\ result \in {Whole(stream[i]), "parser_failed"}
               \/ stream[i].line = max_resp_line_bytes

\* The unread bytes of the buffer are the last bytes that were read, in order,
\* through growth, compaction and reset().
UnreadKept ==
    \A i \in 1..size(buf_) :
        buf_.mem[buf_.read_pos + i] = Byte(fed - size(buf_) + i)

\* No operation writes where a node of the tree points to: as long as the buffer
\* has not moved to another block, each text is still the text that was parsed.
ViewsHold ==
    \A n \in DOMAIN tree_.nodes :
        LET node == tree_.nodes[n]
        IN  node.kind \in Textual /\ node.storage = buf_.storage
                => node.at <= buf_.write_pos /\ buf_.mem[node.at] = node.byte

\* The frames fit what parse_one() and attach_to_parent() expect of them, however
\* values, containers and attributes are nested and cut into reads: neither
\* invalid_state (parser.ipp 520 and 500) nor invalid_map_pairs (452) is ever
\* returned, and no aggregate gets more elements than it announced.
FramesFit ==
    /\ pc = "loop" => stack_ # <<>>
    /\ pc = "attach" /\ stack_ # <<>> =>
          /\ back(stack_).state # "value"
          /\ back(stack_).state = "map_value" => back(stack_).pending_key # 0
    /\ \A j \in DOMAIN stack_ :
          stack_[j].state # "value" => stack_[j].produced < stack_[j].expected

\* build_message() can walk every tree that parse_one() hands out: the links of
\* every node lie within raw_tree::links (builder.hpp 153 and 170 never throw); a
\* link names a node whose own links come before it, so that the walk ends; an
\* aggregate has as many links as it announced and a scalar has none, and links to
\* attributes come in pairs (the assertions of builder.hpp 141, 145 and 235).
TreeSound ==
    LET nodes == tree_.nodes
        links == tree_.links
        Before(n, q) == /\ nodes[n].first_child + nodes[n].child_count <= q
                        /\ nodes[n].first_attr + nodes[n].attr_count <= q
    IN  /\ \A q \in DOMAIN links : links[q] \in DOMAIN nodes /\ Before(links[q], q)
        /\ pc = "consume" =>
              /\ child \in DOMAIN nodes
              /\ \A n \in DOMAIN nodes :
                    /\ Before(n, Len(links) + 1)
                    /\ nodes[n].kind # "attribute"
                    /\ nodes[n].child_count = Inner(nodes[n])
                    /\ nodes[n].attr_count % 2 = 0

=============================================================================
