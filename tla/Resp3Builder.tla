---------------------------- MODULE Resp3Builder ----------------------------
(***************************************************************************)
(* resp3::build_message(): the value that a raw tree denotes, and what the *)
(* bytes of a stream mean, against which it is compared.  The code walks   *)
(* the tree with a stack of its own; here the walk is a recursion.         *)
(***************************************************************************)
EXTENDS Resp3Parser, SequencesExt

\* The kinds of which a typed null exists ($-1, *-1 ...).
is_typed_null_kind(k) == k \in Bulk \cup Containers

\* Children and attributes as stored by the parser: count links from first on.
Linked(links, first, count) == [i \in 1..count |-> links[first + i - 1]]

\* Alternating keys and values as pairs.
Pairs(s) == [i \in 1..(Len(s) \div 2) |-> <<s[2 * i - 1], s[2 * i]>>]

\* A value: its kind, what it says, its elements or pairs and its attributes.
Value(k, says, elements, attrs) == [kind |-> k, says |-> says, elements |-> elements, attrs |-> attrs]

\* The message of node n; texts[i] is what the text of node i reads as now.
RECURSIVE build_message(_, _, _, _)
build_message(nodes, links, texts, n) ==
    LET node == nodes[n]
        Built(first, count) ==
            [i \in 1..count |-> build_message(nodes, links, texts, Linked(links, first, count)[i])]
        children == Built(node.first_child, node.child_count)
        attrs == Pairs(Built(node.first_attr, node.attr_count))
    IN  CASE is_typed_null_kind(node.kind) /\ node.len = -1 ->
               Value("null", node.kind, <<>>, attrs)
          [] node.kind = "map" /\ node.len >= 0 -> Value("map", "", Pairs(children), attrs)
          [] node.kind \in Sequential /\ node.len >= 0 -> Value(node.kind, "", children, attrs)
          [] OTHER -> Value(node.kind, texts[n], <<>>, attrs)

\* The i-th message that the caller built on this connection.
Message(i) == build_message(out[i].tree.nodes, out[i].tree.links, out[i].texts, out[i].root)

-----------------------------------------------------------------------------
(* What the bytes mean: the messages of a stream, decoded from its tokens      *)

RECURSIVE DecodeMany(_, _, _)
RECURSIVE Decode(_, _)
\* The value that begins at token i, and the token after it.
Decode(m, i) ==
    LET t == m[i]
        content == DecodeMany(m, i + 1, IF t.kind \in {"map", "attribute"} THEN 2 * t.len ELSE t.len)
        next == Decode(m, content.next)
    IN  CASE t.kind = "attribute" ->
               [value |-> [next.value EXCEPT !.attrs = Pairs(content.values) \o @],
                next |-> next.next]
          [] is_typed_null_kind(t.kind) /\ t.len = -1 ->
               [value |-> Value("null", t.kind, <<>>, <<>>), next |-> i + 1]
          [] t.kind = "map" /\ t.len >= 0 ->
               [value |-> Value("map", "", Pairs(content.values), <<>>), next |-> content.next]
          [] t.kind \in Sequential /\ t.len >= 0 ->
               [value |-> Value(t.kind, "", content.values, <<>>), next |-> content.next]
          [] OTHER -> [value |-> Value(t.kind, t.says, <<>>, <<>>), next |-> i + 1]
DecodeMany(m, i, n) ==
    IF n <= 0 THEN [values |-> <<>>, next |-> i]
    ELSE LET first == Decode(m, i)
             rest == DecodeMany(m, first.next, n - 1)
         IN  [values |-> <<first.value>> \o rest.values, next |-> rest.next]

\* The tokens of message k of s, and its meaning if none of them is faulty.
TokensOf(s, k) == {i \in 1..Len(s) : Layout[s][i].done = k - 1}
Meaning ==
    [s \in Streams |->
        [k \in 1..End(s).done |->
            IF \A i \in TokensOf(s, k) : Whole(s[i]) = "ok"
              THEN Decode(s, CHOOSE i \in TokensOf(s, k) : \A j \in TokensOf(s, k) : i <= j).value
              ELSE Value("none", Garbled, <<>>, <<>>)]]

\* The same value, except that texts may have been garbled.
RECURSIVE Alike(_, _)
Alike(v, w) ==
    /\ v.kind = w.kind
    /\ v.says \in {w.says, Garbled}
    /\ Len(v.elements) = Len(w.elements) /\ Len(v.attrs) = Len(w.attrs)
    /\ \A i \in DOMAIN v.attrs : \A j \in {1, 2} : Alike(v.attrs[i][j], w.attrs[i][j])
    /\ \A i \in DOMAIN v.elements :
          IF v.kind = "map"
            THEN \A j \in {1, 2} : Alike(v.elements[i][j], w.elements[i][j])
            ELSE Alike(v.elements[i], w.elements[i])

\* A value without links of its own.
Flat(v) == v.elements = <<>> /\ v.attrs = <<>>

\* The values whose links lie together: only the first element or pair of an
\* aggregate has links of its own, and there is at most one attribute.
RECURSIVE WellPlaced(_)
WellPlaced(v) ==
    LET parts(i) == IF v.kind = "map" THEN Range(v.elements[i]) ELSE {v.elements[i]}
    IN  /\ Len(v.attrs) <= 1
        /\ \A i \in DOMAIN v.attrs : \A j \in {1, 2} : WellPlaced(v.attrs[i][j])
        /\ \A i \in DOMAIN v.elements :
              \A e \in parts(i) : IF i = 1 THEN WellPlaced(e) ELSE Flat(e)

\* The texts of a value are readable.
RECURSIVE Readably(_)
Readably(v) ==
    /\ v.says # Garbled
    /\ \A i \in DOMAIN v.attrs : \A j \in {1, 2} : Readably(v.attrs[i][j])
    /\ \A i \in DOMAIN v.elements :
          IF v.kind = "map" THEN \A j \in {1, 2} : Readably(v.elements[i][j])
          ELSE Readably(v.elements[i])

-----------------------------------------------------------------------------
(* Properties *)

\* However the stream is cut into reads, whatever growth, compaction, error or
\* reconnection happened before, the i-th message that do_read() builds is the
\* i-th message of the stream, if its links lie together (parser.ipp 410-502 and
\* builder.hpp 150-183). Texts are the subject of TextsReadable.
MessagesMatch ==
    \A i \in DOMAIN out :
        /\ i <= End(stream).done
        /\ LET m == Meaning[stream][i] IN WellPlaced(m) => Alike(Message(i), m)

\* The same for every message: what build_message() finds behind the links of a
\* node is what the server sent.
EveryMessageMatches ==
    \A i \in DOMAIN out : Alike(Message(i), Meaning[stream][i])

\* The texts of a message are intact when it is built: no operation moved the
\* bytes that the nodes of the tree refer to.
TextsReadable == \A i \in DOMAIN out : Readably(Message(i))

=============================================================================
