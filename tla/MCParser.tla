------------------------------ MODULE MCParser ------------------------------
(* Small instances of Resp3Parser for TLC: streams of one or two messages. *)
EXTENDS Resp3Builder

Tok(kind, line, len, says, err) ==
    [kind |-> kind, line |-> line, len |-> len, says |-> says, err |-> err]

Simple(x) == Tok("simple_string", 1, 0, x, "ok")         \* +a
Num(x) == Tok("integer", 1, 0, x, "ok")                  \* :1
BulkOf(x) == Tok("bulk_string", 1, 1, x, "ok")           \* $1 a
Null == Tok("null", 0, 0, "null", "ok")                  \* _
Bool == Tok("boolean", 1, 0, "a", "ok")                    \* #t
NullOf(kind) == Tok(kind, 2, -1, "", "ok")               \* $-1, *-1
Many(kind, n) == Tok(kind, 1, n, "", "ok")               \* *n, %n, ~n, >n, |n

\* Messages whose links lie together.
Placed == {
    <<Simple("a")>>,
    <<Tok("verbatim_string", 1, 4, "b", "ok")>>,
    <<Null>>,
    <<NullOf("bulk_string")>>,
    <<Many("array", 0)>>,
    <<Many("array", 2), NullOf("array"), Bool>>,
    <<Many("array", 2), Many("set", 1), Simple("a"), Num("b")>>,
    <<Many("map", 2), Simple("a"), Many("array", 1), Num("b"), BulkOf("b"), Null>>,
    <<Many("attribute", 0), Many("attribute", 1), Simple("a"), Num("b"), BulkOf("b")>>,
    <<Many("push", 1), Many("attribute", 1), Simple("a"), Many("array", 1), Num("b"), Simple("b")>>}

Faulty == {
    <<Tok("none", 1, 0, "", "invalid_type_byte")>>,
    <<Many("array", 2), Tok("integer", 1, 0, "", "invalid_integer"), Num("b")>>,
    <<Tok("bulk_string", 1, 1, "", "invalid_bulk_trailer")>>,
    <<Tok("bulk_error", 1, 5, "", "ok")>>,
    <<Tok("boolean", 1, 0, "", "invalid_boolean")>>,
    <<Tok("simple_string", 4, 0, "", "ok")>>,
    <<Tok("array", 1, 0, "", "invalid_length")>>,
    <<Many("array", 4)>>,
    <<Many("map", 3)>>,
    <<Tok("attribute", 2, -1, "", "ok")>>}

\* Messages whose links do not lie together, or that have two attributes.
Scattered == {
    <<Many("array", 2), Num("a"), Many("array", 1), Simple("b")>>,
    <<Many("attribute", 2), Simple("a"), Num("b"), Simple("b"), Num("a"), Null>>}

\* A line of exactly max_resp_line_bytes.
Longest == {<<Many("array", 1), Tok("simple_error", 3, 0, "a", "ok")>>}

MCStreams ==
    Placed \cup Scattered \cup Longest \cup Faulty
    \cup {m \o <<BulkOf("a")>> : m \in {n \in Placed : Len(n) \in {1, 5}}}

\* [a, [b]]
NestedStreams == {<<Many("array", 2), Num("a"), Many("array", 1), Num("b")>>}

\* [a, b], longer than the first read.
SplitStreams == {<<Many("array", 2), Simple("a"), Simple("b")>>}

MCTexts == {"a", "b", "null", ""}

=============================================================================
