---------------------------- MODULE MCConnection ----------------------------
(* Small instances of Connection for TLC. *)
EXTENDS Connection, TLC

CONSTANTS r1, c1, w, r, k, idle, halted, pushed

ASSUME Cardinality({r1, c1, w, r, k, idle, halted, pushed}) = 8

MCRequests1 == {r1}
MCCallers1 == {c1}
MCSinks11 == {r1, c1, k}
MCExpected == [s \in Sinks |-> 2]
MCExpected1 == [s \in Sinks |-> 1]
MCWire == [s \in Sinks |-> IF s \in Requests THEN 2 ELSE 1]
MCReplies == {pushed} \cup {Reply(s, i) : s \in Sinks, i \in 1..2}
MCErrors == {Code(c) : c \in Codes}

=============================================================================
