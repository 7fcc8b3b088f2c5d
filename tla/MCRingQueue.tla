---------------------------- MODULE MCRingQueue ----------------------------
(* Small instances of RingQueue for TLC. *)
EXTENDS RingQueue, TLC

CONSTANTS q1, q2, v1, v2, a1, a2

MCQueues == {q1, q2}
MCValues == {v1, v2}
MCAllocators == {a1, a2}

=============================================================================
