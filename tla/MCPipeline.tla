----------------------------- MODULE MCPipeline -----------------------------
(* Small instance of the pipeline and its peer: three requests of different *)
(* sizes and reply counts.                                                  *)
EXTENDS PipelinePeer, TLC

CONSTANTS s1, s2, s3, pushed, e1, e2

ASSUME NonEmptyRequests

MCSinks == {s1, s2, s3}
MCExpected == s1 :> 1 @@ s2 :> 2 @@ s3 :> 1
MCWire == s1 :> 2 @@ s2 :> 1 @@ s3 :> 2
MCPushMessage == [of |-> pushed, nth |-> 0]
MCReplies == [of : MCSinks, nth : 1..2] \cup {MCPushMessage}
MCErrors == {[err |-> e1], [err |-> e2]}
=============================================================================
