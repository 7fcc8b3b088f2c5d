--------------------------- MODULE PipelineProofs ---------------------------
(***************************************************************************)
(* Proofs about the pipeline and its peer, for every set of requests, all  *)
(* sizes, reply counts and limits.                                         *)
(***************************************************************************)
EXTENDS PipelinePeer, TLAPS

\* What the queues keep by themselves: types, discipline, byte count.
QueueInv == TypeOK /\ QueueDiscipline /\ BytesAccounted

\* The empty sequence is a sequence over any set.
LEMMA EmptyIsSeq == \A S : <<>> \in Seq(S) /\ Len(<<>>) = 0
  OBVIOUS

LEMMA EmptyHasNone == Len(<<>>) = 0 /\ DOMAIN <<>> = {}
  OBVIOUS

LEMMA QueueInit == Init => QueueInv
<1> SUFFICES ASSUME Init PROVE QueueInv
  OBVIOUS
<1> USE PipelineConstants DEF PipelineConstants, Init, PipelineInit
<1>1. TypeOK
  <2>1. pending_write \in Seq(PendingItem) /\ awaiting_read \in Seq(AwaitingItem)
    BY EmptyIsSeq
  <2>2. results \in [Sinks -> Seq(Slots)]
    BY EmptyIsSeq
  <2>3. srv \in Seq(Sinks)
    BY EmptyIsSeq
  <2>4. 0 \in 0..MaxPendingWriteBytes
    OBVIOUS
  <2> QED
    BY ZenonT(30), <2>1, <2>2, <2>3, <2>4 DEF TypeOK
<1>2. QueueDiscipline
  BY DEF QueueDiscipline
<1>3. BytesAccounted
  <2> DEFINE c == [i \in 1..1 |-> 0]
  <2>1. c \in [1..1 -> 0..MaxPendingWriteBytes]
    OBVIOUS
  <2>2. Len(pending_write) = 0
    OBVIOUS
  <2>3. c[1] = 0 /\ \A i, j \in 1..1 : i <= j => c[j] <= c[i]
    OBVIOUS
  <2> HIDE DEF c
  <2> QED
    BY <2>1, <2>2, <2>3 DEF BytesAccounted
<1> QED
  BY <1>1, <1>2, <1>3 DEF QueueInv

\* Sequences as the queues use them.
LEMMA LenFacts ==
    ASSUME NEW S, NEW q \in Seq(S)
    PROVE  Len(q) \in Nat /\ q \in [1..Len(q) -> S] /\ DOMAIN q = 1..Len(q)
  OBVIOUS

LEMMA AtFacts ==
    ASSUME NEW S, NEW q \in Seq(S), NEW n \in 1..Len(q)
    PROVE  q[n] \in S
  OBVIOUS

LEMMA ExceptFacts ==
    ASSUME NEW S, NEW q \in Seq(S), NEW i \in 1..Len(q), NEW x \in S
    PROVE  [q EXCEPT ![i] = x] \in Seq(S) /\ Len([q EXCEPT ![i] = x]) = Len(q)
  OBVIOUS

LEMMA FunctionIsSeq ==
    ASSUME NEW S, NEW n \in Nat, NEW f \in [1..n -> S]
    PROVE  f \in Seq(S) /\ Len(f) = n
  OBVIOUS

LEMMA AppendFacts ==
    ASSUME NEW S, NEW q \in Seq(S), NEW x \in S
    PROVE  /\ Append(q, x) \in Seq(S) /\ Append(q, x) # <<>>
           /\ Len(Append(q, x)) = Len(q) + 1
           /\ \A i \in 1..Len(q) : Append(q, x)[i] = q[i]
           /\ Append(q, x)[Len(q) + 1] = x
  OBVIOUS

LEMMA TailFacts ==
    ASSUME NEW S, NEW q \in Seq(S), q # <<>>
    PROVE  /\ Head(q) \in S /\ Head(q) = q[1]
           /\ Tail(q) \in Seq(S)
           /\ Len(q) \in Nat /\ Len(q) > 0
           /\ Len(Tail(q)) = Len(q) - 1
           /\ \A i \in 1..(Len(q) - 1) : Tail(q)[i] = q[i + 1]
<1>1. Head(q) \in S /\ Tail(q) \in Seq(S)
  OBVIOUS
<1>2. Len(Tail(q)) = Len(q) - 1 /\ \A i \in 1..Len(Tail(q)) : Tail(q)[i] = q[i + 1]
  OBVIOUS
<1>3. Len(q) \in Nat /\ Len(q) > 0
  OBVIOUS
<1>4. Head(q) = q[1]
  OBVIOUS
<1> QED
  BY <1>1, <1>2, <1>3, <1>4

\* The limits and the sizes are natural numbers.
LEMMA Numbers ==
    /\ MaxPendingWriteBytes \in Nat /\ TimeMax \in Nat
    /\ \A s \in Sinks : Wire[s] \in Nat /\ Expected[s] \in Nat
  BY PipelineConstants DEF PipelineConstants

LEMMA RemainingInt == \A x \in PendingItem : Remaining(x) \in Int
  BY Numbers DEF PendingItem, Remaining

\* The partial sums behind BytesAccounted, for a queue of n requests with r[i]
\* bytes left and b bytes in all.
Sums(c, n, r, b) ==
    /\ c \in [1..(n + 1) -> 0..MaxPendingWriteBytes]
    /\ c[n + 1] = 0
    /\ \A i \in 1..n : c[i] = r[i] + c[i + 1]
    /\ \A i, j \in 1..(n + 1) : i <= j => c[j] <= c[i]
    /\ b = c[1]

LEMMA SumsPush ==
    ASSUME NEW n \in Nat, NEW r, NEW q, NEW b \in Nat, NEW c, NEW w \in Nat,
           Sums(c, n, r, b), b + w <= MaxPendingWriteBytes,
           \A i \in 1..n : r[i] \in Int /\ q[i] = r[i], q[n + 1] = w
    PROVE  \E e : Sums(e, n + 1, q, b + w)
<1> DEFINE e == [i \in 1..(n + 2) |-> IF i <= n + 1 THEN c[i] + w ELSE 0]
<1>0. MaxPendingWriteBytes \in Nat
  BY Numbers
<1>1. \A i \in 1..(n + 1) : c[i] \in Nat /\ c[i] <= b
  BY <1>0 DEF Sums
<1>2. \A i \in 1..(n + 1) : e[i] = c[i] + w
  OBVIOUS
<1>3. e[n + 2] = 0
  OBVIOUS
<1>4. e \in [1..(n + 2) -> 0..MaxPendingWriteBytes]
  BY <1>0, <1>1
<1> HIDE DEF e
<1>5. \A i \in 1..(n + 1) : e[i] = q[i] + e[i + 1]
  <2> SUFFICES ASSUME NEW i \in 1..(n + 1) PROVE e[i] = q[i] + e[i + 1]
    OBVIOUS
  <2>1. CASE i = n + 1
    BY <2>1, <1>2, <1>3 DEF Sums
  <2>2. CASE i \in 1..n
    <3>1. c[i] = r[i] + c[i + 1] /\ c[i + 1] \in Nat /\ r[i] \in Int /\ q[i] = r[i]
      BY <2>2, <1>1 DEF Sums
    <3>2. e[i] = c[i] + w /\ e[i + 1] = c[i + 1] + w
      BY <2>2, <1>2
    <3> QED
      BY <3>1, <3>2
  <2> QED
    BY <2>1, <2>2
<1>6. \A i, j \in 1..(n + 2) : i <= j => e[j] <= e[i]
  <2> SUFFICES ASSUME NEW i \in 1..(n + 2), NEW j \in 1..(n + 2), i <= j
               PROVE  e[j] <= e[i]
    OBVIOUS
  <2>1. CASE j = n + 2
    BY <2>1, <1>3, <1>4, <1>0
  <2>2. CASE j \in 1..(n + 1)
    <3>1. i \in 1..(n + 1) /\ c[j] <= c[i] /\ c[i] \in Nat /\ c[j] \in Nat
      BY <2>2, <1>1 DEF Sums
    <3> QED
      BY <3>1, <2>2, <1>2
  <2> QED
    BY <2>1, <2>2
<1>7. b + w = e[1]
  BY <1>2 DEF Sums
<1>8. Sums(e, n + 1, q, b + w)
  BY <1>3, <1>4, <1>5, <1>6, <1>7 DEF Sums
<1> QED
  BY <1>8

\* Part of the first request is written.
LEMMA SumsPart ==
    ASSUME NEW n \in Nat, n > 0, NEW r, NEW q, NEW b \in Nat, NEW c, NEW k \in Nat,
           Sums(c, n, r, b), r[1] \in Int, k <= r[1], q[1] = r[1] - k,
           \A i \in 2..n : q[i] = r[i]
    PROVE  k <= b /\ \E e : Sums(e, n, q, b - k)
<1> DEFINE e == [i \in 1..(n + 1) |-> IF i = 1 THEN c[1] - k ELSE c[i]]
<1>0. MaxPendingWriteBytes \in Nat
  BY Numbers
<1>1. /\ \A i \in 1..(n + 1) : c[i] \in Nat /\ c[i] <= MaxPendingWriteBytes
      /\ c[1] = r[1] + c[2] /\ b = c[1]
      /\ \A i \in 2..(n + 1) : c[i] <= c[2]
  BY <1>0 DEF Sums
<1>2. k <= b /\ c[2] <= c[1] - k /\ c[1] - k \in 0..MaxPendingWriteBytes
  BY <1>0, <1>1
<1>3. e[1] = c[1] - k /\ \A i \in 2..(n + 1) : e[i] = c[i]
  OBVIOUS
<1>4. e \in [1..(n + 1) -> 0..MaxPendingWriteBytes]
  BY <1>0, <1>1, <1>2
<1> HIDE DEF e
<1>5. \A i \in 1..n : e[i] = q[i] + e[i + 1]
  <2> SUFFICES ASSUME NEW i \in 1..n PROVE e[i] = q[i] + e[i + 1]
    OBVIOUS
  <2>1. CASE i = 1
    BY <2>1, <1>1, <1>3
  <2>2. CASE i \in 2..n
    BY <2>2, <1>3 DEF Sums
  <2> QED
    BY <2>1, <2>2
<1>6. \A i, j \in 1..(n + 1) : i <= j => e[j] <= e[i]
  <2> SUFFICES ASSUME NEW i \in 1..(n + 1), NEW j \in 1..(n + 1), i <= j
               PROVE  e[j] <= e[i]
    OBVIOUS
  <2>1. CASE j = 1
    BY <2>1, <1>3, <1>1
  <2>2. CASE i = 1 /\ j \in 2..(n + 1)
    BY <2>2, <1>1, <1>2, <1>3
  <2>3. CASE i \in 2..(n + 1)
    BY <2>3, <1>3 DEF Sums
  <2> QED
    BY <2>1, <2>2, <2>3
<1>7. Sums(e, n, q, b - k)
  BY <1>1, <1>3, <1>4, <1>5, <1>6 DEF Sums
<1> QED
  BY <1>2, <1>7

\* The first request is written to its end and leaves the queue.
LEMMA SumsPop ==
    ASSUME NEW n \in Nat, n > 0, NEW r, NEW q, NEW b \in Nat, NEW c,
           Sums(c, n, r, b), r[1] \in Nat, \A i \in 1..(n - 1) : q[i] = r[i + 1]
    PROVE  r[1] <= b /\ \E e : Sums(e, n - 1, q, b - r[1])
<1> DEFINE e == [i \in 1..n |-> c[i + 1]]
<1>0. MaxPendingWriteBytes \in Nat
  BY Numbers
<1>1. /\ \A i \in 1..(n + 1) : c[i] \in 0..MaxPendingWriteBytes
      /\ c[1] = r[1] + c[2] /\ b = c[1]
  BY DEF Sums
<1>2. e \in [1..n -> 0..MaxPendingWriteBytes] /\ \A i \in 1..n : e[i] = c[i + 1]
  BY <1>1
<1> HIDE DEF e
<1>3. \A i \in 1..(n - 1) : e[i] = q[i] + e[i + 1]
  <2> SUFFICES ASSUME NEW i \in 1..(n - 1) PROVE e[i] = q[i] + e[i + 1]
    OBVIOUS
  <2>1. i + 1 \in 1..n /\ e[i] = c[i + 1] /\ e[i + 1] = c[(i + 1) + 1]
    BY SMTT(30), <1>2
  <2> QED
    BY <2>1 DEF Sums
<1>4. \A i, j \in 1..n : i <= j => e[j] <= e[i]
  BY <1>2 DEF Sums
<1>5. e[n] = 0 /\ b - r[1] = e[1] /\ r[1] <= b
  BY <1>0, <1>1, <1>2 DEF Sums
<1>6. (n - 1) + 1 = n
  OBVIOUS
<1>7. Sums(e, n - 1, q, b - r[1])
  BY <1>2, <1>3, <1>4, <1>5, <1>6 DEF Sums
<1> QED
  BY <1>5, <1>7

\* What is left to write of each queued request.
Left == [i \in 1..Len(pending_write) |-> Remaining(pending_write[i])]

LEMMA BytesAreSums ==
    /\ BytesAccounted <=> \E c : Sums(c, Len(pending_write), Left, pending_write_bytes)
    /\ BytesAccounted' <=> (\E c : Sums(c, Len(pending_write), Left, pending_write_bytes))'
  BY ZenonT(30) DEF BytesAccounted, Sums, Left

\* The shape of the queues that TypeOK gives.
LEMMA QueueShape ==
    ASSUME TypeOK
    PROVE  /\ Len(pending_write) \in Nat /\ DOMAIN pending_write = 1..Len(pending_write)
           /\ Len(awaiting_read) \in Nat /\ DOMAIN awaiting_read = 1..Len(awaiting_read)
           /\ \A i \in 1..Len(pending_write) :
                  /\ pending_write[i] \in PendingItem
                  /\ pending_write[i].sink \in Sinks
                  /\ pending_write[i].written \in Nat
                  /\ Left[i] \in Int
           /\ \A i \in 1..Len(awaiting_read) : awaiting_read[i].sink \in Sinks
           /\ pending_write_bytes \in Nat
<1>1. /\ Len(pending_write) \in Nat /\ DOMAIN pending_write = 1..Len(pending_write)
      /\ Len(awaiting_read) \in Nat /\ DOMAIN awaiting_read = 1..Len(awaiting_read)
  BY LenFacts DEF TypeOK
<1>2. \A i \in 1..Len(pending_write) : pending_write[i] \in PendingItem
  BY <1>1, AtFacts DEF TypeOK
<1>3. \A i \in 1..Len(awaiting_read) : awaiting_read[i] \in AwaitingItem
  BY <1>1, AtFacts DEF TypeOK
<1>4. \A i \in 1..Len(pending_write) : Left[i] \in Int
  BY <1>2, RemainingInt DEF Left
<1>5. pending_write_bytes \in Nat
  BY Numbers DEF TypeOK
<1> QED
  BY <1>1, <1>2, <1>3, <1>4, <1>5 DEF PendingItem, AwaitingItem

\* push() keeps the queues in order.
LEMMA PushKeeps ==
    ASSUME NonEmptyRequests, QueueInv, NEW s \in Sinks, NEW d \in 0..TimeMax,
           Fresh(s), push(s, d), UNCHANGED peerVars
    PROVE  QueueInv'
<1> DEFINE item == [sink |-> s, written |-> 0, deadline |-> d]
           n == Len(pending_write)
<1>1. item \in PendingItem /\ item.sink = s /\ item.written = 0
  BY DEF PendingItem
<1>2. /\ pending_write' = Append(pending_write, item)
      /\ pending_write_bytes' = pending_write_bytes + Wire[s]
      /\ UNCHANGED <<awaiting_read, results, live, srv, sent>>
  BY DEF push, peerVars
<1>3. TypeOK /\ QueueDiscipline /\ BytesAccounted
  BY DEF QueueInv
<1>4. /\ pending_write' \in Seq(PendingItem)
      /\ Len(pending_write') = n + 1 /\ DOMAIN pending_write' = 1..(n + 1)
      /\ \A i \in 1..n : pending_write'[i] = pending_write[i]
      /\ pending_write'[n + 1] = item
  <2>1. pending_write \in Seq(PendingItem)
    BY <1>3 DEF TypeOK
  <2>2. pending_write' \in Seq(PendingItem) /\ Len(pending_write') = n + 1
    BY <2>1, <1>1, <1>2, AppendFacts
  <2>3. /\ \A i \in 1..n : pending_write'[i] = pending_write[i]
        /\ pending_write'[n + 1] = item
    BY <2>1, <1>1, <1>2, AppendFacts
  <2> QED
    BY <2>2, <2>3, LenFacts
<1>5. /\ Wire[s] \in Nat /\ Wire[s] > 0
      /\ pending_write_bytes + Wire[s] <= MaxPendingWriteBytes
  BY <1>3, QueueShape, Numbers DEF push, CanPush, NonEmptyRequests
<1>6. TypeOK'
  BY SMTT(30), <1>2, <1>3, <1>4, <1>5, QueueShape, Numbers DEF TypeOK
<1>7. QueueDiscipline'
  <2>1. /\ results[s] = <<>>
        /\ \A i \in DOMAIN pending_write : pending_write[i].sink # s
        /\ \A i \in DOMAIN awaiting_read : awaiting_read[i].sink # s
    BY DEF Fresh, QueuedSinks, PendingWriteSinks, AwaitingReadSinks
  <2> HIDE DEF item, n
  <2>2. n \in Nat /\ DOMAIN pending_write = 1..n
    BY <1>3, QueueShape DEF n
  <2>3. \A i \in 1..(n + 1) : i \in 1..n \/ i = n + 1
    BY <2>2
  <2>4. \A i, j \in 1..(n + 1) : pending_write'[i].sink = pending_write'[j].sink => i = j
    BY SMTT(30), <2>1, <2>2, <2>3, <1>1, <1>3, <1>4 DEF QueueDiscipline
  <2>5. \A i \in 1..(n + 1), j \in DOMAIN awaiting_read :
            pending_write'[i].sink # awaiting_read[j].sink
    <3>1. \A i \in 1..n, j \in DOMAIN awaiting_read :
              pending_write[i].sink # awaiting_read[j].sink
      BY <2>2, <1>3 DEF QueueDiscipline
    <3>2. pending_write'[n + 1].sink = s /\ \A i \in 1..n : pending_write'[i] = pending_write[i]
      BY <1>1, <1>4
    <3> QED
      BY <2>1, <2>3, <3>1, <3>2
  <2>6. \A i \in 1..(n + 1) :
            /\ results[pending_write'[i].sink] = <<>>
            /\ pending_write'[i].written < Wire[pending_write'[i].sink]
            /\ i > 1 => pending_write'[i].written = 0
    BY SMTT(30), <2>1, <2>2, <2>3, <1>1, <1>3, <1>4, <1>5 DEF QueueDiscipline
  <2> QED
    BY SMTT(30), <2>4, <2>5, <2>6, <1>2, <1>3, <1>4 DEF QueueDiscipline
<1>8. BytesAccounted'
  <2>1. PICK c : Sums(c, n, Left, pending_write_bytes)
    BY <1>3, BytesAreSums
  <2>2. /\ \A i \in 1..n : Left[i] \in Int /\ Left'[i] = Left[i]
        /\ Left'[n + 1] = Wire[s]
    <3>1. \A i \in 1..n : Left[i] \in Int /\ n \in Nat
      BY <1>3, QueueShape
    <3>2. \A i \in 1..n : Left'[i] = Left[i]
      BY <1>3, <1>4, <3>1, QueueShape DEF Left, Remaining
    <3>3. Left'[n + 1] = Remaining(item)
      BY <1>3, <1>4, QueueShape DEF Left, Remaining
    <3>4. Remaining(item) = Wire[s]
      BY <1>1, <1>5 DEF Remaining
    <3> QED
      BY <3>1, <3>2, <3>3, <3>4
  <2>3. n \in Nat /\ pending_write_bytes \in Nat
    BY <1>3, QueueShape
  <2> HIDE DEF n, item
  <2>4. \E e : Sums(e, n + 1, Left', pending_write_bytes + Wire[s])
    BY SMTT(30), <2>1, <2>2, <2>3, <1>5, SumsPush
  <2> QED
    BY <2>4, <1>2, <1>4, BytesAreSums
<1> QED
  BY <1>6, <1>7, <1>8 DEF QueueInv

\* A sink is failed or renewed that no queue holds: the queues stay as they are.
LEMMA ResultsKeep ==
    ASSUME QueueInv, NEW s \in Sinks, s \notin QueuedSinks, NEW slots \in Seq(Slots),
           results' = [results EXCEPT ![s] = slots],
           UNCHANGED <<pending_write, awaiting_read, pending_write_bytes>>,
           live' \in BOOLEAN, srv' \in Seq(Sinks), sent' \in Nat
    PROVE  QueueInv'
<1>1. TypeOK /\ QueueDiscipline /\ BytesAccounted
  BY DEF QueueInv
<1>2. TypeOK'
  BY <1>1 DEF TypeOK
<1>3. /\ \A i \in DOMAIN pending_write :
             results'[pending_write[i].sink] = results[pending_write[i].sink]
      /\ \A i \in DOMAIN awaiting_read :
             results'[awaiting_read[i].sink] = results[awaiting_read[i].sink]
  BY <1>1 DEF TypeOK, QueuedSinks, PendingWriteSinks, AwaitingReadSinks
<1>4. QueueDiscipline'
  BY <1>1, <1>3 DEF QueueDiscipline
<1>5. BytesAccounted'
  BY ZenonT(30), <1>1 DEF BytesAccounted, Remaining
<1> QED
  BY <1>2, <1>4, <1>5 DEF QueueInv

\* fail_all() fills the slots of a sink up to the last one.
LEMMA FailAllSlots ==
    ASSUME TypeOK, NEW s \in Sinks, NEW err \in Errors
    PROVE  /\ fail_all(s, err) \in Seq(Slots)
           /\ Len(fail_all(s, err)) = Expected[s]
           /\ DOMAIN fail_all(s, err) = 1..Expected[s]
           /\ \A i \in 1..Expected[s] : fail_all(s, err)[i] =
                  IF i <= Len(results[s]) THEN results[s][i] ELSE err
<1> DEFINE f == [i \in 1..Expected[s] |->
                    IF i <= Len(results[s]) THEN results[s][i] ELSE err]
<1>1. Expected[s] \in Nat /\ results[s] \in Seq(Slots)
  BY Numbers DEF TypeOK
<1>2. \A i \in 1..Expected[s] :
          (IF i <= Len(results[s]) THEN results[s][i] ELSE err) \in Slots
  BY <1>1, AtFacts, LenFacts DEF Slots
<1>3. f \in Seq(Slots) /\ Len(f) = Expected[s]
  BY <1>1, <1>2, FunctionIsSeq
<1> QED
  BY ZenonT(30), <1>3 DEF fail_all

LEMMA RejectKeeps ==
    ASSUME QueueInv, NEW s \in Sinks, NEW err \in Errors, Reject(s, err)
    PROVE  QueueInv'
<1>1. TypeOK
  BY DEF QueueInv
<1>2. fail_all(s, err) \in Seq(Slots)
  BY <1>1, FailAllSlots
<1> QED
  BY ZenonT(30), <1>1, <1>2, ResultsKeep DEF Reject, reject, Fresh, peerVars, TypeOK

LEMMA OpenStreamKeeps ==
    ASSUME QueueInv, NEW s \in Sinks, OpenStream(s)
    PROVE  QueueInv'
  BY ZenonT(30), ResultsKeep, EmptyIsSeq DEF OpenStream, make_sink

\* A write completes: part of the first request, or all that was left of it.
LEMMA SendKeeps ==
    ASSUME NonEmptyRequests, QueueInv, NEW k \in 0..MaxPendingWriteBytes, Send(k)
    PROVE  QueueInv'
<1> DEFINE front == Head(pending_write)
           n == Len(pending_write)
           m == Len(awaiting_read)
           moved == [sink |-> front.sink, deadline |-> front.deadline]
<1>1. TypeOK /\ QueueDiscipline /\ BytesAccounted
  BY DEF QueueInv
<1>2. /\ pending_write # <<>> /\ k <= Remaining(front)
      /\ pending_write_bytes' = pending_write_bytes - k
      /\ UNCHANGED <<results, live, sent>>
  BY DEF Send, on_write_done, CountWritten, has_pending_write
<1>3. k \in Nat
  BY Numbers
<1>4. /\ n \in Nat /\ n > 0 /\ front = pending_write[1] /\ front \in PendingItem
      /\ DOMAIN pending_write = 1..n /\ m \in Nat /\ DOMAIN awaiting_read = 1..m
  <2>1. pending_write \in Seq(PendingItem)
    BY <1>1 DEF TypeOK
  <2> QED
    BY <2>1, <1>1, <1>2, TailFacts, QueueShape
<1>5. /\ front.sink \in Sinks /\ front.written \in Nat /\ front.deadline \in 0..TimeMax
      /\ Wire[front.sink] \in Nat /\ Expected[front.sink] \in Nat
      /\ Expected[front.sink] > 0 /\ moved \in AwaitingItem /\ moved.sink = front.sink
  BY <1>4, Numbers DEF PendingItem, AwaitingItem, NonEmptyRequests
<1>6. Remaining(front) \in Nat /\ Left[1] = Remaining(front)
  BY SMTT(30), <1>1, <1>4, <1>5 DEF Remaining, Left, QueueDiscipline
<1>7. PICK c : Sums(c, n, Left, pending_write_bytes)
  BY <1>1, BytesAreSums
<1>8. CASE k = Remaining(front)
  <2>1. /\ pending_write' = Tail(pending_write)
        /\ awaiting_read' = Append(awaiting_read, moved)
        /\ srv' = Append(srv, front.sink)
    BY <1>8, <1>5 DEF Send, on_write_done, Await
  <2>2. /\ pending_write' \in Seq(PendingItem) /\ Len(pending_write') = n - 1
        /\ DOMAIN pending_write' = 1..(n - 1)
        /\ \A i \in 1..(n - 1) : pending_write'[i] = pending_write[i + 1]
    <3>1. pending_write \in Seq(PendingItem)
      BY <1>1 DEF TypeOK
    <3>2. /\ pending_write' \in Seq(PendingItem) /\ Len(pending_write') = n - 1
          /\ \A i \in 1..(n - 1) : pending_write'[i] = pending_write[i + 1]
      BY <3>1, <2>1, <1>2, TailFacts
    <3> QED
      BY <3>2, LenFacts
  <2>3. /\ awaiting_read' \in Seq(AwaitingItem) /\ DOMAIN awaiting_read' = 1..(m + 1)
        /\ \A i \in 1..m : awaiting_read'[i] = awaiting_read[i]
        /\ awaiting_read'[m + 1] = moved
    <3>1. awaiting_read \in Seq(AwaitingItem)
      BY <1>1 DEF TypeOK
    <3>2. /\ awaiting_read' \in Seq(AwaitingItem) /\ Len(awaiting_read') = m + 1
          /\ \A i \in 1..m : awaiting_read'[i] = awaiting_read[i]
          /\ awaiting_read'[m + 1] = moved
      BY <3>1, <2>1, <1>5, AppendFacts
    <3> QED
      BY <3>2, LenFacts
  <2>4. /\ Left[1] <= pending_write_bytes
        /\ \E e : Sums(e, n - 1, Left', pending_write_bytes - Left[1])
    <3>1. \A i \in 1..(n - 1) : Left'[i] = Left[i + 1]
      BY <2>2, <1>4 DEF Left, Remaining
    <3>2. pending_write_bytes \in Nat
      BY <1>1, QueueShape
    <3>3. n \in Nat /\ n > 0 /\ Left[1] \in Nat
      BY <1>4, <1>6
    <3> HIDE DEF n
    <3> QED
      BY Zenon, <3>1, <3>2, <3>3, <1>7, SumsPop
  <2>5. BytesAccounted'
    BY <2>2, <2>4, <1>2, <1>6, <1>8, BytesAreSums
  <2>6. TypeOK'
    <3>1. srv' \in Seq(Sinks)
      BY <2>1, <1>1, <1>5, AppendFacts DEF TypeOK
    <3>2. pending_write_bytes' \in 0..MaxPendingWriteBytes
      BY <2>4, <1>1, <1>2, <1>3, <1>6, <1>8, Numbers DEF TypeOK
    <3> QED
      BY <3>1, <3>2, <2>2, <2>3, <1>1, <1>2 DEF TypeOK
  <2>7. QueueDiscipline'
    <3> HIDE DEF n, m, front, moved
    <3>1. \A i \in 1..(n - 1) : i + 1 \in 1..n /\ i + 1 # 1 /\ i + 1 > 1
      BY <1>4
    <3>2. \A i \in 1..(m + 1) : i \in 1..m \/ i = m + 1
      BY <1>4
    <3>3. 1 \in 1..n
      BY <1>4
    <3>d. /\ \A i, j \in 1..n : pending_write[i].sink = pending_write[j].sink => i = j
          /\ \A i, j \in 1..m : awaiting_read[i].sink = awaiting_read[j].sink => i = j
          /\ \A i \in 1..n, j \in 1..m : pending_write[i].sink # awaiting_read[j].sink
      BY SMTT(30), <1>1, <1>4 DEF QueueDiscipline
    <3>e. \A i \in 1..n :
              /\ results[pending_write[i].sink] = <<>>
              /\ pending_write[i].written < Wire[pending_write[i].sink]
              /\ i > 1 => pending_write[i].written = 0
      BY <1>1, <1>4 DEF QueueDiscipline
    <3>f. \A i \in 1..m :
              /\ Len(results[awaiting_read[i].sink]) < Expected[awaiting_read[i].sink]
              /\ i > 1 => results[awaiting_read[i].sink] = <<>>
      BY <1>1, <1>4 DEF QueueDiscipline
    <3>g. /\ \A i \in 1..(n - 1) : pending_write'[i].sink = pending_write[i + 1].sink
          /\ \A i \in 1..m : awaiting_read'[i].sink = awaiting_read[i].sink
          /\ awaiting_read'[m + 1].sink = front.sink
          /\ front.sink = pending_write[1].sink
      BY SMTT(30), <2>2, <2>3, <1>4, <1>5
    <3>4. \A i, j \in 1..(n - 1) :
              pending_write'[i].sink = pending_write'[j].sink => i = j
      <4> SUFFICES ASSUME NEW i \in 1..(n - 1), NEW j \in 1..(n - 1),
                          pending_write'[i].sink = pending_write'[j].sink
                   PROVE  i = j
        OBVIOUS
      <4>1. i + 1 \in 1..n /\ j + 1 \in 1..n
        BY <3>1
      <4>2. pending_write[i + 1].sink = pending_write[j + 1].sink
        BY <3>g
      <4>3. i + 1 = j + 1
        BY <4>1, <4>2, <3>d
      <4> QED
        BY <4>3, <1>4
    <3>5. \A i \in 1..(n - 1) : pending_write'[i].sink # front.sink
      BY <3>1, <3>3, <3>d, <3>g
    <3>6. \A i \in 1..m : awaiting_read[i].sink # front.sink
      BY <3>3, <3>d, <3>g
    <3>7. \A i, j \in 1..(m + 1) :
              awaiting_read'[i].sink = awaiting_read'[j].sink => i = j
      BY <3>2, <3>6, <3>d, <3>g
    <3>8. \A i \in 1..(n - 1), j \in 1..(m + 1) :
              pending_write'[i].sink # awaiting_read'[j].sink
      BY <3>1, <3>2, <3>5, <3>d, <3>g
    <3>9. \A i \in 1..(n - 1) :
              /\ results'[pending_write'[i].sink] = <<>>
              /\ pending_write'[i].written < Wire[pending_write'[i].sink]
              /\ i > 1 => pending_write'[i].written = 0
      BY <3>1, <3>e, <2>2, <1>2
    <3>10. results[front.sink] = <<>> /\ Len(results[front.sink]) < Expected[front.sink]
      BY <3>3, <3>e, <3>g, <1>5, EmptyIsSeq
    <3>11. \A i \in 1..(m + 1) :
              /\ Len(results'[awaiting_read'[i].sink]) < Expected[awaiting_read'[i].sink]
              /\ i > 1 => results'[awaiting_read'[i].sink] = <<>>
      BY <3>2, <3>10, <3>f, <3>g, <1>2
    <3> QED
      BY <3>4, <3>7, <3>8, <3>9, <3>11, <2>2, <2>3 DEF QueueDiscipline
  <2> QED
    BY <2>5, <2>6, <2>7 DEF QueueInv
<1>9. CASE k # Remaining(front)
  <2>1. /\ pending_write' = [pending_write EXCEPT ![1].written = @ + k]
        /\ UNCHANGED <<awaiting_read, srv>>
    BY <1>9 DEF Send, on_write_done
  <2> DEFINE item == [front EXCEPT !.written = @ + k]
  <2>2. /\ item \in PendingItem /\ item.sink = front.sink
        /\ item.written = front.written + k
    BY <1>3, <1>4, <1>5 DEF PendingItem
  <2>3. /\ pending_write' \in Seq(PendingItem) /\ Len(pending_write') = n
        /\ DOMAIN pending_write' = 1..n
        /\ pending_write'[1] = item
        /\ \A i \in 2..n : pending_write'[i] = pending_write[i]
    <3>1. pending_write \in Seq(PendingItem)
      BY <1>1 DEF TypeOK
    <3>2. pending_write' = [pending_write EXCEPT ![1] = item]
      BY ZenonT(30), <2>1, <1>4
    <3> HIDE DEF item
    <3>3. pending_write' \in Seq(PendingItem) /\ Len(pending_write') = n
      BY <3>1, <3>2, <2>2, <1>4, ExceptFacts
    <3> QED
      BY <3>2, <3>3, <1>4, LenFacts
  <2>4. k <= pending_write_bytes /\ \E e : Sums(e, n, Left', pending_write_bytes - k)
    <3>1. Left'[1] = Left[1] - k
      <4>1. Remaining(item) = Remaining(front) - k
        BY <2>2, <1>3, <1>5 DEF Remaining
      <4>2. Left'[1] = Remaining(pending_write'[1])
        <5>1. 1 \in 1..Len(pending_write')
          BY <2>3, <1>4
        <5> QED
          BY <5>1, Zenon DEF Left, Remaining
      <4>3. Remaining(pending_write'[1]) = Remaining(item)
        BY <2>3
      <4> QED
        BY <4>1, <4>2, <4>3, <1>6
    <3>2. \A i \in 2..n : Left'[i] = Left[i]
      BY <2>3, <1>4 DEF Left, Remaining
    <3>3. pending_write_bytes \in Nat
      BY <1>1, QueueShape
    <3> HIDE DEF n
    <3> QED
      BY <3>1, <3>2, <3>3, <1>2, <1>3, <1>4, <1>6, <1>7, SumsPart
  <2>5. BytesAccounted'
    BY <2>3, <2>4, <1>2, BytesAreSums
  <2>6. TypeOK'
    <3>1. pending_write_bytes' \in 0..MaxPendingWriteBytes
      BY <2>4, <1>1, <1>2, <1>3, Numbers DEF TypeOK
    <3> QED
      BY <3>1, <2>1, <2>3, <1>1, <1>2 DEF TypeOK
  <2>7. QueueDiscipline'
    <3>1. k < Remaining(front)
      BY <1>2, <1>3, <1>6, <1>9
    <3>2. item.written < Wire[item.sink]
      BY <3>1, <2>2, <1>3, <1>5 DEF Remaining
    <3> HIDE DEF n, m, item, front
    <3>3. \A i \in 1..n : pending_write'[i].sink = pending_write[i].sink
      BY <2>2, <2>3, <1>4
    <3>4. \A i \in 1..n :
              /\ results'[pending_write'[i].sink] = <<>>
              /\ pending_write'[i].written < Wire[pending_write'[i].sink]
              /\ i > 1 => pending_write'[i].written = 0
      <4> SUFFICES ASSUME NEW i \in 1..n
                   PROVE  /\ results'[pending_write'[i].sink] = <<>>
                          /\ pending_write'[i].written < Wire[pending_write'[i].sink]
                          /\ i > 1 => pending_write'[i].written = 0
        OBVIOUS
      <4>1. CASE i = 1
        BY <4>1, <3>2, <3>3, <2>3, <1>1, <1>2, <1>4 DEF QueueDiscipline
      <4>2. CASE i \in 2..n
        BY SMTT(30), <4>2, <2>3, <1>1, <1>2, <1>4 DEF QueueDiscipline
      <4> QED
        BY <4>1, <4>2, <1>4
    <3> QED
      BY <3>3, <3>4, <2>1, <2>3, <1>1, <1>2, <1>4 DEF QueueDiscipline
  <2> QED
    BY <2>5, <2>6, <2>7 DEF QueueInv
<1> QED
  BY <1>8, <1>9

\* What delivering x to the front sink of awaiting_read does.
LEMMA DeliverFacts ==
    ASSUME QueueInv, NEW x \in Slots, DeliverFront(x)
    PROVE  LET m == Len(awaiting_read)
               s == awaiting_read[1].sink
           IN  /\ m \in Nat /\ m > 0 /\ s \in Sinks
               /\ results[s] \in Seq(Slots) /\ Len(results[s]) < Expected[s]
               /\ results' = [results EXCEPT ![s] = Append(results[s], x)]
               /\ \/ /\ Len(results[s]) + 1 < Expected[s]
                     /\ awaiting_read' = awaiting_read
                  \/ /\ Len(results[s]) + 1 = Expected[s]
                     /\ awaiting_read' = Tail(awaiting_read)
               /\ UNCHANGED <<pending_write, pending_write_bytes>>
<1> DEFINE m == Len(awaiting_read)
           s == awaiting_read[1].sink
<1>1. TypeOK /\ QueueDiscipline
  BY DEF QueueInv
<1>2. /\ m \in Nat /\ m > 0 /\ Head(awaiting_read) = awaiting_read[1]
      /\ DOMAIN awaiting_read = 1..m /\ 1 \in 1..m
  <2>1. awaiting_read \in Seq(AwaitingItem) /\ awaiting_read # <<>>
    BY <1>1 DEF TypeOK, DeliverFront, has_pending_read
  <2>2. m \in Nat /\ m > 0 /\ Head(awaiting_read) = awaiting_read[1]
    BY <2>1, TailFacts
  <2> QED
    BY <2>1, <2>2, LenFacts
<1>3. s \in Sinks /\ results[s] \in Seq(Slots) /\ Len(results[s]) < Expected[s]
  BY ZenonT(30), <1>1, <1>2, QueueShape DEF TypeOK, QueueDiscipline
<1>4. /\ Append(results[s], x) # <<>>
      /\ Len(Append(results[s], x)) = Len(results[s]) + 1
  BY <1>3, AppendFacts
<1>5. Len(results[s]) \in Nat /\ Expected[s] \in Nat
  BY <1>3, Numbers, LenFacts
<1>6. Delivered(s, x) = Append(results[s], x)
  BY SMTT(30), <1>3, <1>5 DEF Delivered, is_complete, CompleteWith
<1>7. CompleteWith(s, Delivered(s, x)) <=> Len(results[s]) + 1 = Expected[s]
  BY <1>4, <1>6 DEF CompleteWith
<1>8. Head(awaiting_read).sink = s
  BY <1>2
<1>9. /\ results' = [results EXCEPT ![s] = Delivered(s, x)]
      /\ LeaveQueue(CompleteWith(s, Delivered(s, x)))
      /\ UNCHANGED <<pending_write, pending_write_bytes>>
  BY ZenonT(30), <1>8 DEF DeliverFront
<1>10. \/ /\ Len(results[s]) + 1 < Expected[s]
          /\ awaiting_read' = awaiting_read
       \/ /\ Len(results[s]) + 1 = Expected[s]
          /\ awaiting_read' = Tail(awaiting_read)
  BY <1>3, <1>5, <1>7, <1>9 DEF LeaveQueue
<1> QED
  BY SMTT(30), <1>2, <1>3, <1>6, <1>9, <1>10

\* A reply or an error is delivered to the front sink.
LEMMA DeliverKeeps ==
    ASSUME QueueInv, NEW x \in Slots, DeliverFront(x),
           live' \in BOOLEAN, srv' \in Seq(Sinks), sent' \in Nat
    PROVE  QueueInv'
<1> DEFINE m == Len(awaiting_read)
           s == awaiting_read[1].sink
<1>1. TypeOK /\ QueueDiscipline /\ BytesAccounted
  BY DEF QueueInv
<1>2. /\ m \in Nat /\ m > 0 /\ s \in Sinks
      /\ results[s] \in Seq(Slots) /\ Len(results[s]) < Expected[s]
      /\ results' = [results EXCEPT ![s] = Append(results[s], x)]
      /\ UNCHANGED <<pending_write, pending_write_bytes>>
  BY SMTT(30), DeliverFacts
<1>3. DOMAIN awaiting_read = 1..m /\ 1 \in 1..m
  BY <1>1, <1>2, QueueShape
<1>4. /\ results'[s] = Append(results[s], x)
      /\ \A t \in Sinks : t # s => results'[t] = results[t]
      /\ results' \in [Sinks -> Seq(Slots)]
      /\ Len(results'[s]) = Len(results[s]) + 1
  BY SMTT(30), <1>1, <1>2, AppendFacts DEF TypeOK
<1>5. \A i \in DOMAIN pending_write :
          /\ pending_write[i].sink # s
          /\ results'[pending_write[i].sink] = results[pending_write[i].sink]
  BY SMTT(30), <1>1, <1>2, <1>3, <1>4, QueueShape DEF QueueDiscipline
<1>6. \A i \in 1..m : i # 1 =>
          /\ awaiting_read[i].sink # s
          /\ results'[awaiting_read[i].sink] = results[awaiting_read[i].sink]
  BY ZenonT(30), <1>1, <1>3, <1>4, QueueShape DEF QueueDiscipline
<1>7. BytesAccounted'
  BY ZenonT(30), <1>1, <1>2 DEF BytesAccounted, Remaining
<1>d. /\ \A i, j \in 1..m : awaiting_read[i].sink = awaiting_read[j].sink => i = j
      /\ \A i \in DOMAIN pending_write, j \in 1..m :
             pending_write[i].sink # awaiting_read[j].sink
  BY SMTT(30), <1>1, <1>3 DEF QueueDiscipline
<1>e. \A i \in 1..m :
          /\ Len(results[awaiting_read[i].sink]) < Expected[awaiting_read[i].sink]
          /\ i > 1 => results[awaiting_read[i].sink] = <<>>
  BY SMTT(30), <1>1, <1>3 DEF QueueDiscipline
<1>p. /\ \A i, j \in DOMAIN pending_write :
             pending_write[i].sink = pending_write[j].sink => i = j
      /\ \A i \in DOMAIN pending_write :
             /\ results'[pending_write[i].sink] = <<>>
             /\ pending_write[i].written < Wire[pending_write[i].sink]
             /\ i > 1 => pending_write[i].written = 0
  BY <1>1, <1>5 DEF QueueDiscipline
<1>8. CASE Len(results[s]) + 1 < Expected[s] /\ awaiting_read' = awaiting_read
  <2>1. TypeOK'
    BY SMTT(30), <1>1, <1>2, <1>4, <1>8 DEF TypeOK
  <2>0. awaiting_read[1].sink = s
    OBVIOUS
  <2> HIDE DEF m, s
  <2>2. ASSUME NEW i \in 1..m
        PROVE  /\ Len(results'[awaiting_read[i].sink]) < Expected[awaiting_read[i].sink]
               /\ i > 1 => results'[awaiting_read[i].sink] = <<>>
    <3>1. CASE i = 1
      BY <3>1, <2>0, <1>4, <1>8
    <3>2. CASE i # 1
      <4>1. results'[awaiting_read[i].sink] = results[awaiting_read[i].sink]
        BY <3>2, <1>6
      <4> QED
        BY <4>1, <1>e
    <3> QED
      BY <3>1, <3>2
  <2>3. QueueDiscipline'
    <3>1. DOMAIN awaiting_read' = 1..m /\ pending_write' = pending_write
      BY <1>2, <1>3, <1>8
    <3> QED
      BY <3>1, <2>2, <1>d, <1>p, <1>8 DEF QueueDiscipline
  <2> QED
    BY SMTT(30), <2>1, <2>3, <1>7 DEF QueueInv
<1>9. CASE Len(results[s]) + 1 = Expected[s] /\ awaiting_read' = Tail(awaiting_read)
  <2>1. /\ awaiting_read' \in Seq(AwaitingItem) /\ DOMAIN awaiting_read' = 1..(m - 1)
        /\ \A i \in 1..(m - 1) : awaiting_read'[i] = awaiting_read[i + 1]
    <3>1. awaiting_read \in Seq(AwaitingItem) /\ awaiting_read # <<>>
      BY SMTT(30), <1>1, <1>2, EmptyIsSeq DEF TypeOK
    <3>2. /\ awaiting_read' \in Seq(AwaitingItem) /\ Len(awaiting_read') = m - 1
          /\ \A i \in 1..(m - 1) : awaiting_read'[i] = awaiting_read[i + 1]
      BY SMTT(30), <3>1, <1>9, TailFacts
    <3> QED
      BY <3>2, LenFacts
  <2>2. TypeOK'
    BY SMTT(30), <2>1, <1>1, <1>2, <1>4 DEF TypeOK
  <2>3. \A i \in 1..(m - 1) : i + 1 \in 1..m /\ i + 1 # 1 /\ i + 1 > 1
    BY <1>2
  <2> HIDE DEF m, s
  <2>4. \A i, j \in 1..(m - 1) :
            awaiting_read'[i].sink = awaiting_read'[j].sink => i = j
    <3> SUFFICES ASSUME NEW i \in 1..(m - 1), NEW j \in 1..(m - 1),
                        awaiting_read'[i].sink = awaiting_read'[j].sink
                 PROVE  i = j
      OBVIOUS
    <3>1. i + 1 = j + 1
      BY <2>1, <2>3, <1>d
    <3> QED
      BY <3>1, <1>2
  <2>5. \A i \in DOMAIN pending_write, j \in 1..(m - 1) :
            pending_write[i].sink # awaiting_read'[j].sink
    BY <2>1, <2>3, <1>d
  <2>6. \A i \in 1..(m - 1) :
            /\ Len(results'[awaiting_read'[i].sink]) < Expected[awaiting_read'[i].sink]
            /\ i > 1 => results'[awaiting_read'[i].sink] = <<>>
    BY <2>1, <2>3, <1>e, <1>6
  <2>7. QueueDiscipline'
    BY ZenonT(30), <2>1, <2>4, <2>5, <2>6, <1>p, <1>2 DEF QueueDiscipline
  <2> QED
    BY <2>2, <2>7, <1>7 DEF QueueInv
<1> QED
  BY <1>8, <1>9, DeliverFacts

LEMMA ReceiveKeeps == ASSUME QueueInv, Receive PROVE QueueInv'
<1>1. srv \in Seq(Sinks) /\ srv # <<>> /\ sent \in Nat /\ live \in BOOLEAN
  BY DEF QueueInv, TypeOK, Receive
<1>2. Tail(srv) \in Seq(Sinks)
  BY <1>1, TailFacts
<1>3. srv' \in Seq(Sinks) /\ sent' \in Nat /\ live' \in BOOLEAN
  BY <1>1, <1>2 DEF Receive
<1>4. PICK x \in Slots : DeliverFront(x)
  BY DEF Receive, on_message, Slots
<1> QED
  BY <1>3, <1>4, DeliverKeeps

LEMMA ReceivePushKeeps == ASSUME QueueInv, ReceivePush PROVE QueueInv'
<1>1. srv' \in Seq(Sinks) /\ sent' \in Nat /\ live' \in BOOLEAN
  BY DEF QueueInv, TypeOK, ReceivePush, peerVars
<1>2. PICK x \in Slots : DeliverFront(x)
  BY DEF ReceivePush, on_message, Slots
<1> QED
  BY <1>1, <1>2, DeliverKeeps

LEMMA ReceiveBadKeeps ==
    ASSUME QueueInv, NEW err \in Errors, ReceiveBad(err) PROVE QueueInv'
<1>1. srv' \in Seq(Sinks) /\ sent' \in Nat /\ live' \in BOOLEAN
  BY ZenonT(30), EmptyIsSeq DEF ReceiveBad
<1>2. err \in Slots /\ DeliverFront(err)
  BY DEF ReceiveBad, on_error, Slots
<1> QED
  BY <1>1, <1>2, DeliverKeeps

\* Empty queues are in order.
LEMMA DisconnectKeeps ==
    ASSUME QueueInv, NEW err \in Errors, Disconnect(err) PROVE QueueInv'
<1>1. /\ pending_write' = <<>> /\ awaiting_read' = <<>> /\ pending_write_bytes' = 0
      /\ live' = FALSE /\ srv' = <<>> /\ sent' = 0
      /\ results' = [s \in Sinks |->
                        IF s \in QueuedSinks THEN fail_all(s, err) ELSE results[s]]
  BY DEF Disconnect, clear_all
<1>2. TypeOK
  BY DEF QueueInv
<1>3. TypeOK'
  <2>1. /\ pending_write' \in Seq(PendingItem) /\ awaiting_read' \in Seq(AwaitingItem)
        /\ srv' \in Seq(Sinks)
    BY <1>1, EmptyIsSeq
  <2>2. \A s \in Sinks : fail_all(s, err) \in Seq(Slots) /\ results[s] \in Seq(Slots)
    BY ZenonT(30), <1>2, FailAllSlots DEF TypeOK
  <2>3. results' \in [Sinks -> Seq(Slots)]
    BY <1>1, <2>2
  <2>4. pending_write_bytes' \in 0..MaxPendingWriteBytes
    BY <1>1, Numbers
  <2> QED
    BY ZenonT(30), <2>1, <2>3, <2>4, <1>1 DEF TypeOK
<1>4. QueueDiscipline'
  BY <1>1 DEF QueueDiscipline
<1>5. BytesAccounted'
  <2> DEFINE c == [i \in 1..1 |-> 0]
  <2>1. c \in [1..1 -> 0..MaxPendingWriteBytes]
    BY Numbers
  <2>2. Len(pending_write') = 0
    BY <1>1, EmptyIsSeq
  <2>3. c[1] = 0 /\ \A i, j \in 1..1 : i <= j => c[j] <= c[i]
    OBVIOUS
  <2> HIDE DEF c
  <2> QED
    BY <2>1, <2>2, <2>3, <1>1 DEF BytesAccounted
<1> QED
  BY <1>3, <1>4, <1>5 DEF QueueInv

\* A socket is replaced without a look at the queues.
LEMMA ResetKeeps ==
    ASSUME QueueInv, UNCHANGED pipelineVars, live' = FALSE, srv' = <<>>, sent' = 0
    PROVE  QueueInv'
  BY ZenonT(30), EmptyIsSeq DEF QueueInv, TypeOK, QueueDiscipline, BytesAccounted, Remaining,
     pipelineVars

\* The operations with their own preconditions only: deadlines in any order, a
\* stream that starts or ends while requests are queued.
AnyUse ==
    \/ \E s \in Sinks, d \in 0..TimeMax : Fresh(s) /\ push(s, d) /\ UNCHANGED peerVars
    \/ \E s \in Sinks, err \in Errors : Reject(s, err)
    \/ \E s \in Sinks : OpenStream(s)
    \/ \E n \in 0..MaxPendingWriteBytes : Send(n)
    \/ Receive
    \/ ReceivePush
    \/ \E err \in Errors : ReceiveBad(err)
    \/ \E err \in Errors : Disconnect(err)
    \/ UNCHANGED pipelineVars /\ live' = FALSE /\ srv' = <<>> /\ sent' = 0

LEMMA NextIsUse == Next => AnyUse
  BY ZenonT(30) DEF Next, AnyUse, Push, Establish

LEMMA QueueUse ==
    ASSUME NonEmptyRequests, QueueInv, [AnyUse]_vars
    PROVE  QueueInv'
<1>1. CASE UNCHANGED vars
  BY ZenonT(30), <1>1 DEF QueueInv, TypeOK, QueueDiscipline, BytesAccounted, Remaining, vars,
              pipelineVars, peerVars
<1>2. CASE AnyUse
  BY ZenonT(30), <1>2, PushKeeps, RejectKeeps, OpenStreamKeeps, SendKeeps, ReceiveKeeps,
     ReceivePushKeeps, ReceiveBadKeeps, DisconnectKeeps, ResetKeeps DEF AnyUse
<1> QED
  BY <1>1, <1>2

LEMMA QueueStep ==
    ASSUME NonEmptyRequests, QueueInv, [Next]_vars
    PROVE  QueueInv'
  BY QueueUse, NextIsUse

LEMMA QueueAlways ==
    ASSUME NonEmptyRequests
    PROVE  Spec => []QueueInv
<1>1. QueueInv /\ [Next]_vars => QueueInv'
  BY QueueStep
<1> QED
  BY <1>1, QueueInit, PTL DEF Spec

\* The fields of pipeline and of the stream keep their types, for every set of
\* requests that hold a command each, and every limit: the byte counter stays
\* within max_pending_write_bytes and never wraps (push, on_write_done).
THEOREM TypesKept ==
    ASSUME NonEmptyRequests
    PROVE  Spec => []TypeOK
<1>1. QueueInv => TypeOK
  BY DEF QueueInv
<1> QED
  BY <1>1, QueueAlways, PTL

\* Every request is in one place of one queue and is delivered to only while
\* incomplete (push, on_write_done, on_message, on_error, clear_all).
THEOREM QueuesInOrder ==
    ASSUME NonEmptyRequests
    PROVE  Spec => []QueueDiscipline
<1>1. QueueInv => QueueDiscipline
  BY DEF QueueInv
<1> QED
  BY <1>1, QueueAlways, PTL

\* The byte counter of push() and on_write_done() is the sum of the unwritten
\* bytes, however writes split them and whenever clear_all() drops them.
THEOREM BytesAddUp ==
    ASSUME NonEmptyRequests
    PROVE  Spec => []BytesAccounted
<1>1. QueueInv => BytesAccounted
  BY DEF QueueInv
<1> QED
  BY <1>1, QueueAlways, PTL

-----------------------------------------------------------------------------
\* No sink gets more than it expects.
LEMMA OverDeliveryUse ==
    ASSUME QueueInv, NoOverDelivery, [AnyUse]_vars
    PROVE  NoOverDelivery'
<1>1. TypeOK
  BY DEF QueueInv
<1>2. \A s \in Sinks : Expected[s] \in Nat /\ Len(<<>>) <= Expected[s]
  BY Numbers, EmptyIsSeq
<1>3. ASSUME NEW x \in Slots, DeliverFront(x) PROVE NoOverDelivery'
  <2> DEFINE s == awaiting_read[1].sink
  <2>1. /\ s \in Sinks /\ results[s] \in Seq(Slots)
        /\ Len(results[s]) + 1 <= Expected[s]
        /\ results' = [results EXCEPT ![s] = Append(results[s], x)]
    BY SMTT(30), <1>2, <1>3, DeliverFacts, LenFacts
  <2>2. Len(results'[s]) <= Expected[s]
    BY SMTT(30), <2>1, <1>1, <1>3, AppendFacts DEF TypeOK
  <2>3. \A t \in Sinks : t # s => results'[t] = results[t]
    BY <2>1, <1>1 DEF TypeOK
  <2> QED
    BY SMTT(30), <2>2, <2>3 DEF NoOverDelivery
<1>4. ASSUME NEW s \in Sinks, NEW slots, Len(slots) <= Expected[s],
             results' = [results EXCEPT ![s] = slots]
      PROVE  NoOverDelivery'
  BY <1>1, <1>4 DEF NoOverDelivery, TypeOK
<1>5. CASE UNCHANGED results
  BY <1>5 DEF NoOverDelivery
<1>6. ASSUME NEW s \in Sinks, NEW d \in 0..TimeMax, push(s, d) PROVE NoOverDelivery'
  BY <1>5, <1>6 DEF push
<1>7. ASSUME NEW s \in Sinks, NEW err \in Errors, Reject(s, err) PROVE NoOverDelivery'
  <2>1. Len(fail_all(s, err)) <= Expected[s]
    BY <1>1, <1>2, FailAllSlots
  <2> QED
    BY ZenonT(30), <2>1, <1>4, <1>7 DEF Reject, reject
<1>8. ASSUME NEW s \in Sinks, OpenStream(s) PROVE NoOverDelivery'
  BY ZenonT(30), <1>2, <1>4, <1>8 DEF OpenStream, make_sink
<1>9. ASSUME NEW k \in 0..MaxPendingWriteBytes, Send(k) PROVE NoOverDelivery'
  BY <1>5, <1>9 DEF Send, on_write_done
<1>10. ASSUME Receive \/ ReceivePush \/ \E err \in Errors : ReceiveBad(err)
       PROVE  NoOverDelivery'
  <2>1. \E x \in Slots : DeliverFront(x)
    BY <1>10 DEF Receive, ReceivePush, ReceiveBad, on_message, on_error, Slots
  <2> QED
    BY <2>1, <1>3
<1>11. ASSUME NEW err \in Errors, Disconnect(err) PROVE NoOverDelivery'
  <2>1. results' = [s \in Sinks |->
                        IF s \in QueuedSinks THEN fail_all(s, err) ELSE results[s]]
    BY <1>11 DEF Disconnect, clear_all
  <2>2. \A s \in Sinks : Len(fail_all(s, err)) <= Expected[s]
    BY <1>1, <1>2, FailAllSlots
  <2> QED
    BY <2>1, <2>2 DEF NoOverDelivery
<1>12. CASE UNCHANGED vars \/ UNCHANGED pipelineVars
  BY <1>5, <1>12 DEF vars, pipelineVars
<1> QED
  BY <1>6, <1>7, <1>8, <1>9, <1>10, <1>11, <1>12 DEF AnyUse

LEMMA OverDeliveryInit == Init => NoOverDelivery
<1> SUFFICES ASSUME Init PROVE NoOverDelivery
  OBVIOUS
<1>1. \A s \in Sinks : results[s] = <<>>
  BY ZenonT(30) DEF Init, PipelineInit
<1>2. ASSUME NEW s \in Sinks PROVE Expected[s] >= 0
  <2>1. Expected[s] \in Nat
    BY Numbers
  <2> QED
    BY <2>1
<1>3. \A s \in Sinks : Len(<<>>) <= Expected[s]
  BY ZenonT(30), <1>2, EmptyHasNone
<1> QED
  BY ZenonT(30), <1>1, <1>3 DEF NoOverDelivery

\* The pipeline never delivers more than expected_replies() into a sink
\* (pipeline.hpp:57), provided every request holds a command.
THEOREM NeverOverDelivers ==
    ASSUME NonEmptyRequests
    PROVE  Spec => []NoOverDelivery
<1>1. QueueInv /\ NoOverDelivery /\ [Next]_vars => NoOverDelivery'
  BY OverDeliveryUse, NextIsUse
<1> QED
  BY <1>1, OverDeliveryInit, QueueAlways, PTL DEF Spec

-----------------------------------------------------------------------------
\* Replies and slots.  StreamMatch says which reply comes next, ReplyMatch
\* what the ones that came are; neither is inductive without the other.
StreamInv == QueueInv /\ StreamMatch /\ ReplyMatch

\* A sink that no queue holds is failed or renewed.
LEMMA StreamResults ==
    ASSUME StreamInv, NEW s \in Sinks, s \notin QueuedSinks, NEW slots,
           results' = [results EXCEPT ![s] = slots], UNCHANGED awaiting_read,
           \A i \in DOMAIN slots : slots[i] \in Replies => slots[i] = Reply(s, i)
    PROVE  /\ ReplyMatch'
           /\ UNCHANGED <<live, srv, sent>> => StreamMatch'
<1>1. TypeOK /\ StreamMatch /\ ReplyMatch
  BY DEF StreamInv, QueueInv
<1>2. results'[s] = slots /\ \A t \in Sinks : t # s => results'[t] = results[t]
  BY <1>1 DEF TypeOK
<1>3. ReplyMatch'
  BY <1>1, <1>2 DEF ReplyMatch
<1>4. ASSUME UNCHANGED <<live, srv, sent>> PROVE StreamMatch'
  <2>1. ASSUME awaiting_read # <<>>
        PROVE  results'[Head(awaiting_read).sink] = results[Head(awaiting_read).sink]
    <3>1. /\ Head(awaiting_read) = awaiting_read[1] /\ Len(awaiting_read) \in Nat
          /\ Len(awaiting_read) > 0
      BY <2>1, <1>1, TailFacts DEF TypeOK
    <3>2. awaiting_read[1].sink \in Sinks /\ 1 \in DOMAIN awaiting_read
      BY <3>1, <1>1, QueueShape
    <3> QED
      BY <3>1, <3>2, <1>2 DEF QueuedSinks, AwaitingReadSinks
  <2> QED
    BY <2>1, <1>1, <1>4 DEF StreamMatch, has_pending_read
<1> QED
  BY <1>3, <1>4

LEMMA StreamReject ==
    ASSUME StreamInv, NEW s \in Sinks, NEW err \in Errors, Reject(s, err)
    PROVE  (StreamMatch /\ ReplyMatch)'
<1>1. TypeOK
  BY DEF StreamInv, QueueInv
<1>2. /\ s \notin QueuedSinks /\ results[s] = <<>>
      /\ results' = [results EXCEPT ![s] = fail_all(s, err)]
      /\ UNCHANGED <<awaiting_read, live, srv, sent>>
  BY DEF Reject, Fresh, reject, peerVars
<1>3. err \notin Replies
  BY PipelineConstants DEF PipelineConstants
<1>4. \A i \in DOMAIN fail_all(s, err) : fail_all(s, err)[i] = err
  <2>1. Len(results[s]) = 0 /\ Expected[s] \in Nat
    BY <1>2, EmptyIsSeq, Numbers
  <2>2. DOMAIN fail_all(s, err) = 1..Expected[s]
    BY <1>1, FailAllSlots
  <2>3. \A i \in 1..Expected[s] : fail_all(s, err)[i] =
            IF i <= Len(results[s]) THEN results[s][i] ELSE err
    BY <1>1, FailAllSlots
  <2> QED
    BY <2>1, <2>2, <2>3
<1> QED
  BY ZenonT(30), <1>2, <1>3, <1>4, StreamResults

LEMMA StreamEstablish ==
    ASSUME StreamInv, NEW s \in Sinks, Establish(s)
    PROVE  (StreamMatch /\ ReplyMatch)'
<1>1. /\ s \notin QueuedSinks /\ results' = [results EXCEPT ![s] = <<>>]
      /\ UNCHANGED awaiting_read /\ srv' = <<>> /\ sent' = 0
  BY DEF Establish, OpenStream, make_sink
<1>2. ReplyMatch'
  <2>1. \A i \in DOMAIN <<>> : <<>>[i] \in Replies => <<>>[i] = Reply(s, i)
    BY EmptyHasNone
  <2> QED
    BY ZenonT(30), <2>1, <1>1, StreamResults
<1>3. awaiting_read = <<>>
  <2>1. TypeOK
    BY DEF StreamInv, QueueInv
  <2>2. DOMAIN awaiting_read = {} /\ Len(awaiting_read) \in Nat
    BY ZenonT(30), <2>1, QueueShape DEF Establish, QueuedSinks, AwaitingReadSinks
  <2>3. Len(awaiting_read) = 0
    BY <2>1, <2>2, QueueShape
  <2> QED
    BY <2>1, <2>3, EmptyIsSeq DEF TypeOK
<1>4. StreamMatch'
  BY <1>1, <1>3, EmptyIsSeq DEF StreamMatch, has_pending_read
<1> QED
  BY <1>2, <1>4

\* The stream and the queue agree on the request answered next.
LEMMA StreamSend ==
    ASSUME NonEmptyRequests, StreamInv, NEW k \in 0..MaxPendingWriteBytes, Send(k)
    PROVE  (StreamMatch /\ ReplyMatch)'
<1> DEFINE front == Head(pending_write)
           m == Len(awaiting_read)
           moved == [sink |-> front.sink, deadline |-> front.deadline]
<1>1. TypeOK /\ QueueDiscipline /\ StreamMatch /\ ReplyMatch
  BY DEF StreamInv, QueueInv
<1>2. live /\ pending_write # <<>> /\ UNCHANGED <<results, live, sent>>
  BY DEF Send, on_write_done, has_pending_write
<1>3. ReplyMatch'
  BY <1>1, <1>2 DEF ReplyMatch
<1>4. /\ front \in PendingItem /\ front = pending_write[1]
      /\ 1 \in DOMAIN pending_write
  BY <1>1, <1>2, TailFacts, QueueShape DEF TypeOK
<1>5. /\ front.sink \in Sinks /\ Expected[front.sink] > 0 /\ moved \in AwaitingItem
      /\ moved.sink = front.sink
  BY <1>4 DEF PendingItem, AwaitingItem, NonEmptyRequests
<1>6. results[front.sink] = <<>>
  BY <1>1, <1>4 DEF QueueDiscipline
<1>7. CASE k = Remaining(front)
  <2>1. awaiting_read' = Append(awaiting_read, moved) /\ srv' = Append(srv, front.sink)
    BY <1>5, <1>7 DEF Send, on_write_done, Await
  <2>2. /\ awaiting_read \in Seq(AwaitingItem) /\ srv \in Seq(Sinks) /\ m \in Nat
        /\ DOMAIN awaiting_read = 1..m
        /\ Len(srv) = m /\ \A i \in 1..m : srv[i] = awaiting_read[i].sink
        /\ sent = IF awaiting_read # <<>>
                  THEN Len(results[Head(awaiting_read).sink]) ELSE 0
    BY ZenonT(30), <1>1, <1>2, QueueShape DEF TypeOK, StreamMatch, has_pending_read
  <2>3. /\ awaiting_read' \in Seq(AwaitingItem) /\ Len(awaiting_read') = m + 1
        /\ \A i \in 1..m : awaiting_read'[i] = awaiting_read[i]
        /\ awaiting_read'[m + 1] = moved
    BY <2>1, <2>2, <1>5, AppendFacts
  <2>4. /\ Len(srv') = m + 1 /\ \A i \in 1..m : srv'[i] = srv[i]
        /\ srv'[m + 1] = front.sink
    BY <2>1, <2>2, <1>5, AppendFacts
  <2>5. awaiting_read' # <<>> /\ Head(awaiting_read') = awaiting_read'[1]
    <3>1. awaiting_read' # <<>>
      BY <2>2, <2>3, EmptyIsSeq
    <3> QED
      BY <3>1, <2>3, TailFacts
  <2>6. DOMAIN awaiting_read' = 1..(m + 1)
    BY <2>3, LenFacts
  <2>7. sent = Len(results[Head(awaiting_read').sink])
    <3>1. CASE awaiting_read = <<>>
      <4>1. m = 0 /\ sent = 0
        BY <3>1, <2>2, EmptyIsSeq
      <4>2. Head(awaiting_read') = moved
        BY <4>1, <2>3, <2>5
      <4> QED
        BY <4>1, <4>2, <1>5, <1>6, EmptyIsSeq
    <3>2. CASE awaiting_read # <<>>
      <4>1. Head(awaiting_read) = awaiting_read[1] /\ m > 0
        BY <3>2, <2>2, TailFacts
      <4>2. Head(awaiting_read') = Head(awaiting_read)
        BY <4>1, <2>2, <2>3, <2>5
      <4> QED
        BY <4>2, <3>2, <2>2
    <3> QED
      BY <3>1, <3>2
  <2>8. \A i \in 1..(m + 1) : srv'[i] = awaiting_read'[i].sink
    <3> HIDE DEF m, moved, front
    <3>1. \A i \in 1..(m + 1) : i \in 1..m \/ i = m + 1
      BY SMTT(30), <2>2
    <3> QED
      BY <3>1, <2>2, <2>3, <2>4, <1>5
  <2>9. StreamMatch'
    BY <2>3, <2>4, <2>5, <2>6, <2>7, <2>8, <1>2 DEF StreamMatch, has_pending_read
  <2> QED
    BY <2>9, <1>3
<1>8. CASE k # Remaining(front)
  <2>1. UNCHANGED <<awaiting_read, srv>>
    BY <1>8 DEF Send, on_write_done
  <2>2. StreamMatch'
    BY SMTT(30), <2>1, <1>1, <1>2 DEF StreamMatch, has_pending_read
  <2> QED
    BY <2>2, <1>3
<1> QED
  BY <1>7, <1>8

\* The reply that arrives answers the next free slot of the front sink.
LEMMA StreamReceive ==
    ASSUME StreamInv, Receive
    PROVE  (StreamMatch /\ ReplyMatch)'
<1> DEFINE m == Len(awaiting_read)
           s == awaiting_read[1].sink
           x == Reply(Head(srv), sent + 1)
           k == Len(results[s])
<1>1. TypeOK /\ QueueDiscipline /\ StreamMatch /\ ReplyMatch /\ QueueInv
  BY DEF StreamInv, QueueInv
<1>2. x \in Slots /\ DeliverFront(x) /\ live /\ srv # <<>> /\ UNCHANGED live
  BY SMTT(30) DEF Receive, on_message, Slots
<1>3. /\ m \in Nat /\ m > 0 /\ s \in Sinks
      /\ results[s] \in Seq(Slots) /\ k < Expected[s]
      /\ results' = [results EXCEPT ![s] = Append(results[s], x)]
      /\ \/ k + 1 < Expected[s] /\ awaiting_read' = awaiting_read
         \/ k + 1 = Expected[s] /\ awaiting_read' = Tail(awaiting_read)
  BY SMTT(30), <1>1, <1>2, DeliverFacts
<1>4. /\ awaiting_read \in Seq(AwaitingItem) /\ srv \in Seq(Sinks)
      /\ awaiting_read # <<>> /\ Head(awaiting_read) = awaiting_read[1]
      /\ Head(srv) = srv[1] /\ DOMAIN awaiting_read = 1..m /\ 1 \in 1..m
  BY SMTT(30), <1>1, <1>2, <1>3, TailFacts, EmptyIsSeq, QueueShape DEF TypeOK
<1>5. /\ Len(srv) = m /\ \A i \in 1..m : srv[i] = awaiting_read[i].sink
      /\ Head(srv) = s /\ sent = k /\ k \in Nat /\ Expected[s] \in Nat
  BY SMTT(30), <1>1, <1>2, <1>3, <1>4, Numbers, LenFacts DEF StreamMatch, has_pending_read
<1>6. /\ results'[s] = Append(results[s], x)
      /\ \A t \in Sinks : t # s => results'[t] = results[t]
  BY <1>1, <1>3 DEF TypeOK
<1>7. /\ Len(results'[s]) = k + 1 /\ DOMAIN results'[s] = 1..(k + 1)
      /\ \A i \in 1..k : results'[s][i] = results[s][i]
      /\ results'[s][k + 1] = Reply(s, k + 1)
      /\ DOMAIN results[s] = 1..k
  <2>1. x = Reply(s, k + 1) /\ k = Len(results[s])
    BY SMTT(30), <1>5
  <2> HIDE DEF s, k, x
  <2>2. /\ Append(results[s], x) \in Seq(Slots)
        /\ Len(Append(results[s], x)) = k + 1
        /\ \A i \in 1..k : Append(results[s], x)[i] = results[s][i]
        /\ Append(results[s], x)[k + 1] = x
    BY SMTT(30), <2>1, <1>2, <1>3, AppendFacts
  <2>3. /\ DOMAIN Append(results[s], x) = 1..(k + 1)
        /\ DOMAIN results[s] = 1..k
    BY <2>1, <2>2, <1>3, LenFacts
  <2> QED
    BY <2>1, <2>2, <2>3, <1>6
<1>8. ReplyMatch'
  <2> HIDE DEF s, k, x
  <2>1. \A i \in 1..(k + 1) : i \in 1..k \/ i = k + 1
    BY <1>5
  <2>2. \A i \in DOMAIN results'[s] :
            results'[s][i] \in Replies => results'[s][i] = Reply(s, i)
    BY <2>1, <1>1, <1>3, <1>7 DEF ReplyMatch
  <2> QED
    BY <2>2, <1>1, <1>6 DEF ReplyMatch
<1>9. CASE k + 1 < Expected[s] /\ awaiting_read' = awaiting_read
  <2>1. sent' = k + 1 /\ srv' = srv
    BY SMTT(30), <1>5, <1>9 DEF Receive
  <2>2. StreamMatch'
    BY <2>1, <1>2, <1>4, <1>5, <1>7, <1>9 DEF StreamMatch, has_pending_read
  <2> QED
    BY <2>2, <1>8
<1>10. CASE k + 1 = Expected[s] /\ awaiting_read' = Tail(awaiting_read)
  <2>1. sent' = 0 /\ srv' = Tail(srv)
    BY <1>5, <1>10 DEF Receive
  <2>2. /\ awaiting_read' \in Seq(AwaitingItem) /\ Len(awaiting_read') = m - 1
        /\ \A i \in 1..(m - 1) : awaiting_read'[i] = awaiting_read[i + 1]
    BY <1>4, <1>10, TailFacts
  <2>3. Len(srv') = m - 1 /\ \A i \in 1..(m - 1) : srv'[i] = srv[i + 1]
    BY <2>1, <1>2, <1>4, <1>5, TailFacts
  <2>4. DOMAIN awaiting_read' = 1..(m - 1)
    BY <2>2, LenFacts
  <2>5. \A i \in 1..(m - 1) : srv'[i] = awaiting_read'[i].sink
    <3> HIDE DEF m
    <3>1. \A i \in 1..(m - 1) : i + 1 \in 1..m
      BY <1>3
    <3> QED
      BY <3>1, <2>2, <2>3, <1>5
  <2>6. ASSUME awaiting_read' # <<>>
        PROVE  Len(results'[Head(awaiting_read').sink]) = 0
    <3>1. Head(awaiting_read') = awaiting_read'[1] /\ m - 1 > 0
      BY <2>2, <2>6, TailFacts
    <3>2. Head(awaiting_read') = awaiting_read[2] /\ 2 \in 1..m
      BY <3>1, <2>2, <1>3
    <3>3. /\ awaiting_read[2].sink # s /\ awaiting_read[2].sink \in Sinks
          /\ results[awaiting_read[2].sink] = <<>>
      BY <3>2, <1>1, <1>4, QueueShape DEF QueueDiscipline
    <3> QED
      BY <3>2, <3>3, <1>6, EmptyIsSeq
  <2>7. StreamMatch'
    BY SMTT(30), <2>1, <2>2, <2>3, <2>4, <2>5, <2>6 DEF StreamMatch, has_pending_read
  <2> QED
    BY <2>7, <1>8
<1> QED
  BY <1>3, <1>9, <1>10

\* Errors fill slots and end the stream: no reply is added.
LEMMA StreamReceiveBad ==
    ASSUME StreamInv, NEW err \in Errors, ReceiveBad(err)
    PROVE  (StreamMatch /\ ReplyMatch)'
<1> DEFINE s == awaiting_read[1].sink
           k == Len(results[s])
<1>1. TypeOK /\ ReplyMatch /\ QueueInv
  BY DEF StreamInv, QueueInv
<1>2. err \in Slots /\ DeliverFront(err) /\ live' = FALSE
  BY DEF ReceiveBad, on_error, Slots
<1>3. /\ s \in Sinks /\ results[s] \in Seq(Slots)
      /\ results' = [results EXCEPT ![s] = Append(results[s], err)]
  BY <1>1, <1>2, DeliverFacts
<1>4. /\ results'[s] = Append(results[s], err)
      /\ \A t \in Sinks : t # s => results'[t] = results[t]
  BY SMTT(30), <1>1, <1>3 DEF TypeOK
<1>5. /\ DOMAIN results'[s] = 1..(k + 1) /\ DOMAIN results[s] = 1..k
      /\ \A i \in 1..k : results'[s][i] = results[s][i]
      /\ results'[s][k + 1] = err /\ k \in Nat
  <2>1. /\ Append(results[s], err) \in Seq(Slots) /\ Len(results'[s]) = k + 1
        /\ \A i \in 1..k : results'[s][i] = results[s][i]
        /\ results'[s][k + 1] = err
    BY SMTT(30), <1>2, <1>3, <1>4, AppendFacts
  <2> QED
    BY SMTT(30), <2>1, <1>3, <1>4, LenFacts
<1>6. err \notin Replies
  BY PipelineConstants DEF PipelineConstants
<1>7. ReplyMatch'
  <2> HIDE DEF s, k
  <2>1. \A i \in 1..(k + 1) : i \in 1..k \/ i = k + 1
    BY <1>5
  <2>2. \A i \in DOMAIN results'[s] :
            results'[s][i] \in Replies => results'[s][i] = Reply(s, i)
    BY <2>1, <1>1, <1>3, <1>5, <1>6 DEF ReplyMatch
  <2> QED
    BY SMTT(30), <2>2, <1>1, <1>4 DEF ReplyMatch
<1>8. StreamMatch'
  BY <1>2 DEF StreamMatch
<1> QED
  BY <1>7, <1>8

LEMMA StreamDisconnect ==
    ASSUME StreamInv, NEW err \in Errors, Disconnect(err)
    PROVE  (StreamMatch /\ ReplyMatch)'
<1>1. TypeOK /\ ReplyMatch
  BY DEF StreamInv, QueueInv
<1>2. /\ live' = FALSE
      /\ results' = [s \in Sinks |->
                        IF s \in QueuedSinks THEN fail_all(s, err) ELSE results[s]]
  BY DEF Disconnect, clear_all
<1>3. err \notin Replies
  BY PipelineConstants DEF PipelineConstants
<1>4. ASSUME NEW s \in Sinks, NEW i \in DOMAIN fail_all(s, err),
             fail_all(s, err)[i] \in Replies
      PROVE  fail_all(s, err)[i] = Reply(s, i)
  <2>1. i \in 1..Expected[s] /\ Expected[s] \in Nat
    BY <1>1, <1>4, FailAllSlots, Numbers
  <2>2. fail_all(s, err)[i] = IF i <= Len(results[s]) THEN results[s][i] ELSE err
    BY <2>1, <1>1, FailAllSlots
  <2>3. i <= Len(results[s]) /\ fail_all(s, err)[i] = results[s][i]
    BY <2>2, <1>3, <1>4
  <2>4. results[s] \in Seq(Slots)
    BY SMTT(30), <1>1 DEF TypeOK
  <2>5. i \in DOMAIN results[s]
    BY SMTT(30), <2>1, <2>3, <2>4, LenFacts
  <2> QED
    BY <2>3, <2>5, <1>1, <1>4 DEF ReplyMatch
<1>5. ReplyMatch'
  BY SMTT(30), <1>1, <1>2, <1>4 DEF ReplyMatch
<1>6. StreamMatch'
  BY <1>2 DEF StreamMatch
<1> QED
  BY <1>5, <1>6

LEMMA StreamStep ==
    ASSUME NonEmptyRequests, PushWhilePending = FALSE, StreamInv, [Next]_vars
    PROVE  StreamInv'
<1>1. QueueInv'
  BY QueueStep DEF StreamInv
<1>2. CASE UNCHANGED vars
  BY SMTT(30), <1>1, <1>2 DEF StreamInv, StreamMatch, ReplyMatch, has_pending_read, vars,
                    pipelineVars, peerVars
<1>3. ASSUME NEW s \in Sinks, NEW d \in 0..TimeMax, Push(s, d)
      PROVE  (StreamMatch /\ ReplyMatch)'
  BY <1>3 DEF Push, push, peerVars, StreamInv, StreamMatch, ReplyMatch, has_pending_read
<1>4. ~ReceivePush
  BY DEF ReceivePush
<1>5. CASE Next
  BY <1>1, <1>3, <1>4, <1>5, StreamReject, StreamEstablish, StreamSend, StreamReceive,
     StreamReceiveBad, StreamDisconnect DEF Next, StreamInv
<1> QED
  BY <1>2, <1>5

LEMMA StreamAlways ==
    ASSUME NonEmptyRequests, PushWhilePending = FALSE
    PROVE  Spec => []StreamInv
<1>1. Init => StreamInv
  <2>1. ASSUME Init PROVE StreamMatch /\ ReplyMatch
    <3>1. \A s \in Sinks : DOMAIN results[s] = {}
      BY ZenonT(30), <2>1, EmptyHasNone DEF Init, PipelineInit
    <3> QED
      BY <3>1, <2>1 DEF Init, StreamMatch, ReplyMatch
  <2> QED
    BY <2>1, QueueInit DEF StreamInv
<1>2. StreamInv /\ [Next]_vars => StreamInv'
  BY ZenonT(30), StreamStep
<1> QED
  BY <1>1, <1>2, PTL DEF Spec

\* What the server owes on a live stream is what awaiting_read waits for, from
\* the same slot on: the two ends never drift apart, however requests are split
\* over writes (on_write_done, on_message).
THEOREM EndsAgree ==
    ASSUME NonEmptyRequests, PushWhilePending = FALSE
    PROVE  Spec => []StreamMatch
<1>1. StreamInv => StreamMatch
  BY DEF StreamInv
<1> QED
  BY <1>1, StreamAlways, PTL

\* Every reply a sink holds answers the command of its slot, whatever the
\* requests, the split of their bytes over writes, the errors and the
\* reconnections, as long as the server sends nothing but replies.
THEOREM RepliesMatch ==
    ASSUME NonEmptyRequests, PushWhilePending = FALSE
    PROVE  Spec => []ReplyMatch
<1>1. StreamInv => ReplyMatch
  BY DEF StreamInv
<1> QED
  BY <1>1, StreamAlways, PTL


-----------------------------------------------------------------------------

(* What the queues hold. *)

\* Each queued request with its deadline.
Held ==
    {<<pending_write[i].sink, pending_write[i].deadline>> : i \in DOMAIN pending_write}
      \cup {<<awaiting_read[i].sink, awaiting_read[i].deadline>> : i \in DOMAIN awaiting_read}

\* Requests may leave the queues, none enters, and a sink that is not queued is
\* left alone.
Drains ==
    /\ Held' \subseteq Held
    /\ \A s \in Sinks \ QueuedSinks : results'[s] = results[s]

\* The queued sinks and deadlines are those of Held.
LEMMA HeldSinks ==
    /\ \A s : s \in QueuedSinks <=> \E d : <<s, d>> \in Held
    /\ \A d : d \in QueuedDeadlines <=> \E s : <<s, d>> \in Held
<1>1. ASSUME NEW s PROVE s \in QueuedSinks => \E d : <<s, d>> \in Held
  BY DEF QueuedSinks, PendingWriteSinks, AwaitingReadSinks, Held
<1>2. ASSUME NEW s, NEW d, <<s, d>> \in Held PROVE s \in QueuedSinks
  BY <1>2 DEF QueuedSinks, PendingWriteSinks, AwaitingReadSinks, Held
<1>3. ASSUME NEW d PROVE d \in QueuedDeadlines => \E s : <<s, d>> \in Held
  BY DEF QueuedDeadlines, Held
<1>4. ASSUME NEW s, NEW d, <<s, d>> \in Held PROVE d \in QueuedDeadlines
  BY <1>4 DEF QueuedDeadlines, Held
<1> QED
  BY ZenonT(30), <1>1, <1>2, <1>3, <1>4

\* push() adds its request.
LEMMA HeldPush ==
    ASSUME QueueInv, NEW s \in Sinks, NEW d \in 0..TimeMax, push(s, d)
    PROVE  Held' = Held \cup {<<s, d>>} /\ results' = results
<1> DEFINE item == [sink |-> s, written |-> 0, deadline |-> d]
           n == Len(pending_write)
<1>1. pending_write' = Append(pending_write, item) /\ UNCHANGED <<awaiting_read, results>>
  BY DEF push
<1>2. pending_write \in Seq(PendingItem) /\ item \in PendingItem
  BY DEF QueueInv, TypeOK, PendingItem
<1>3. /\ DOMAIN pending_write = 1..n /\ DOMAIN pending_write' = 1..(n + 1) /\ n \in Nat
      /\ \A i \in 1..n : pending_write'[i] = pending_write[i]
      /\ pending_write'[n + 1] = item
  BY <1>1, <1>2, AppendFacts, LenFacts
<1>4. item.sink = s /\ item.deadline = d
  OBVIOUS
<1> HIDE DEF item, n
<1>5. \A i \in 1..(n + 1) : i \in 1..n \/ i = n + 1
  BY <1>3
<1>6. 1..n \subseteq 1..(n + 1) /\ n + 1 \in 1..(n + 1)
  BY <1>3
<1> QED
  BY ZenonT(30), <1>1, <1>3, <1>4, <1>5, <1>6 DEF Held

\* Each other operation drains the queues.
LEMMA DrainsSame == ASSUME UNCHANGED pipelineVars PROVE Drains
  BY DEF pipelineVars, Drains, Held

LEMMA DrainsSend ==
    ASSUME QueueInv, NEW k \in Nat, Send(k)
    PROVE  Drains
<1> DEFINE front == Head(pending_write)
           moved == [sink |-> front.sink, deadline |-> front.deadline]
           n == Len(pending_write)
           m == Len(awaiting_read)
<1>1. /\ pending_write # <<>> /\ results' = results
      /\ \/ /\ pending_write' = Tail(pending_write)
            /\ awaiting_read' = Append(awaiting_read, moved)
         \/ /\ pending_write' = [pending_write EXCEPT ![1].written = @ + k]
            /\ UNCHANGED awaiting_read
  BY DEF Send, on_write_done, Await, has_pending_write
<1>2. pending_write \in Seq(PendingItem) /\ awaiting_read \in Seq(AwaitingItem)
  BY DEF QueueInv, TypeOK
<1>3. /\ n \in Nat /\ n > 0 /\ front = pending_write[1] /\ front \in PendingItem
      /\ DOMAIN pending_write = 1..n /\ DOMAIN awaiting_read = 1..m /\ m \in Nat
  BY <1>1, <1>2, TailFacts, LenFacts
<1>4. CASE pending_write' = Tail(pending_write) /\ awaiting_read' = Append(awaiting_read, moved)
  <2>1. /\ DOMAIN pending_write' = 1..(n - 1)
        /\ \A i \in 1..(n - 1) : pending_write'[i] = pending_write[i + 1] /\ i + 1 \in 1..n
    BY <1>2, <1>3, <1>4, <1>1, TailFacts, LenFacts
  <2>2. moved \in AwaitingItem
    BY <1>3 DEF PendingItem, AwaitingItem
  <2>3. /\ DOMAIN awaiting_read' = 1..(m + 1)
        /\ \A i \in 1..m : awaiting_read'[i] = awaiting_read[i]
        /\ awaiting_read'[m + 1] = moved
    BY <1>2, <1>3, <1>4, <2>2, AppendFacts, LenFacts
  <2>4. moved.sink = pending_write[1].sink /\ moved.deadline = pending_write[1].deadline
    BY <1>3
  <2>5. 1 \in 1..n /\ \A i \in 1..(m + 1) : i \in 1..m \/ i = m + 1
    BY <1>3
  <2> HIDE DEF moved, n, m
  <2>6. Held' \subseteq Held
    <3>1. \A i \in 1..(n - 1) :
              <<pending_write'[i].sink, pending_write'[i].deadline>> \in Held
      BY <1>3, <2>1 DEF Held
    <3>2. \A i \in 1..m : <<awaiting_read'[i].sink, awaiting_read'[i].deadline>> \in Held
      BY <1>3, <2>3 DEF Held
    <3>3. <<awaiting_read'[m + 1].sink, awaiting_read'[m + 1].deadline>> \in Held
      BY <1>3, <2>3, <2>4, <2>5 DEF Held
    <3> QED
      BY ZenonT(30), <2>1, <2>3, <2>5, <3>1, <3>2, <3>3 DEF Held
  <2> QED
    BY <1>1, <2>6 DEF Drains
<1>5. CASE /\ pending_write' = [pending_write EXCEPT ![1].written = @ + k]
           /\ UNCHANGED awaiting_read
  <2>1. /\ DOMAIN pending_write' = 1..n
        /\ \A i \in 1..n : /\ pending_write'[i].sink = pending_write[i].sink
                            /\ pending_write'[i].deadline = pending_write[i].deadline
    <3>1. \A i \in 1..n : pending_write[i] \in PendingItem
      BY <1>2, <1>3, AtFacts
    <3> QED
      BY <1>3, <1>5, <3>1 DEF PendingItem
  <2>2. Held' \subseteq Held
    BY <1>3, <1>5, <2>1 DEF Held
  <2> QED
    BY <1>1, <2>2 DEF Drains
<1> QED
  BY <1>1, <1>4, <1>5

LEMMA DrainsDeliver ==
    ASSUME QueueInv, NEW x \in Slots, DeliverFront(x)
    PROVE  Drains
<1> DEFINE m == Len(awaiting_read)
           s == awaiting_read[1].sink
<1>1. /\ m \in Nat /\ m > 0 /\ s \in Sinks
      /\ results' = [results EXCEPT ![s] = Append(results[s], x)]
      /\ awaiting_read' = awaiting_read \/ awaiting_read' = Tail(awaiting_read)
      /\ pending_write' = pending_write
  BY DeliverFacts
<1>2. awaiting_read \in Seq(AwaitingItem) /\ results \in [Sinks -> Seq(Slots)]
  BY DEF QueueInv, TypeOK
<1>3. DOMAIN awaiting_read = 1..m
  BY <1>2, LenFacts
<1>4. Held' \subseteq Held
  <2>1. CASE awaiting_read' = awaiting_read
    BY <1>1, <2>1 DEF Held
  <2>2. CASE awaiting_read' = Tail(awaiting_read)
    <3>0. awaiting_read # <<>>
      BY <1>1, EmptyIsSeq
    <3>1. /\ DOMAIN awaiting_read' = 1..(m - 1)
          /\ \A i \in 1..(m - 1) : awaiting_read'[i] = awaiting_read[i + 1] /\ i + 1 \in 1..m
      BY <1>1, <1>2, <2>2, <3>0, TailFacts, LenFacts
    <3> HIDE DEF m
    <3> QED
      BY <1>1, <1>3, <3>1 DEF Held
  <2> QED
    BY <1>1, <2>1, <2>2
<1>5. s \in QueuedSinks
  BY <1>1, <1>3 DEF QueuedSinks, AwaitingReadSinks
<1> QED
  BY <1>1, <1>2, <1>4, <1>5 DEF Drains

LEMMA DrainsReceive ==
    ASSUME QueueInv, Receive \/ ReceivePush \/ \E err \in Errors : ReceiveBad(err)
    PROVE  Drains
<1>1. \E x \in Slots : DeliverFront(x)
  BY DEF Receive, ReceivePush, ReceiveBad, on_message, on_error, Slots
<1> QED
  BY <1>1, DrainsDeliver

LEMMA DrainsDisconnect ==
    ASSUME NEW err, Disconnect(err)
    PROVE  Drains /\ Held' = {}
<1>1. /\ pending_write' = <<>> /\ awaiting_read' = <<>>
      /\ results' = [s \in Sinks |->
                        IF s \in QueuedSinks THEN fail_all(s, err) ELSE results[s]]
  BY DEF Disconnect, clear_all
<1>2. Held' = {}
  BY <1>1, EmptyHasNone DEF Held
<1> QED
  BY <1>1, <1>2 DEF Drains

LEMMA HeldSinksNext ==
    /\ \A s : s \in QueuedSinks' <=> \E d : <<s, d>> \in Held'
    /\ \A d : d \in QueuedDeadlines' <=> \E s : <<s, d>> \in Held'
<1>1. ASSUME NEW s PROVE s \in QueuedSinks' => \E d : <<s, d>> \in Held'
  BY DEF QueuedSinks, PendingWriteSinks, AwaitingReadSinks, Held
<1>2. ASSUME NEW s, NEW d, <<s, d>> \in Held' PROVE s \in QueuedSinks'
  BY <1>2 DEF QueuedSinks, PendingWriteSinks, AwaitingReadSinks, Held
<1>3. ASSUME NEW d PROVE d \in QueuedDeadlines' => \E s : <<s, d>> \in Held'
  BY DEF QueuedDeadlines, Held
<1>4. ASSUME NEW s, NEW d, <<s, d>> \in Held' PROVE d \in QueuedDeadlines'
  BY <1>4 DEF QueuedDeadlines, Held
<1> QED
  BY ZenonT(30), <1>1, <1>2, <1>3, <1>4

\* Draining the queues makes nothing queued, and leaves fresh sinks fresh.
LEMMA DrainsQueued ==
    ASSUME Drains
    PROVE  /\ QueuedSinks' \subseteq QueuedSinks
           /\ \A s \in Sinks : Fresh(s) => Fresh(s)'
<1>1. QueuedSinks' \subseteq QueuedSinks
  BY HeldSinks, HeldSinksNext, ZenonT(30) DEF Drains
<1>2. \A s \in Sinks : Fresh(s) => Fresh(s)'
  BY <1>1 DEF Fresh, Drains
<1> QED
  BY <1>1, <1>2

LEMMA PushQueued ==
    ASSUME QueueInv, NEW s \in Sinks, NEW d \in 0..TimeMax, push(s, d)
    PROVE  /\ QueuedSinks' = QueuedSinks \cup {s}
           /\ results' = results
<1>1. Held' = Held \cup {<<s, d>>} /\ results' = results
  BY HeldPush
<1>2. ASSUME NEW q PROVE q \in QueuedSinks' <=> q \in QueuedSinks \cup {s}
  BY <1>1, HeldSinks, HeldSinksNext, ZenonT(30)
<1> QED
  BY <1>1, <1>2

\* A sink that holds all its replies has left the queues.
LEMMA CompleteLeft ==
    ASSUME QueueInv, NEW s \in Sinks, is_complete(s)
    PROVE  s \notin QueuedSinks
  BY DEF QueueInv, QueueDiscipline, is_complete, CompleteWith, QueuedSinks, PendingWriteSinks,
     AwaitingReadSinks

\* What is queued is a sink, with a time.
LEMMA HeldTypes ==
    ASSUME TypeOK
    PROVE  /\ QueuedSinks \subseteq Sinks
           /\ \A s, d : <<s, d>> \in Held => s \in QueuedSinks /\ d \in 0..TimeMax
<1>1. /\ \A i \in DOMAIN pending_write : pending_write[i] \in PendingItem
      /\ \A i \in DOMAIN awaiting_read : awaiting_read[i] \in AwaitingItem
  BY LenFacts, AtFacts DEF TypeOK
<1>2. /\ \A i \in DOMAIN pending_write :
             pending_write[i].sink \in Sinks /\ pending_write[i].deadline \in 0..TimeMax
      /\ \A i \in DOMAIN awaiting_read :
             awaiting_read[i].sink \in Sinks /\ awaiting_read[i].deadline \in 0..TimeMax
  BY <1>1 DEF PendingItem, AwaitingItem
<1>3. QueuedSinks \subseteq Sinks
  BY Zenon, <1>2 DEF QueuedSinks, PendingWriteSinks, AwaitingReadSinks
<1>4. \A s, d : <<s, d>> \in Held => d \in 0..TimeMax
  BY <1>2 DEF Held
<1> QED
  BY Zenon, <1>3, <1>4, HeldSinks

\* clear_all() of an empty pipeline changes nothing.
LEMMA EmptyCleared ==
    ASSUME QueueInv, QueuedSinks = {}, UNCHANGED pipelineVars,
           live' = FALSE, srv' = <<>>, sent' = 0, NEW err
    PROVE  Disconnect(err)
<1>1. DOMAIN pending_write = {} /\ DOMAIN awaiting_read = {}
  BY Zenon DEF QueuedSinks, PendingWriteSinks, AwaitingReadSinks
<1>2. Len(pending_write) = 0 /\ pending_write = <<>> /\ awaiting_read = <<>>
  BY <1>1, QueueShape DEF QueueInv, TypeOK
<1>3. pending_write_bytes = 0
  BY <1>2 DEF QueueInv, BytesAccounted
<1>4. results = [s \in Sinks |-> results[s]]
  BY DEF QueueInv, TypeOK
<1> QED
  BY <1>2, <1>3, <1>4 DEF pipelineVars, Disconnect, clear_all

LEMMA DeadlineNat == ASSUME TypeOK PROVE next_deadline \in Nat
<1>1. has_pending_write => Head(pending_write) \in PendingItem
  BY TailFacts DEF TypeOK, has_pending_write
<1>2. has_pending_read => Head(awaiting_read) \in AwaitingItem
  BY TailFacts DEF TypeOK, has_pending_read
<1>3. has_pending_write => Head(pending_write).deadline \in Nat
  BY <1>1, Numbers DEF PendingItem
<1>4. has_pending_read => Head(awaiting_read).deadline \in Nat
  BY <1>2, Numbers DEF AwaitingItem
<1> QED
  BY <1>3, <1>4, Numbers DEF next_deadline

-----------------------------------------------------------------------------
(* With one request timeout for all requests the fronts are enough, for any *)
(* number of requests, because the deadlines never decrease along            *)
(* awaiting_read and then along pending_write.                               *)

\* Deadlines along the queues, oldest request first.
Sorted ==
    /\ \A i, j \in DOMAIN pending_write :
           i <= j => pending_write[i].deadline <= pending_write[j].deadline
    /\ \A i, j \in DOMAIN awaiting_read :
           i <= j => awaiting_read[i].deadline <= awaiting_read[j].deadline
    /\ \A i \in DOMAIN awaiting_read, j \in DOMAIN pending_write :
           awaiting_read[i].deadline <= pending_write[j].deadline

DeadlineInv == QueueInv /\ Sorted

\* Sorted only depends on the queues.
LEMMA SortedKept ==
    ASSUME Sorted, UNCHANGED <<pending_write, awaiting_read>>
    PROVE  Sorted'
  BY DEF Sorted

\* The deadlines of queued requests are numbers.
LEMMA DeadlinesAreNumbers ==
    ASSUME TypeOK
    PROVE  /\ \A i \in 1..Len(pending_write) : pending_write[i].deadline \in 0..TimeMax
           /\ \A i \in 1..Len(awaiting_read) : awaiting_read[i].deadline \in 0..TimeMax
           /\ TimeMax \in Nat
<1>1. \A i \in 1..Len(pending_write) : pending_write[i] \in PendingItem
  BY QueueShape
<1>2. \A i \in 1..Len(awaiting_read) : awaiting_read[i] \in AwaitingItem
  BY QueueShape, AtFacts DEF TypeOK
<1>3. TimeMax \in Nat
  BY PipelineConstants DEF PipelineConstants
<1> QED
  BY <1>1, <1>2, <1>3 DEF PendingItem, AwaitingItem

\* push() appends the latest deadline.
LEMMA SortedPush ==
    ASSUME FifoDeadlines = TRUE, DeadlineInv,
           NEW s \in Sinks, NEW d \in 0..TimeMax, Push(s, d)
    PROVE  Sorted'
<1> DEFINE x == [sink |-> s, written |-> 0, deadline |-> d]
<1>1. TypeOK /\ Sorted
  BY DEF DeadlineInv, QueueInv
<1>2. pending_write' = Append(pending_write, x) /\ awaiting_read' = awaiting_read
  BY DEF Push, push
<1>3. x \in PendingItem /\ x.deadline = d
  BY DEF PendingItem
<1>4. pending_write \in Seq(PendingItem)
  BY <1>1 DEF TypeOK
<1> HIDE DEF x
<1>5. /\ Append(pending_write, x) \in Seq(PendingItem)
      /\ Len(Append(pending_write, x)) = Len(pending_write) + 1
      /\ \A i \in 1..Len(pending_write) : Append(pending_write, x)[i] = pending_write[i]
      /\ Append(pending_write, x)[Len(pending_write) + 1] = x
  BY <1>3, <1>4, AppendFacts
<1>6. DOMAIN pending_write' = 1..(Len(pending_write) + 1)
  BY <1>2, <1>5, LenFacts
<1>7. /\ \A i \in DOMAIN pending_write : pending_write[i].deadline <= d
      /\ \A i \in DOMAIN awaiting_read : awaiting_read[i].deadline <= d
  BY DEF Push, DeadlineAllowed, QueuedDeadlines
<1>8. Len(pending_write) \in Nat /\ DOMAIN pending_write = 1..Len(pending_write)
      /\ DOMAIN awaiting_read = 1..Len(awaiting_read)
  BY <1>1, QueueShape
<1>9. \A i \in DOMAIN pending_write' :
          \/ i \in DOMAIN pending_write /\ pending_write'[i] = pending_write[i]
          \/ i = Len(pending_write) + 1 /\ pending_write'[i].deadline = d
  BY <1>2, <1>3, <1>5, <1>6, <1>8
<1>10. d <= d
  OBVIOUS
<1>11. \A i \in DOMAIN pending_write : i <= Len(pending_write) /\ i \in Nat
  BY <1>8
<1> QED
  BY <1>1, <1>2, <1>7, <1>8, <1>9, <1>10, <1>11 DEF Sorted

\* A written request goes from the front of pending_write to the end of
\* awaiting_read.
LEMMA SortedSend ==
    ASSUME DeadlineInv, NEW n \in 0..MaxPendingWriteBytes, Send(n)
    PROVE  Sorted'
<1> DEFINE front == Head(pending_write)
           item == [sink |-> front.sink, deadline |-> front.deadline]
<1>1. TypeOK /\ Sorted
  BY DEF DeadlineInv, QueueInv
<1>2. pending_write \in Seq(PendingItem) /\ awaiting_read \in Seq(AwaitingItem)
  BY <1>1 DEF TypeOK
<1>3. pending_write # <<>>
  BY DEF Send, on_write_done, has_pending_write
<1>4. Len(pending_write) \in Nat /\ DOMAIN pending_write = 1..Len(pending_write)
      /\ Len(awaiting_read) \in Nat /\ DOMAIN awaiting_read = 1..Len(awaiting_read)
  BY <1>1, QueueShape
<1>5. /\ front \in PendingItem /\ front = pending_write[1]
      /\ Tail(pending_write) \in Seq(PendingItem)
      /\ Len(pending_write) > 0
      /\ Len(Tail(pending_write)) = Len(pending_write) - 1
      /\ \A i \in 1..(Len(pending_write) - 1) : Tail(pending_write)[i] = pending_write[i + 1]
  BY <1>2, <1>3, TailFacts
<1>6. CASE n = Remaining(front)
  <2>1. pending_write' = Tail(pending_write) /\ awaiting_read' = Append(awaiting_read, item)
    BY <1>6 DEF Send, on_write_done, Await
  <2>2. item \in AwaitingItem /\ item.deadline = pending_write[1].deadline
    BY <1>5 DEF PendingItem, AwaitingItem
  <2> HIDE DEF item, front
  <2>3. /\ Append(awaiting_read, item) \in Seq(AwaitingItem)
        /\ Len(Append(awaiting_read, item)) = Len(awaiting_read) + 1
        /\ \A i \in 1..Len(awaiting_read) : Append(awaiting_read, item)[i] = awaiting_read[i]
        /\ Append(awaiting_read, item)[Len(awaiting_read) + 1] = item
    BY <1>2, <2>2, AppendFacts
  <2>4. /\ DOMAIN awaiting_read' = 1..(Len(awaiting_read) + 1)
        /\ DOMAIN pending_write' = 1..(Len(pending_write) - 1)
    BY <1>5, <2>1, <2>3, LenFacts
  <2>5. \A i \in DOMAIN awaiting_read' :
            \/ i \in DOMAIN awaiting_read /\ awaiting_read'[i] = awaiting_read[i]
            \/ i = Len(awaiting_read) + 1 /\ awaiting_read'[i].deadline = pending_write[1].deadline
    BY <1>4, <2>1, <2>2, <2>3, <2>4
  <2>6. \A i \in DOMAIN pending_write' :
            i + 1 \in DOMAIN pending_write /\ pending_write'[i] = pending_write[i + 1]
    BY <1>4, <1>5, <2>1, <2>4
  <2>7. 1 \in DOMAIN pending_write /\ pending_write[1].deadline \in Nat
    BY <1>1, <1>4, <1>5, DeadlinesAreNumbers
  <2>8. ASSUME NEW i \in DOMAIN pending_write', NEW j \in DOMAIN pending_write', i <= j
        PROVE  pending_write'[i].deadline <= pending_write'[j].deadline
    <3>1. i + 1 <= j + 1
      BY <2>4, <2>8, <1>4
    <3> QED
      BY <1>1, <2>6, <2>8, <3>1 DEF Sorted
  <2>9. ASSUME NEW i \in DOMAIN awaiting_read', NEW j \in DOMAIN awaiting_read', i <= j
        PROVE  awaiting_read'[i].deadline <= awaiting_read'[j].deadline
    <3>1. \A k \in DOMAIN awaiting_read : k \in Nat /\ k <= Len(awaiting_read)
      BY <1>4
    <3>2. pending_write[1].deadline <= pending_write[1].deadline
      BY <2>7
    <3> QED
      BY <1>1, <1>4, <2>5, <2>7, <2>9, <3>1, <3>2 DEF Sorted
  <2>10. ASSUME NEW i \in DOMAIN awaiting_read', NEW j \in DOMAIN pending_write'
         PROVE  awaiting_read'[i].deadline <= pending_write'[j].deadline
    <3>1. 1 <= j + 1 /\ j + 1 \in DOMAIN pending_write
      BY <2>4, <2>6, <1>4
    <3> QED
      BY <1>1, <2>5, <2>6, <2>7, <3>1 DEF Sorted
  <2> QED
    BY <2>8, <2>9, <2>10 DEF Sorted
<1>7. CASE n # Remaining(front)
  <2>1. pending_write' = [pending_write EXCEPT ![1].written = @ + n]
        /\ awaiting_read' = awaiting_read
    BY <1>7 DEF Send, on_write_done
  <2>2. DOMAIN pending_write' = DOMAIN pending_write
    BY <2>1
  <2>3. \A i \in DOMAIN pending_write : pending_write'[i].deadline = pending_write[i].deadline
    <3>1. \A i \in DOMAIN pending_write : pending_write[i] \in PendingItem
      BY <1>1, <1>4, QueueShape
    <3> QED
      BY <1>4, <2>1, <3>1 DEF PendingItem
  <2> QED
    BY <1>1, <2>1, <2>2, <2>3 DEF Sorted
<1> QED
  BY <1>6, <1>7

\* A delivery may remove the front of awaiting_read.
LEMMA SortedDeliver ==
    ASSUME DeadlineInv, NEW x, DeliverFront(x)
    PROVE  Sorted'
<1>1. TypeOK /\ Sorted
  BY DEF DeadlineInv, QueueInv
<1>2. awaiting_read \in Seq(AwaitingItem) /\ awaiting_read # <<>>
  BY <1>1 DEF TypeOK, DeliverFront, has_pending_read
<1>3. pending_write' = pending_write
  BY DEF DeliverFront
<1>4. Len(awaiting_read) \in Nat /\ DOMAIN awaiting_read = 1..Len(awaiting_read)
  BY <1>1, QueueShape
<1>5. CASE awaiting_read' = awaiting_read
  BY <1>1, <1>3, <1>5, SortedKept
<1>6. CASE awaiting_read' = Tail(awaiting_read)
  <2>1. /\ Tail(awaiting_read) \in Seq(AwaitingItem)
        /\ Len(Tail(awaiting_read)) = Len(awaiting_read) - 1
        /\ \A i \in 1..(Len(awaiting_read) - 1) : Tail(awaiting_read)[i] = awaiting_read[i + 1]
    BY <1>2, TailFacts
  <2>2. DOMAIN awaiting_read' = 1..(Len(awaiting_read) - 1)
    BY <1>6, <2>1, LenFacts
  <2>3. \A i \in DOMAIN awaiting_read' :
            i + 1 \in DOMAIN awaiting_read /\ awaiting_read'[i] = awaiting_read[i + 1]
    BY <1>4, <1>6, <2>1, <2>2
  <2>4. \A i, j \in DOMAIN awaiting_read' : i <= j => i + 1 <= j + 1
    BY <2>2, <1>4
  <2> QED
    BY <1>1, <1>3, <2>3, <2>4 DEF Sorted
<1> QED
  BY <1>5, <1>6 DEF DeliverFront, LeaveQueue

LEMMA SortedStep ==
    ASSUME NonEmptyRequests, FifoDeadlines = TRUE, DeadlineInv, [Next]_vars
    PROVE  DeadlineInv'
<1>1. QueueInv' /\ Sorted
  BY QueueStep DEF DeadlineInv
<1>2. CASE UNCHANGED vars
  BY <1>1, <1>2, SortedKept DEF vars, pipelineVars, DeadlineInv
<1>3. ASSUME NEW s \in Sinks, NEW err \in Errors, Reject(s, err) PROVE Sorted'
  BY <1>1, <1>3, SortedKept DEF Reject, reject
<1>4. ASSUME NEW s \in Sinks, Establish(s) PROVE Sorted'
  BY <1>1, <1>4, SortedKept DEF Establish, OpenStream, make_sink
<1>5. ASSUME Receive PROVE Sorted'
  BY <1>5, SortedDeliver DEF Receive, on_message
<1>6. ASSUME ReceivePush PROVE Sorted'
  BY <1>6, SortedDeliver DEF ReceivePush, on_message
<1>7. ASSUME NEW err \in Errors, ReceiveBad(err) PROVE Sorted'
  BY <1>7, SortedDeliver DEF ReceiveBad, on_error
<1>8. ASSUME NEW err \in Errors, Disconnect(err) PROVE Sorted'
  <2>1. pending_write' = <<>> /\ awaiting_read' = <<>>
    BY <1>8 DEF Disconnect, clear_all
  <2> QED
    BY <2>1, EmptyHasNone DEF Sorted
<1>9. CASE Next
  BY <1>1, <1>3, <1>4, <1>5, <1>6, <1>7, <1>8, <1>9, SortedPush, SortedSend
     DEF Next, DeadlineInv
<1> QED
  BY <1>2, <1>9

\* The earlier of the two fronts is the earliest of all.
LEMMA FrontsAreEarliest == ASSUME DeadlineInv PROVE NextDeadlineEarliest
<1>1. TypeOK /\ Sorted
  BY DEF DeadlineInv, QueueInv
<1>2. /\ DOMAIN pending_write = 1..Len(pending_write)
      /\ DOMAIN awaiting_read = 1..Len(awaiting_read)
      /\ Len(pending_write) \in Nat /\ Len(awaiting_read) \in Nat
  BY <1>1, QueueShape
<1>3. ASSUME NEW i \in DOMAIN pending_write
      PROVE  next_deadline <= pending_write[i].deadline
  <2>1. pending_write # <<>> /\ 1 \in DOMAIN pending_write /\ 1 <= i
    BY <1>2, <1>3, EmptyHasNone
  <2>2. Head(pending_write) = pending_write[1]
    BY <1>1, <2>1, TailFacts DEF TypeOK
  <2>3. pending_write[1].deadline <= pending_write[i].deadline
    BY <1>1, <1>3, <2>1 DEF Sorted
  <2>4. pending_write[1].deadline \in Nat /\ pending_write[i].deadline \in Nat
    BY <1>1, <1>2, <1>3, <2>1, DeadlinesAreNumbers
  <2>5. ASSUME awaiting_read # <<>> PROVE Head(awaiting_read).deadline \in Nat
    BY <1>1, <2>5, TailFacts, DeadlinesAreNumbers DEF TypeOK
  <2> QED
    BY <2>1, <2>2, <2>3, <2>4, <2>5, DeadlinesAreNumbers, <1>1
       DEF next_deadline, has_pending_write, has_pending_read
<1>4. ASSUME NEW i \in DOMAIN awaiting_read
      PROVE  next_deadline <= awaiting_read[i].deadline
  <2>1. awaiting_read # <<>> /\ 1 \in DOMAIN awaiting_read /\ 1 <= i
    BY <1>2, <1>4, EmptyHasNone
  <2>2. Head(awaiting_read) = awaiting_read[1]
    BY <1>1, <2>1, TailFacts DEF TypeOK
  <2>3. awaiting_read[1].deadline <= awaiting_read[i].deadline
    BY <1>1, <1>4, <2>1 DEF Sorted
  <2>4. awaiting_read[1].deadline \in Nat /\ awaiting_read[i].deadline \in Nat
    BY <1>1, <1>2, <1>4, <2>1, DeadlinesAreNumbers
  <2>5. ASSUME pending_write # <<>> PROVE Head(pending_write).deadline \in Nat
    BY <1>1, <2>5, TailFacts, DeadlinesAreNumbers DEF TypeOK
  <2> QED
    BY <2>1, <2>2, <2>3, <2>4, <2>5, DeadlinesAreNumbers, <1>1
       DEF next_deadline, has_pending_write, has_pending_read
<1> QED
  BY <1>3, <1>4 DEF NextDeadlineEarliest, QueuedDeadlines

\* When requests get their deadlines in the order they are pushed (one
\* request_timeout and a steady clock), next_deadline() is the earliest deadline
\* of all queued requests, though it reads two of them: control_loop never sleeps
\* past a request that has expired.
THEOREM DeadlinesWatched ==
    ASSUME NonEmptyRequests, FifoDeadlines = TRUE
    PROVE  Spec => []NextDeadlineEarliest
<1>1. Init => DeadlineInv
  BY QueueInit, EmptyHasNone DEF Init, PipelineInit, DeadlineInv, Sorted
<1>2. DeadlineInv /\ [Next]_vars => DeadlineInv'
  BY SortedStep
<1>3. DeadlineInv => NextDeadlineEarliest
  BY FrontsAreEarliest
<1> QED
  BY <1>1, <1>2, <1>3, PTL DEF Spec

=============================================================================
