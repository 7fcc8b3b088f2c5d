------------------------ MODULE ParserProgressProofs ------------------------
(*******************************************************************************)
(* How far parse_one() gets in a stream.  The theorems rest on one more part   *)
(* of the inductive invariant, Progress: the bytes the parser has consumed are *)
(* whole tokens of the stream, all of them well formed, and the frames wait    *)
(* for exactly the values that the stream still owes at that place.  This is   *)
(* what ties the stack of frames to the messages of the stream, for any        *)
(* nesting and any length.                                                     *)
(*******************************************************************************)
EXTENDS ParserStateProofs

-----------------------------------------------------------------------------
(* The invariant *)

\* How many more values a frame waits for, besides the one that the frame above it,
\* or the value under way, will complete.
Need(f) ==
    CASE f.state = "value" -> 1
      [] f.state = "array" -> f.expected - f.produced - 1
      [] OTHER -> 2 * (f.expected - f.produced) - (IF f.pending_key = 0 THEN 1 ELSE 2)

\* x is the sum of what the frames wait for.
Sums(st, x) ==
    \E w \in [1..(Len(st) + 1) -> Nat] :
        /\ w[1] = 0
        /\ \A j \in 1..Len(st) : w[j + 1] = w[j] + Need(st[j])
        /\ w[Len(st) + 1] = x

\* How many values are due at a place, the one that begins there included.
Due(l) == IF l.owed = 0 THEN 1 ELSE l.owed

\* At the place l, with the program counter at p and n messages handed out, the frames
\* wait for as many values as the stream owes, and no message is missing.
Owes(l, p, st, n) ==
    IF p \in {"attach", "consume"}
      THEN /\ l.done = n + (IF l.owed = 0 THEN 1 ELSE 0)
           /\ Sums(st, l.owed)
      ELSE /\ l.done = n
           /\ IF st = <<>> THEN l.owed = 0
              ELSE Sums(st, IF back(st).state = "value" THEN Due(l) ELSE Due(l) - 1)

\* The parser stands before token k of the stream, and every token before it is well
\* formed.
Upto(k) ==
    /\ Layout[stream][k].first = fed - size(buf_) + 1
    /\ \A j \in 1..(k - 1) : Whole(stream[j]) = "ok"
    /\ Owes(Layout[stream][k], pc, stack_, Len(out))
    /\ pc \in {"read", "reading"} /\ k <= Len(stream) => size(buf_) < Bytes(stream[k])

Progress ==
    /\ pc # "failed" => \E k \in 1..(Len(stream) + 1) : Upto(k)
    /\ VerdictOfStream

-----------------------------------------------------------------------------
(* What the frames wait for *)

LEMMA NeedFacts ==
  ASSUME NEW f \in Frames, FrameFits(f)
  PROVE  Need(f) \in Nat
  <1>1. /\ f.expected \in Nat /\ f.produced \in Nat
        /\ f.state \in {"value", "array", "map_key", "map_value", "attribute"}
    BY DEF Frames
  <1>2. f.state # "value" => f.produced < f.expected BY DEF FrameFits
  <1> QED BY <1>1, <1>2 DEF Need

LEMMA NeedValue == Need(ValueFrame) = 1
  BY DEF Need, ValueFrame, Frame

LEMMA SumsEmpty ==
  ASSUME NEW x
  PROVE  Sums(<<>>, x) <=> x = 0
  <1>1. ASSUME Sums(<<>>, x) PROVE x = 0
    <2>1. Len(<<>>) + 1 = 1 OBVIOUS
    <2> QED BY <1>1, <2>1 DEF Sums
  <1>2. Sums(<<>>, 0)
    <2> DEFINE w == [i \in 1..1 |-> 0]
    <2>1. w \in [1..1 -> Nat] /\ w[1] = 0 OBVIOUS
    <2>2. Len(<<>>) = 0 /\ Len(<<>>) + 1 = 1 /\ \A j \in 1..0 : FALSE OBVIOUS
    <2> HIDE DEF w
    <2> QED BY <2>1, <2>2, Zenon DEF Sums
  <1> QED BY <1>1, <1>2, Zenon

LEMMA SumsPush ==
  ASSUME NEW st \in Seq(Frames), NEW f \in Frames, Need(f) \in Nat, NEW x, Sums(st, x)
  PROVE  Sums(Append(st, f), x + Need(f)) /\ x \in Nat
  <1> DEFINE n == Len(st)
             a == Append(st, f)
  <1>1. n \in Nat /\ Len(a) = n + 1 /\ a[n + 1] = f /\ \A j \in 1..n : a[j] = st[j]
    BY PushFacts
  <1>2. PICK w \in [1..(n + 1) -> Nat] :
           w[1] = 0 /\ w[n + 1] = x /\ \A j \in 1..n : w[j + 1] = w[j] + Need(st[j])
    BY Zenon DEF Sums
  <1> HIDE DEF n, a
  <1> DEFINE v == [i \in 1..(n + 2) |-> IF i <= n + 1 THEN w[i] ELSE x + Need(f)]
  <1>3. x \in Nat /\ x + Need(f) \in Nat BY <1>1, <1>2
  <1>4. v \in [1..(n + 2) -> Nat]
    <2>1. \A i \in 1..(n + 2) : i <= n + 1 => i \in 1..(n + 1) BY <1>1
    <2> QED BY <1>2, <1>3, <2>1, Zenon
  <1>5. /\ \A i \in 1..(n + 1) : v[i] = w[i]
        /\ v[n + 2] = x + Need(f)
    <2>1. \A i \in 1..(n + 1) : i <= n + 1 /\ i \in 1..(n + 2) BY <1>1
    <2>2. n + 2 \in 1..(n + 2) /\ ~(n + 2 <= n + 1) BY <1>1
    <2> QED BY <2>1, <2>2, Zenon
  <1> HIDE DEF v
  <1>6. v[1] = 0
    <2>1. 1 \in 1..(n + 1) BY <1>1
    <2> QED BY <1>2, <1>5, <2>1, Zenon
  <1>7. ASSUME NEW j \in 1..(n + 1) PROVE v[j + 1] = v[j] + Need(a[j])
    <2>1. CASE j = n + 1
      <3>1. j + 1 = n + 2 /\ j \in 1..(n + 1) BY <1>1, <2>1
      <3>2. v[j] = x BY <1>2, <1>5, <2>1, <3>1, Zenon
      <3> QED BY <1>1, <1>5, <2>1, <3>1, <3>2, Zenon
    <2>2. CASE j # n + 1
      <3>1. j \in 1..n /\ j + 1 \in 1..(n + 1) BY <1>1, <2>2
      <3> QED BY <1>1, <1>2, <1>5, <3>1, Zenon
    <2> QED BY <2>1, <2>2
  <1>8. Len(a) + 1 = n + 2 BY <1>1
  <1>9. Sums(a, x + Need(f)) BY <1>1, <1>4, <1>5, <1>6, <1>7, <1>8, Zenon DEF Sums
  <1> QED BY <1>3, <1>9, Zenon DEF a

LEMMA SumsPop ==
  ASSUME NEW st \in Seq(Frames), st # <<>>, NEW x, Sums(st, x), Need(back(st)) \in Nat
  PROVE  /\ x \in Nat /\ x - Need(back(st)) \in Nat
         /\ Sums(pop_back(st), x - Need(back(st)))
  <1> DEFINE r == pop_back(st)
             n == Len(st) - 1
             d == Need(back(st))
  <1>1. /\ n \in Nat /\ Len(st) = n + 1 /\ back(st) = st[n + 1]
        /\ r \in Seq(Frames) /\ Len(r) = n /\ \A j \in 1..n : r[j] = st[j]
    BY TopFacts
  <1>2. d \in Nat /\ d = Need(st[n + 1]) BY <1>1, Zenon
  <1> HIDE DEF n, r, d
  <1>3. PICK w \in [1..(n + 2) -> Nat] :
           w[1] = 0 /\ w[n + 2] = x /\ \A j \in 1..(n + 1) : w[j + 1] = w[j] + Need(st[j])
    <2> DEFINE m == Len(st)
    <2>1. m = n + 1 /\ m + 1 = n + 2 BY <1>1
    <2>2. PICK w \in [1..(m + 1) -> Nat] :
             w[1] = 0 /\ w[m + 1] = x /\ \A j \in 1..m : w[j + 1] = w[j] + Need(st[j])
      BY Zenon DEF Sums
    <2> HIDE DEF m
    <2> QED BY <2>1, <2>2, Zenon
  <1>4. /\ x \in Nat /\ w[n + 1] \in Nat /\ x = w[n + 1] + d
    <2>1. n + 1 \in 1..(n + 1) /\ n + 1 \in 1..(n + 2) /\ n + 2 \in 1..(n + 2) /\ (n + 1) + 1 = n + 2
      BY <1>1
    <2>2. w[(n + 1) + 1] = w[n + 1] + Need(st[n + 1]) BY <1>3, <2>1, Zenon
    <2> QED BY <1>2, <1>3, <2>1, <2>2, Zenon
  <1>5. x - d = w[n + 1] BY <1>2, <1>4
  <1> DEFINE v == [i \in 1..(n + 1) |-> w[i]]
  <1>6. v \in [1..(n + 1) -> Nat] /\ \A i \in 1..(n + 1) : v[i] = w[i]
    <2>1. \A i \in 1..(n + 1) : i \in 1..(n + 2) BY <1>1
    <2> QED BY <1>3, <2>1, Zenon
  <1> HIDE DEF v
  <1>7. \A j \in 1..n : j \in 1..(n + 1) /\ j + 1 \in 1..(n + 1) BY <1>1
  <1>8. \A j \in 1..n : v[j + 1] = v[j] + Need(r[j]) BY <1>1, <1>3, <1>6, <1>7, Zenon
  <1>9. 1 \in 1..(n + 1) /\ n + 1 \in 1..(n + 1) BY <1>1
  <1>10. v[1] = 0 /\ v[n + 1] = x - d BY <1>3, <1>5, <1>6, <1>9, Zenon
  <1>11. Sums(r, x - d) BY <1>1, <1>6, <1>8, <1>10, Zenon DEF Sums
  <1>12. x - d \in Nat BY <1>4, <1>5
  <1> QED BY <1>4, <1>11, <1>12, Zenon DEF r, d

\* A value is complete and the next one is under way.
LEMMA SumsStep ==
  ASSUME NEW st \in Seq(Frames), st # <<>>, NEW x, Sums(st, x), NEW f \in Frames,
         Need(f) \in Nat, Need(back(st)) = Need(f) + 1
  PROVE  Sums(Append(ReplaceTop(st, f), ValueFrame), x) /\ x \in Nat /\ x # 0
  <1> DEFINE r == pop_back(st)
             d == Need(f)
             q == ReplaceTop(st, f)
  <1>1. Need(back(st)) = d + 1 /\ d \in Nat /\ Need(back(st)) \in Nat OBVIOUS
  <1> HIDE DEF d
  <1>2. x \in Nat /\ x - (d + 1) \in Nat /\ Sums(r, x - (d + 1)) BY <1>1, SumsPop, Zenon
  <1>3. r \in Seq(Frames) BY TopFacts, Zenon
  <1>4. q = Append(r, f) BY Zenon DEF ReplaceTop
  <1> HIDE DEF r, q
  <1>5. Sums(q, (x - (d + 1)) + d) BY <1>1, <1>2, <1>3, <1>4, SumsPush, Zenon DEF d
  <1>6. q \in Seq(Frames) BY <1>3, <1>4, Pushed, Zenon
  <1>7. Sums(Append(q, ValueFrame), (x - (d + 1)) + d + 1)
    <2> DEFINE y == (x - (d + 1)) + d
    <2>1. Need(ValueFrame) \in Nat /\ Need(ValueFrame) = 1 /\ ValueFrame \in Frames
      BY NeedValue, EmptyTypes
    <2>2. Sums(q, y) BY <1>5, Zenon
    <2> HIDE DEF y
    <2>3. Sums(Append(q, ValueFrame), y + Need(ValueFrame)) BY <1>6, <2>1, <2>2, SumsPush, Zenon
    <2> QED BY <2>1, <2>3, Zenon DEF y
  <1>8. (x - (d + 1)) + d + 1 = x /\ x # 0 BY <1>1, <1>2
  <1> QED BY <1>2, <1>7, <1>8, Zenon DEF q

LEMMA NeedUpdates ==
  ASSUME NEW g \in Frames, FrameFits(g), NEW k \in Nat, k # 0
  PROVE  /\ g.state = "array" =>
              IF Element(g).produced = Element(g).expected THEN Need(g) = 0
              ELSE Need(Element(g)) \in Nat /\ Need(g) = Need(Element(g)) + 1
         /\ g.state = "map_key" =>
              LET f == Keyed(g, "map_value", k) IN Need(f) \in Nat /\ Need(g) = Need(f) + 1
         /\ g.state = "attribute" /\ g.pending_key = 0 =>
              LET f == Keyed(g, "attribute", k) IN Need(f) \in Nat /\ Need(g) = Need(f) + 1
         /\ g.state = "map_value" =>
              IF Entry(g).produced = Entry(g).expected THEN Need(g) = 0
              ELSE Need(Entry(g)) \in Nat /\ Need(g) = Need(Entry(g)) + 1
         /\ g.state = "attribute" /\ g.pending_key # 0 =>
              IF Pair(g).produced = Pair(g).expected THEN Need(g) = 0
              ELSE Need(Pair(g)) \in Nat /\ Need(g) = Need(Pair(g)) + 1
  <1> DEFINE e == g.expected
             p == g.produced
  <1>1. e \in Nat /\ p \in Nat BY DEF Frames
  <1>2. g.state # "value" => p < e BY DEF FrameFits
  <1>3. g.state = "map_key" => g.pending_key = 0 BY DEF FrameFits
  <1>4. g.state = "map_value" => g.pending_key # 0 BY DEF FrameFits
  <1>5. g.state = "array" => Need(g) = e - p - 1 BY DEF Need
  <1>6. g.state \in {"map_key", "map_value", "attribute"} =>
          Need(g) = IF g.pending_key = 0 THEN 2 * (e - p) - 1 ELSE 2 * (e - p) - 2
    BY <1>1 DEF Need
  <1>7. ASSUME g.state = "array"
        PROVE  IF Element(g).produced = Element(g).expected THEN Need(g) = 0
               ELSE Need(Element(g)) \in Nat /\ Need(g) = Need(Element(g)) + 1
    <2> DEFINE f == Element(g)
    <2>1. f.state = "array" /\ f.produced = p + 1 /\ f.expected = e BY <1>7, FrameUpdates, Zenon
    <2> HIDE DEF f
    <2>2. Need(f) = e - (p + 1) - 1 BY <2>1 DEF Need
    <2> HIDE DEF e, p
    <2>3. g.state # "value" BY <1>7
    <2>4. IF f.produced = f.expected THEN Need(g) = 0 ELSE Need(f) \in Nat /\ Need(g) = Need(f) + 1
      BY SMTT(15), <1>1, <1>2, <1>5, <1>7, <2>1, <2>2, <2>3
    <2> QED BY <2>4, Zenon DEF f
  <1>8. ASSUME NEW s \in {"map_value", "attribute"},
               \/ g.state = "map_key" /\ s = "map_value"
               \/ g.state = "attribute" /\ s = "attribute" /\ g.pending_key = 0
        PROVE  Need(Keyed(g, s, k)) \in Nat /\ Need(g) = Need(Keyed(g, s, k)) + 1
    <2> DEFINE f == Keyed(g, s, k)
    <2>1. f.state = s /\ f.produced = p /\ f.expected = e /\ f.pending_key = k
      BY DEF Keyed, Frames
    <2> HIDE DEF f
    <2>2. Need(f) = 2 * (e - p) - 2 BY <1>1, <1>8, <2>1 DEF Need
    <2> HIDE DEF e, p
    <2>3. g.state # "value" /\ Need(g) = 2 * (e - p) - 1 BY <1>3, <1>6, <1>8
    <2>4. Need(f) \in Nat /\ Need(g) = Need(f) + 1 BY <1>1, <1>2, <2>2, <2>3
    <2> QED BY <2>4, Zenon DEF f
  <1>9. ASSUME NEW f, \/ g.state = "map_value" /\ f = Entry(g)
                      \/ g.state = "attribute" /\ g.pending_key # 0 /\ f = Pair(g)
        PROVE  IF f.produced = f.expected THEN Need(g) = 0
               ELSE Need(f) \in Nat /\ Need(g) = Need(f) + 1
    <2>1. /\ f.produced = p + 1 /\ f.expected = e /\ f.pending_key = 0
          /\ f.state \in {"map_key", "attribute"}
      <3>1. /\ Entry(g).state = "map_key" /\ Entry(g).produced = p + 1
            /\ Entry(g).pending_key = 0 /\ Entry(g).expected = e
            /\ Pair(g).state = g.state /\ Pair(g).produced = p + 1
            /\ Pair(g).pending_key = 0 /\ Pair(g).expected = e
        BY FrameUpdates, Zenon
      <3> HIDE DEF e, p
      <3>2. CASE g.state = "map_value" /\ f = Entry(g) BY <3>1, <3>2
      <3>3. CASE g.state = "attribute" /\ f = Pair(g) BY <3>1, <3>3
      <3> QED BY <1>9, <3>2, <3>3, Zenon
    <2> HIDE DEF e, p
    <2>2. Need(f) = 2 * (e - (p + 1)) - 1 BY <1>1, <2>1 DEF Need
    <2>3. g.state # "value" /\ Need(g) = 2 * (e - p) - 2 BY <1>4, <1>6, <1>9
    <2> QED BY SMTT(15), <1>1, <1>2, <2>1, <2>2, <2>3
  <1> QED BY <1>7, <1>8, <1>9, Zenon

-----------------------------------------------------------------------------
(* How far the parser is in the stream *)

\* The token at the front of the buffer is the one that comes next in the stream.
LEMMA FrontIs ==
  ASSUME Types, Unread, NEW k \in 1..(Len(stream) + 1),
         Layout[stream][k].first = fed - size(buf_) + 1, size(buf_) # 0
  PROVE  k \in 1..Len(stream) /\ FrontToken = stream[k]
  <1> DEFINE n == Len(stream)
             L == Layout[stream]
             z == size(buf_)
  <1>1. /\ stream \in Streams /\ fed \in Nat /\ fed < L[n + 1].first
        /\ z \in Nat /\ z # 0 /\ z <= fed
        /\ \A i \in 1..z : buf_.mem[buf_.read_pos + i] = <<gen, fed - z + i>>
    <2>1. stream \in Streams /\ buf_ \in Buffers /\ InOrder(buf_) /\ fed \in Nat BY DEF Types
    <2>2. fed < L[n + 1].first BY Zenon DEF Types, End
    <2>3. z \in Nat BY <2>1, FrontFacts, Zenon
    <2>4. z <= fed /\ \A i \in 1..z : buf_.mem[buf_.read_pos + i] = <<gen, fed - z + i>>
      BY Zenon DEF Unread, Kept
    <2> QED BY <2>1, <2>2, <2>3, <2>4, Zenon
  <1>2. n \in Nat /\ \A i \in 1..n : stream[i] \in Tokens BY <1>1, StreamTokens, Zenon
  <1>3. k \in 1..(n + 1) /\ L[k].first = fed - z + 1 BY Zenon
  <1>4. ASSUME NEW i \in 1..n, NEW j \in 1..(n + 1), i < j PROVE L[i].first < L[j].first
    <2>1. i \in 1..(n + 1) BY <1>2
    <2>2. L[i].first + Bytes(stream[i]) <= L[j].first BY <1>1, <1>4, <2>1, LayoutGrows, Zenon
    <2>3. Bytes(stream[i]) \in Nat /\ Bytes(stream[i]) > 0 BY <1>2, TokenFacts, Zenon
    <2>4. L[i] \in Places /\ L[j] \in Places BY <1>1, <2>1, LayoutShape, Zenon
    <2>5. L[i].first \in Nat /\ L[j].first \in Nat BY <2>4 DEF Places
    <2> QED BY SMTT(15), <2>2, <2>3, <2>5
  <1> HIDE DEF n, L, z
  <1>5. k \in 1..n
    <2>1. k = n + 1 => L[n + 1].first = fed - z + 1 BY <1>3, Zenon
    <2>2. k # n + 1 BY <1>1, <2>1
    <2> QED BY <1>2, <1>3, <2>2
  <1>6. ASSUME NEW i \in 1..n, L[i].first = L[k].first PROVE i = k
    <2>1. i \in 1..(n + 1) /\ k \in 1..(n + 1) /\ (i < k \/ k < i \/ i = k) BY <1>2, <1>5
    <2>2. L[i].first \in Nat /\ L[k].first \in Nat
      <3>1. L[i] \in Places /\ L[k] \in Places BY <1>1, <2>1, LayoutShape, Zenon DEF L, n
      <3> QED BY <3>1 DEF Places
    <2>3. ~(i < k) BY SMTT(15), <1>4, <1>6, <2>1, <2>2
    <2>4. ~(k < i) BY SMTT(15), <1>4, <1>5, <1>6, <2>1, <2>2
    <2> QED BY <2>1, <2>3, <2>4
  <1>7. buf_.mem[buf_.read_pos + 1] = <<gen, L[k].first>>
    <2>1. 1 \in 1..z BY <1>1
    <2> QED BY <1>1, <1>3, <2>1, Zenon
  <1> DEFINE at == {i \in 1..n : buf_.mem[buf_.read_pos + 1] = <<gen, L[i].first>>}
  <1>8. k \in at BY <1>5, <1>7, Zenon
  <1>9. \A i \in at : i = k
    <2>1. \A i \in at : i \in 1..n /\ <<gen, L[i].first>> = <<gen, L[k].first>> BY <1>7, Zenon
    <2>2. \A i \in at : L[i].first = L[k].first BY <2>1
    <2> HIDE DEF at
    <2> QED BY <1>6, <2>1, <2>2, Zenon
  <1>10. FrontToken = IF at = {} THEN Unknown ELSE stream[CHOOSE i \in at : TRUE]
    BY Zenon DEF FrontToken, Byte, L, n
  <1> HIDE DEF at
  <1>11. (CHOOSE i \in at : TRUE) \in at BY <1>8, Zenon
  <1>12. FrontToken = stream[k] BY <1>8, <1>9, <1>10, <1>11, Zenon
  <1> QED BY <1>5, <1>12, Zenon DEF n

\* What the parser accepts is well formed, and takes it to the next token.
LEMMA Accepted ==
  ASSUME Types, Unread, NEW k \in 1..(Len(stream) + 1), Upto(k), Decision = "ok"
  PROVE  LET t == FrontToken
         IN  /\ k \in 1..Len(stream) /\ k + 1 \in 1..(Len(stream) + 1)
             /\ t \in Tokens /\ t = stream[k]
             /\ \A j \in 1..((k + 1) - 1) : Whole(stream[j]) = "ok"
             /\ Layout[stream][k] \in Places
             /\ Layout[stream][k + 1] = NextPlace(Layout[stream][k], t)
             /\ Layout[stream][k + 1].first = fed - size(consume(buf_, Bytes(t))) + 1
  <1> DEFINE t == FrontToken
             z == size(buf_)
             l == Layout[stream][k]
  <1>1. stream \in Streams /\ buf_ \in Buffers /\ InOrder(buf_) /\ fed \in Nat BY DEF Types
  <1>2. /\ l.first = fed - z + 1
        /\ \A j \in 1..(k - 1) : Whole(stream[j]) = "ok"
    BY Zenon DEF Upto
  <1>3. z # 0 /\ Verdict(t, z) = "ok"
    <2>1. z # 0 BY DEF Decision
    <2> QED BY <2>1, Zenon DEF Decision
  <1>4. k \in 1..Len(stream) /\ t = stream[k] BY <1>2, <1>3, FrontIs, Zenon
  <1>5. t \in Tokens /\ Bytes(t) <= z /\ z \in Nat BY <1>1, FrontFacts, Zenon
  <1> HIDE DEF t
  <1>6. Bytes(t) \in Nat /\ Whole(t) = "ok"
    <2>1. Bytes(t) \in Nat /\ (z >= Bytes(t) => Verdict(t, z) = Whole(t))
      BY <1>5, TokenFacts, VerdictFacts, Zenon
    <2>2. z >= Bytes(t) BY <1>5, <2>1
    <2> QED BY <1>3, <2>1, <2>2, Zenon
  <1>7. Len(stream) \in Nat BY <1>1, StreamTokens, Zenon
  <1>8. k + 1 \in 1..(Len(stream) + 1) BY <1>4, <1>7
  <1>9. \A j \in 1..((k + 1) - 1) : Whole(stream[j]) = "ok"
    <2>1. \A j \in 1..((k + 1) - 1) : j \in 1..(k - 1) \/ j = k BY <1>4, <1>7
    <2> QED BY <1>2, <1>4, <1>6, <2>1, Zenon
  <1>10. l \in Places /\ Layout[stream][k + 1] = NextPlace(l, t)
    BY <1>1, <1>4, <1>8, LayoutShape, Zenon
  <1>11. size(consume(buf_, Bytes(t))) = z - Bytes(t) BY <1>1, <1>5, <1>6, ConsumeFacts, Zenon
  <1>12. Layout[stream][k + 1].first = l.first + Bytes(t) BY <1>10 DEF NextPlace
  <1> HIDE DEF l, z
  <1>13. Layout[stream][k + 1].first = fed - size(consume(buf_, Bytes(t))) + 1
    BY SMTT(15), <1>1, <1>2, <1>5, <1>6, <1>11, <1>12
  <1> QED BY <1>4, <1>5, <1>8, <1>9, <1>10, <1>13, Zenon DEF t, l

\* The value that a container or an attribute waited for.
LEMMA OwesProduced ==
  ASSUME NEW st \in Seq(Frames), st # <<>>, NEW f \in Frames, NEW l \in Places, NEW n \in Nat,
         Owes(l, "attach", st, n), Need(f) \in Nat, Need(back(st)) = Need(f) + 1
  PROVE  Owes(l, "loop", Append(ReplaceTop(st, f), ValueFrame), n)
  <1> DEFINE q == Append(ReplaceTop(st, f), ValueFrame)
  <1>1. Sums(st, l.owed) /\ l.done = n + (IF l.owed = 0 THEN 1 ELSE 0) BY Zenon DEF Owes
  <1>2. Sums(q, l.owed) /\ l.owed # 0 BY <1>1, SumsStep, Zenon
  <1>3. q # <<>> /\ back(q) = ValueFrame BY Replaced, Pushed, EmptyTypes, Zenon
  <1> HIDE DEF q
  <1>4. ValueFrame.state = "value" BY DEF ValueFrame, Frame
  <1>5. Due(l) = l.owed BY <1>2, Zenon DEF Due
  <1>6. l.done = n BY <1>1, <1>2
  <1>7. "loop" \notin {"attach", "consume"} OBVIOUS
  <1>8. Owes(l, "loop", q, n) BY <1>2, <1>3, <1>4, <1>5, <1>6, <1>7, Zenon DEF Owes
  <1> QED BY <1>8, Zenon DEF q

LEMMA OwesPopped ==
  ASSUME NEW st \in Seq(Frames), st # <<>>, NEW l \in Places, NEW n \in Nat,
         Owes(l, "attach", st, n), Need(back(st)) = 0
  PROVE  Owes(l, "attach", pop_back(st), n)
  <1>1. Sums(st, l.owed) /\ l.done = n + (IF l.owed = 0 THEN 1 ELSE 0) BY Zenon DEF Owes
  <1>2. l.owed \in Nat /\ Sums(pop_back(st), l.owed - 0) BY <1>1, SumsPop
  <1>3. l.owed - 0 = l.owed BY <1>2
  <1> QED BY <1>1, <1>2, <1>3, Zenon DEF Owes

LEMMA ProducedOwes ==
  ASSUME stack_ \in Seq(Frames), stack_ # <<>>, NEW f \in Frames, NEW l \in Places, NEW n \in Nat,
         Owes(l, "attach", stack_, n), Produced(f),
         IF f.produced = f.expected THEN Need(back(stack_)) = 0
         ELSE Need(f) \in Nat /\ Need(back(stack_)) = Need(f) + 1
  PROVE  Owes(l, pc', stack_', n) /\ pc' \in {"attach", "loop"}
  <1>1. CASE f.produced = f.expected
    <2>1. stack_' = pop_back(stack_) /\ pc' = "attach" BY <1>1, Zenon DEF Produced
    <2> QED BY <1>1, <2>1, OwesPopped, Zenon
  <1>2. CASE f.produced # f.expected
    <2>1. stack_' = Append(ReplaceTop(stack_, f), ValueFrame) /\ pc' = "loop"
      BY <1>2, Zenon DEF Produced
    <2> QED BY <1>2, <2>1, OwesProduced, Zenon
  <1> QED BY <1>1, <1>2

LEMMA ProgressStart ==
  ASSUME stream' \in Streams, fed' = 0, size(buf_') = 0, stack_' = <<>>, out' = <<>>, pc' = "read"
  PROVE  Progress'
  <1>1. /\ Layout[stream'][1] = FirstPlace /\ Len(stream') \in Nat
        /\ \A i \in 1..Len(stream') : stream'[i] \in Tokens
    BY LayoutShape, StreamTokens, Zenon
  <1>2. 1 \in 1..(Len(stream') + 1) BY <1>1
  <1>3. FirstPlace.first = 1 /\ FirstPlace.owed = 0 /\ FirstPlace.done = 0 BY DEF FirstPlace
  <1>4. Owes(FirstPlace, "read", <<>>, Len(<<>>)) BY <1>3 DEF Owes
  <1>5. 1 <= Len(stream') => 0 < Bytes(stream'[1])
    <2> SUFFICES ASSUME 1 <= Len(stream') PROVE 0 < Bytes(stream'[1]) OBVIOUS
    <2>1. 1 \in 1..Len(stream') BY <1>1
    <2>2. stream'[1] \in Tokens BY <1>1, <2>1, Zenon
    <2> QED BY <2>2, TokenFacts
  <1>6. \A j \in 1..(1 - 1) : FALSE OBVIOUS
  <1>7. 1 = 0 - 0 + 1 OBVIOUS
  <1>8. Upto(1)' BY <1>1, <1>3, <1>4, <1>5, <1>6, <1>7, Zenon DEF Upto
  <1>9. pc' # "failed" OBVIOUS
  <1> QED BY <1>2, <1>8, <1>9, Zenon DEF Progress, VerdictOfStream

\* A step that leaves the parser before the same token.
LEMMA ProgressStays ==
  ASSUME NEW k \in 1..(Len(stream) + 1), Upto(k), stream' = stream, pc' # "failed",
         fed' - size(buf_') = fed - size(buf_),
         Owes(Layout[stream][k], pc', stack_', Len(out')),
         pc' \in {"read", "reading"} /\ k <= Len(stream) => size(buf_') < Bytes(stream[k])
  PROVE  Progress'
  <1>1. /\ Layout[stream][k].first = fed - size(buf_) + 1
        /\ \A j \in 1..(k - 1) : Whole(stream[j]) = "ok"
    BY Zenon DEF Upto
  <1>2. Upto(k)' BY <1>1, Zenon DEF Upto
  <1>3. k \in 1..(Len(stream') + 1) BY Zenon
  <1> QED BY <1>2, <1>3, Zenon DEF Progress, VerdictOfStream

\* A step that accepts the token at the front.
LEMMA ProgressMoves ==
  ASSUME Types, Unread, NEW k \in 1..(Len(stream) + 1), Upto(k), Decision = "ok",
         stream' = stream, fed' = fed, buf_' = consume(buf_, Bytes(FrontToken)),
         pc' \notin {"read", "reading", "failed"},
         Owes(NextPlace(Layout[stream][k], FrontToken), pc', stack_', Len(out'))
  PROVE  Progress'
  <1> DEFINE m == k + 1
  <1>1. /\ m \in 1..(Len(stream) + 1)
        /\ \A j \in 1..(m - 1) : Whole(stream[j]) = "ok"
        /\ Layout[stream][m] = NextPlace(Layout[stream][k], FrontToken)
        /\ Layout[stream][m].first = fed - size(consume(buf_, Bytes(FrontToken))) + 1
    BY Accepted, Zenon
  <1> HIDE DEF m
  <1>2. pc' \notin {"read", "reading"} /\ pc' # "failed" OBVIOUS
  <1>3. Upto(m)' BY <1>1, <1>2, Zenon DEF Upto
  <1>4. m \in 1..(Len(stream') + 1) BY <1>1, ZenonT(30)
  <1> QED BY <1>2, <1>3, <1>4, Zenon DEF Progress, VerdictOfStream

\* What the stream owes after the token at the front, once parse_value() waits for the
\* value that it begins.
LEMMA NextOwed ==
  ASSUME NEW l \in Places, NEW t \in Tokens
  PROVE  /\ Due(l) \in Nat /\ Due(l) >= 1
         /\ t.kind = "attribute" /\ t.len = 0 =>
              NextPlace(l, t).owed = Due(l) /\ NextPlace(l, t).done = l.done
         /\ t.kind = "attribute" /\ t.len > 0 =>
              NextPlace(l, t).owed = Due(l) + 2 * t.len /\ NextPlace(l, t).done = l.done
         /\ t.kind \in Sequential /\ t.len > 0 =>
              NextPlace(l, t).owed = Due(l) + t.len - 1 /\ NextPlace(l, t).done = l.done
         /\ t.kind = "map" /\ t.len > 0 =>
              NextPlace(l, t).owed = Due(l) + 2 * t.len - 1 /\ NextPlace(l, t).done = l.done
         /\ t.kind # "attribute" /\ (t.kind \in Containers => t.len <= 0) =>
              /\ NextPlace(l, t).owed = Due(l) - 1
              /\ NextPlace(l, t).done = l.done + (IF NextPlace(l, t).owed = 0 THEN 1 ELSE 0)
  <1> DEFINE d == Due(l)
             n == Inner(t)
             e == IF t.kind = "attribute" THEN 0 ELSE 1
             w == d + n - e
  <1>1. l.owed \in Nat /\ l.done \in Nat /\ t.len \in Int BY DEF Places, Tokens
  <1>2. d \in Nat /\ d >= 1 BY <1>1 DEF Due
  <1>3. /\ NextPlace(l, t).owed = w
        /\ NextPlace(l, t).done = IF w = 0 THEN l.done + 1 ELSE l.done
    BY DEF NextPlace, Due
  <1> HIDE DEF d
  <1>4. CASE t.kind = "attribute" /\ t.len = 0
    <2>1. n = 0 /\ e = 0 BY <1>4 DEF Inner, Sequential
    <2> QED BY SMTT(15), <1>1, <1>2, <1>3, <1>4, <2>1 DEF Sequential, Containers, d
  <1>5. CASE t.kind = "attribute" /\ t.len > 0
    <2>1. n = 2 * t.len /\ e = 0 BY <1>5 DEF Inner, Sequential
    <2> HIDE DEF n, e
    <2>2. w = d + 2 * t.len /\ w # 0 BY SMTT(15), <1>1, <1>2, <1>5, <2>1
    <2> QED BY SMTT(15), <1>1, <1>2, <1>3, <1>5, <2>2 DEF Sequential, Containers, d
  <1>6. CASE t.kind \in Sequential /\ t.len > 0
    <2>1. n = t.len /\ e = 1 BY <1>6 DEF Inner, Sequential
    <2> HIDE DEF n, e
    <2>2. w = d + t.len - 1 /\ w # 0 BY SMTT(15), <1>1, <1>2, <1>6, <2>1
    <2> QED BY SMTT(15), <1>1, <1>2, <1>3, <1>6, <2>2 DEF Sequential, Containers, d
  <1>7. CASE t.kind = "map" /\ t.len > 0
    <2>1. n = 2 * t.len /\ e = 1 BY <1>7 DEF Inner, Sequential
    <2> HIDE DEF n, e
    <2>2. w = d + 2 * t.len - 1 /\ w # 0 BY SMTT(15), <1>1, <1>2, <1>7, <2>1
    <2> QED BY SMTT(15), <1>1, <1>2, <1>3, <1>7, <2>2 DEF Sequential, Containers, d
  <1>8. CASE t.kind # "attribute" /\ (t.kind \in Containers => t.len <= 0)
    <2>1. n = 0 /\ e = 1 BY <1>1, <1>8 DEF Inner, Sequential, Containers
    <2> HIDE DEF n, e
    <2>2. w = d - 1 BY SMTT(15), <1>1, <1>2, <2>1
    <2> QED BY SMTT(15), <1>1, <1>2, <1>3, <1>8, <2>2 DEF Sequential, Containers, d
  <1>9. CASE t.kind = "attribute" /\ t.len < 0
    BY <1>1, <1>2, <1>9 DEF Sequential, Containers, d
  <1> QED BY SMTT(15), <1>1, <1>4, <1>5, <1>6, <1>7, <1>8, <1>9 DEF Containers

LEMMA AcceptedOwes ==
  ASSUME Types, FramesInv, NEW l \in Places, NEW t \in Tokens, t.kind = "attribute" => t.len >= 0,
         NEW n \in Nat, stack_ # <<>>, back(stack_).state = "value", Owes(l, "loop", stack_, n)
  PROVE  /\ t.kind = "attribute" => Owes(NextPlace(l, t), "loop", start_attribute(t), n)
         /\ t.kind \in Containers /\ t.len > 0 =>
              Owes(NextPlace(l, t), "loop", start_container(t), n)
         /\ t.kind # "attribute" /\ (t.kind \in Containers => t.len <= 0) =>
              Owes(NextPlace(l, t), "attach", pop_back(stack_), n)
  <1> DEFINE d == Due(l)
             m == NextPlace(l, t)
  <1>1. stack_ \in Seq(Frames) /\ tree_ \in Trees BY DEF Types
  <1>2. t.len \in Int /\ m \in Places /\ m.owed \in Nat BY NextPlaceType DEF Tokens, Places
  <1>3. d \in Nat /\ d >= 1 BY NextOwed, Zenon
  <1>4. l.done = n /\ Sums(stack_, d)
    <2>1. "loop" \notin {"attach", "consume"} OBVIOUS
    <2> QED BY <2>1, Zenon DEF Owes
  <1>5. back(stack_) \in Frames /\ Need(back(stack_)) = 1
    <2>1. back(stack_) \in Frames BY <1>1, TopFacts, Zenon
    <2> QED BY <2>1 DEF Need
  <1>6. Sums(pop_back(stack_), d - 1) /\ pop_back(stack_) \in Seq(Frames)
    <2>1. Need(back(stack_)) \in Nat BY <1>5
    <2>2. Sums(pop_back(stack_), d - Need(back(stack_))) BY <1>1, <1>4, <2>1, SumsPop, Zenon
    <2>3. pop_back(stack_) \in Seq(Frames) BY <1>1, TopFacts, Zenon
    <2> QED BY <1>5, <2>2, <2>3, Zenon
  <1>7. ASSUME NEW st, st # <<>>, m.done = l.done, m.owed # 0,
               Sums(st, IF back(st).state = "value" THEN m.owed ELSE m.owed - 1)
        PROVE  Owes(m, "loop", st, n)
    <2>1. "loop" \notin {"attach", "consume"} OBVIOUS
    <2>2. Due(m) = m.owed BY <1>7, Zenon DEF Due
    <2> HIDE DEF m
    <2> QED BY <1>4, <1>7, <2>1, <2>2, Zenon DEF Owes
  <1>8. ASSUME t.kind = "attribute", t.len = 0
        PROVE  Owes(m, "loop", start_attribute(t), n)
    <2>1. start_attribute(t) = stack_ BY <1>8, Zenon DEF start_attribute
    <2>2. m.owed = d /\ m.done = l.done BY <1>8, NextOwed, Zenon
    <2>3. m.owed # 0 BY <1>3, <2>2
    <2>4. Sums(stack_, m.owed) BY <1>4, <2>2, Zenon
    <2> HIDE DEF m
    <2> QED BY <1>7, <2>1, <2>2, <2>3, <2>4, Zenon
  <1>9. ASSUME t.kind = "attribute", t.len # 0
        PROVE  Owes(m, "loop", start_attribute(t), n)
    <2> DEFINE f == Frame("attribute", t.len, 0)
    <2>1. start_attribute(t) = Append(stack_, f) BY <1>9, Zenon DEF start_attribute
    <2>2. t.len \in Nat /\ t.len > 0 BY <1>2, <1>9
    <2>3. m.owed = d + 2 * t.len /\ m.done = l.done BY <1>9, <2>2, NextOwed, Zenon
    <2>4. f \in Frames /\ f.state # "value" BY <2>2 DEF Frames, Frame
    <2>5. Need(f) = 2 * t.len - 1 /\ Need(f) \in Nat BY <2>2 DEF Need, Frame
    <2> HIDE DEF f
    <2>6. Sums(Append(stack_, f), d + Need(f)) BY <1>1, <1>4, <2>4, <2>5, SumsPush, Zenon
    <2>7. d + Need(f) = m.owed - 1 /\ m.owed # 0 BY <1>3, <2>2, <2>3, <2>5
    <2>8. Append(stack_, f) # <<>> /\ back(Append(stack_, f)) = f BY <1>1, <2>4, Pushed, Zenon
    <2> HIDE DEF m
    <2> QED BY <1>7, <2>1, <2>3, <2>4, <2>6, <2>7, <2>8, Zenon
  <1>10. ASSUME t.kind \in Containers, t.len > 0
         PROVE  Owes(m, "loop", start_container(t), n)
    <2> DEFINE s == IF t.kind = "map" THEN "map_key" ELSE "array"
               f == Frame(s, t.len, NewIndex)
               q == pop_back(stack_)
    <2>1. start_container(t) = Append(q, f) BY Zenon DEF start_container, ReplaceTop
    <2>2. t.len \in Nat /\ NewIndex \in Nat BY <1>1, <1>2, <1>10 DEF NewIndex, Trees
    <2>3. s \in {"map_key", "array"} OBVIOUS
    <2>4. f \in Frames /\ f.state # "value" BY <2>2 DEF Frames, Frame
    <2>5. Need(f) \in Nat /\ m.owed = d + Need(f) /\ m.done = l.done
      <3>1. CASE t.kind = "map"
        <4>1. m.owed = d + 2 * t.len - 1 /\ m.done = l.done BY <1>10, <3>1, NextOwed, Zenon
        <4>2. Need(f) = 2 * t.len - 1 BY <2>2, <3>1 DEF Need, Frame
        <4> HIDE DEF f, m, d
        <4> QED BY SMTT(15), <1>3, <1>10, <2>2, <4>1, <4>2
      <3>2. CASE t.kind \in Sequential
        <4>1. m.owed = d + t.len - 1 /\ m.done = l.done BY <1>10, <3>2, NextOwed, Zenon
        <4>2. Need(f) = t.len - 1 BY <2>2, <3>2 DEF Need, Frame, Sequential
        <4> HIDE DEF f, m, d
        <4> QED BY SMTT(15), <1>3, <1>10, <2>2, <4>1, <4>2
      <3> QED BY SMTT(15), <1>10, <3>1, <3>2 DEF Containers
    <2> HIDE DEF f, q
    <2>6. Sums(Append(q, f), d - 1 + Need(f)) BY <1>6, <2>4, <2>5, SumsPush, Zenon DEF q
    <2>7. d - 1 + Need(f) = m.owed - 1 /\ m.owed # 0 BY <1>3, <2>5
    <2>8. Append(q, f) # <<>> /\ back(Append(q, f)) = f BY <1>6, <2>4, Pushed, Zenon DEF q
    <2> HIDE DEF m
    <2> QED BY <1>7, <2>1, <2>4, <2>5, <2>6, <2>7, <2>8, Zenon
  <1>11. ASSUME t.kind # "attribute", t.kind \in Containers => t.len <= 0
         PROVE  Owes(m, "attach", pop_back(stack_), n)
    <2>1. /\ m.owed = d - 1
          /\ m.done = l.done + (IF m.owed = 0 THEN 1 ELSE 0)
      BY <1>11, NextOwed, Zenon
    <2> HIDE DEF m
    <2> QED BY <1>4, <1>6, <2>1, Zenon DEF Owes
  <1> HIDE DEF m
  <1>12. CASE t.kind = "attribute" BY <1>8, <1>9, <1>12, Zenon DEF m, Containers, Sequential
  <1>13. CASE t.kind # "attribute" BY <1>10, <1>11, <1>13, Zenon DEF m
  <1> QED BY <1>12, <1>13, Zenon

LEMMA ProgressInit == ParserInit /\ Types => Progress
  <1> SUFFICES ASSUME ParserInit, Types PROVE Progress OBVIOUS
  <1>1. /\ stream \in Streams /\ fed = 0 /\ size(buf_) = 0 /\ stack_ = <<>> /\ out = <<>>
        /\ pc = "read"
    BY DEF ParserInit, NewBuffer, size
  <1>2. /\ Layout[stream][1] = FirstPlace /\ Len(stream) \in Nat
        /\ \A i \in 1..Len(stream) : stream[i] \in Tokens
    BY <1>1, LayoutShape, StreamTokens, Zenon
  <1>3. 1 \in 1..(Len(stream) + 1) BY <1>2
  <1>4. FirstPlace.first = 1 /\ FirstPlace.owed = 0 /\ FirstPlace.done = 0 BY DEF FirstPlace
  <1>5. Owes(FirstPlace, "read", <<>>, Len(<<>>)) BY <1>4 DEF Owes
  <1>6. 1 <= Len(stream) => 0 < Bytes(stream[1])
    <2> SUFFICES ASSUME 1 <= Len(stream) PROVE 0 < Bytes(stream[1]) OBVIOUS
    <2>1. 1 \in 1..Len(stream) BY <1>2
    <2>2. stream[1] \in Tokens BY <1>2, <2>1, Zenon
    <2> QED BY <2>2, TokenFacts
  <1>7. \A j \in 1..(1 - 1) : FALSE OBVIOUS
  <1>8. 1 = 0 - 0 + 1 OBVIOUS
  <1>9. Upto(1) BY <1>1, <1>2, <1>4, <1>5, <1>6, <1>7, <1>8, Zenon DEF Upto
  <1>10. pc # "failed" BY <1>1
  <1> QED BY <1>3, <1>9, <1>10, Zenon DEF Progress, VerdictOfStream

LEMMA ProgressNext == Types /\ Unread /\ FramesInv /\ Progress /\ [ParserNext]_vars => Progress'
  <1> SUFFICES ASSUME Types, Unread, FramesInv, Progress, [ParserNext]_vars PROVE Progress'
    OBVIOUS
  <1>1. /\ stream \in Streams /\ buf_ \in Buffers /\ InOrder(buf_) /\ tree_ \in Trees
        /\ fed \in Nat /\ stack_ \in Seq(Frames) /\ child \in Nat
    BY Zenon DEF Types
  <1>2. Len(stream) \in Nat /\ size(buf_) \in Nat /\ Len(out) \in Nat
    <2>1. out \in Seq(Handed) BY Zenon DEF Types
    <2>2. Len(out) \in Nat BY <2>1
    <2> QED BY <1>1, <2>2, StreamTokens, FrontFacts, Zenon
  <1> DEFINE top == back(stack_)
             t == FrontToken
             n == Len(out)
  <1>3. stack_ # <<>> => top \in Frames /\ FrameFits(top)
    BY <1>1, StackedPop, Zenon DEF FramesInv
  <1>4. CASE UNCHANGED vars
    <2>1. \A k \in 1..(Len(stream) + 1) : Upto(k)' <=> Upto(k) BY <1>4, Zenon DEF vars, Upto
    <2> QED BY <1>4, <2>1, Zenon DEF vars, Progress, VerdictOfStream
  <1>5. CASE \E s \in Streams : Reset(s)
    <2>1. /\ stream' \in Streams /\ fed' = 0 /\ buf_' = reset(buf_) /\ stack_' = <<>>
          /\ out' = <<>> /\ pc' = "read"
      BY <1>5, Zenon DEF Reset
    <2>2. size(buf_') = 0 BY <1>1, <2>1, ResetFacts, Zenon
    <2> QED BY <2>1, <2>2, ProgressStart, Zenon
  <1>6. CASE ParseRefused /\ pc = "failed"
    <2>1. pc' = "failed" /\ stream' = stream /\ out' = out BY <1>6, Zenon DEF ParseRefused
    <2>2. result' = "parser_failed" BY <1>6 DEF ParseRefused, Types
    <2>3. VerdictOfStream' BY <1>6, <2>1, <2>2 DEF Progress, VerdictOfStream
    <2> QED BY <2>1, <2>3, Zenon DEF Progress
  <1> SUFFICES ASSUME pc # "failed", ParserNext, ~(\E s \in Streams : Reset(s)) PROVE Progress'
    <2>1. pc = "failed" => Progress'
      <3> SUFFICES ASSUME pc = "failed" PROVE Progress' BY SMTT(15)
      <3>1. \/ UNCHANGED vars \/ ParseRefused \/ \E s \in Streams : Reset(s)
        BY Zenon DEF ParserNext, Prepare, Commit, ParseOne, DriveValue, NeedMore, ParseFails,
               AcceptAttribute, AcceptContainer, AcceptValue, AttachRoot, AttachElement, AttachKey,
               AttachEntry, AttachAttributeKey, AttachAttribute, Consume, ParsingValue, Attaching
      <3> QED BY SMTT(15), <1>4, <1>5, <1>6, <3>1
    <2> QED BY <1>4, <1>5, <2>1
  <1> PICK k \in 1..(Len(stream) + 1) : Upto(k) BY Zenon DEF Progress
  <1> DEFINE l == Layout[stream][k]
  <1>7. l \in Places BY <1>1, LayoutShape, Zenon
  <1>8. /\ l.first = fed - size(buf_) + 1
        /\ \A j \in 1..(k - 1) : Whole(stream[j]) = "ok"
        /\ Owes(l, pc, stack_, n)
        /\ pc \in {"read", "reading"} /\ k <= Len(stream) => size(buf_) < Bytes(stream[k])
    BY Zenon DEF Upto
  <1>9. ASSUME NEW p, p \notin {"attach", "consume"}, NEW q, q \notin {"attach", "consume"}
        PROVE  \A st : Owes(l, p, st, n) => Owes(l, q, st, n)
    <2> HIDE DEF l, n
    <2> QED BY <1>9, Zenon DEF Owes
  <1> HIDE DEF l, t, n
  <1>10. CASE Prepare
    <2>1. pc = "read" /\ pc' = "reading" /\ UNCHANGED <<stream, fed, stack_, out>>
      BY <1>10, Zenon DEF Prepare
    <2>2. PICK new : GrowsTo(buf_, new) /\ buf_' = prepare(buf_, new) BY <1>10, Zenon DEF Prepare
    <2>3. buf_'.read_pos = buf_.read_pos /\ buf_'.write_pos = buf_.write_pos
      BY <1>1, <2>2, PrepareFacts, Zenon
    <2>4. size(buf_') = size(buf_) BY <2>3, Zenon DEF size
    <2>5. Owes(l, pc', stack_', Len(out'))
      <3>1. pc \notin {"attach", "consume"} /\ pc' \notin {"attach", "consume"} BY <2>1
      <3> QED BY <1>8, <1>9, <2>1, <3>1, Zenon DEF n
    <2>6. k <= Len(stream) => size(buf_') < Bytes(stream[k]) BY <1>8, <2>1, <2>4
    <2>7. pc' # "failed" /\ fed' - size(buf_') = fed - size(buf_) BY <2>1, <2>4
    <2> QED BY <2>1, <2>5, <2>6, <2>7, ProgressStays, Zenon DEF l
  <1>11. CASE \E i \in 1..(End(stream).first - 1) : Commit(i)
    <2> PICK i \in 1..(End(stream).first - 1) : Commit(i) BY <1>11, Zenon
    <2> DEFINE B == [j \in 1..i |-> Byte(fed + j)]
    <2>1. /\ pc = "reading" /\ pc' = "parse" /\ UNCHANGED <<stream, stack_, out>>
          /\ i <= Writable(buf_) /\ buf_' = commit(buf_, B) /\ fed' = fed + i
      BY Zenon DEF Commit
    <2>2. i \in Nat /\ gen \in Nat
      <3>1. i \in Int OBVIOUS
      <3> QED BY <3>1 DEF Types
    <2>3. B \in [1..i -> Nat \X Nat] BY <1>1, <2>2 DEF Byte
    <2> HIDE DEF B
    <2>4. buf_'.read_pos = buf_.read_pos /\ buf_'.write_pos = buf_.write_pos + i
      BY <1>1, <2>1, <2>2, <2>3, CommitFacts, Zenon
    <2>5. fed' - size(buf_') = fed - size(buf_)
      <3>1. buf_.read_pos \in Nat /\ buf_.write_pos \in Nat BY <1>1 DEF Buffers
      <3> QED BY SMTT(15), <1>1, <2>1, <2>2, <2>4, <3>1 DEF size
    <2>6. Owes(l, pc', stack_', Len(out'))
      <3>1. pc \notin {"attach", "consume"} /\ pc' \notin {"attach", "consume"} BY <2>1
      <3> QED BY <1>8, <1>9, <2>1, <3>1, Zenon DEF n
    <2>7. pc' # "failed" /\ pc' \notin {"read", "reading"} BY <2>1
    <2> QED BY <2>1, <2>5, <2>6, <2>7, ProgressStays, Zenon DEF l
  <1>12. CASE ParseRefused
    <2>1. pc = "consume" /\ pc' = pc /\ UNCHANGED <<stream, fed, buf_, stack_, out>>
      BY <1>12 DEF ParseRefused, Types
    <2>2. pc' # "failed" /\ pc' \notin {"read", "reading"} BY <2>1
    <2>3. Owes(l, pc', stack_', Len(out')) BY <1>8, <2>1, Zenon DEF n
    <2>4. fed' - size(buf_') = fed - size(buf_) BY <2>1, Zenon
    <2> QED BY <2>1, <2>2, <2>3, <2>4, ProgressStays, Zenon DEF l
  <1>13. CASE ParseOne
    <2>1. /\ pc = "parse" /\ pc' = "loop" /\ UNCHANGED <<stream, fed, buf_, out>>
          /\ stack_' = IF stack_ = <<>> THEN <<ValueFrame>> ELSE stack_
      BY <1>13, Zenon DEF ParseOne
    <2>2. pc \notin {"attach", "consume"} /\ pc' \notin {"attach", "consume"} BY <2>1
    <2>3. Owes(l, pc', stack_', Len(out'))
      <3>1. CASE stack_ = <<>>
        <4>1. l.done = n /\ l.owed = 0 BY <1>8, <2>2, <3>1, Zenon DEF Owes
        <4>2. Due(l) = 1 BY <4>1, Zenon DEF Due
        <4>3. <<ValueFrame>> = Append(<<>>, ValueFrame) OBVIOUS
        <4>4. Sums(<<>>, 0) BY SumsEmpty, Zenon
        <4>5. ValueFrame \in Frames /\ <<>> \in Seq(Frames) /\ Need(ValueFrame) = 1
          BY NeedValue, EmptyTypes, Zenon
        <4>6. Need(ValueFrame) \in Nat /\ 0 + 1 = 1 BY <4>5
        <4>7. Sums(<<ValueFrame>>, 0 + Need(ValueFrame)) BY <4>3, <4>4, <4>5, <4>6, SumsPush, Zenon
        <4>8. Sums(<<ValueFrame>>, 1) BY <4>5, <4>6, <4>7, Zenon
        <4>9. <<ValueFrame>> # <<>> /\ back(<<ValueFrame>>) = ValueFrame
          BY <4>3, <4>5, Pushed, Zenon
        <4>10. ValueFrame.state = "value" BY DEF ValueFrame, Frame
        <4>11. Owes(l, pc', <<ValueFrame>>, n)
          BY <2>2, <4>1, <4>2, <4>8, <4>9, <4>10, Zenon DEF Owes
        <4> QED BY <2>1, <3>1, <4>11, Zenon DEF n
      <3>2. CASE stack_ # <<>> BY <1>8, <1>9, <2>1, <2>2, <3>2, Zenon DEF n
      <3> QED BY <3>1, <3>2
    <2>4. pc' # "failed" /\ pc' \notin {"read", "reading"} BY <2>1
    <2>5. fed' - size(buf_') = fed - size(buf_) BY <2>1, Zenon
    <2> QED BY <2>1, <2>3, <2>4, <2>5, ProgressStays, Zenon DEF l
  <1>14. CASE DriveValue
    <2>1. /\ pc = "loop" /\ pc' = pc /\ UNCHANGED <<stream, fed, buf_, out>>
          /\ stack_ # <<>> /\ top.state # "value" /\ stack_' = Append(stack_, ValueFrame)
      BY <1>14, Zenon DEF DriveValue
    <2>2. pc \notin {"attach", "consume"} BY <2>1
    <2>3. l.done = n /\ Sums(stack_, Due(l) - 1) BY <1>8, <2>1, <2>2, Zenon DEF Owes
    <2>4. ValueFrame \in Frames /\ Need(ValueFrame) = 1 BY NeedValue, EmptyTypes, Zenon
    <2>5. Need(ValueFrame) \in Nat BY <2>4
    <2>6. Sums(stack_', Due(l) - 1 + Need(ValueFrame)) BY <1>1, <2>1, <2>3, <2>4, <2>5, SumsPush, Zenon
    <2>7. Due(l) \in Nat BY <1>7 DEF Due, Places
    <2>8. Due(l) - 1 + Need(ValueFrame) = Due(l) BY <2>4, <2>7
    <2>9. stack_' # <<>> /\ back(stack_') = ValueFrame BY <1>1, <2>1, <2>4, Pushed, Zenon
    <2>10. ValueFrame.state = "value" BY DEF ValueFrame, Frame
    <2>11. Owes(l, pc', stack_', Len(out'))
      BY <2>1, <2>2, <2>3, <2>6, <2>8, <2>9, <2>10, Zenon DEF Owes, n
    <2>12. pc' # "failed" /\ pc' \notin {"read", "reading"} BY <2>1
    <2>13. fed' - size(buf_') = fed - size(buf_) BY <2>1, Zenon
    <2> QED BY <2>1, <2>11, <2>12, <2>13, ProgressStays, Zenon DEF l
  <1>15. size(buf_) # 0 => k \in 1..Len(stream) /\ t = stream[k] /\ t \in Tokens
    BY <1>1, <1>8, FrontIs, StreamTokens, Zenon DEF l, t
  <1>16. CASE NeedMore
    <2>1. /\ pc = "loop" /\ pc' = "read" /\ UNCHANGED <<stream, fed, buf_, stack_, out>>
          /\ Decision = "need"
      BY <1>16, Zenon DEF NeedMore, ParsingValue
    <2>2. Owes(l, pc', stack_', Len(out'))
      <3>1. pc \notin {"attach", "consume"} /\ pc' \notin {"attach", "consume"} BY <2>1
      <3> QED BY <1>8, <1>9, <2>1, <3>1, Zenon DEF n
    <2>3. k <= Len(stream) => size(buf_') < Bytes(stream[k])
      <3> SUFFICES ASSUME k <= Len(stream) PROVE size(buf_) < Bytes(stream[k]) BY <2>1, Zenon
      <3>1. k \in 1..Len(stream) BY <1>2
      <3>2. stream[k] \in Tokens BY <1>1, <3>1, StreamTokens, Zenon
      <3>3. Bytes(stream[k]) \in Nat /\ Bytes(stream[k]) > 0 BY <3>2, TokenFacts, Zenon
      <3>4. CASE size(buf_) = 0 BY <3>3, <3>4
      <3>5. CASE size(buf_) # 0
        <4>1. Verdict(stream[k], size(buf_)) = "need"
          BY <1>15, <2>1, <3>5, Zenon DEF Decision, t
        <4>2. ~(size(buf_) >= Bytes(stream[k])) BY <1>2, <3>2, <4>1, VerdictFacts, Zenon
        <4> QED BY <1>2, <3>3, <4>2
      <3> QED BY <3>4, <3>5
    <2>4. pc' # "failed" BY <2>1
    <2>5. fed' - size(buf_') = fed - size(buf_) BY <2>1, Zenon
    <2> QED BY <2>1, <2>2, <2>3, <2>4, <2>5, ProgressStays, Zenon DEF l
  <1>17. CASE ParseFails
    <2>1. /\ pc = "loop" /\ pc' = "failed" /\ UNCHANGED <<stream, out>>
          /\ Decision # "need" /\ Decision # "ok" /\ result' = Decision
      BY <1>17 DEF ParseFails, ParsingValue
    <2>2. size(buf_) # 0 BY <2>1, Zenon DEF Decision
    <2>3. k \in 1..Len(stream) /\ t = stream[k] /\ t \in Tokens BY <1>15, <2>2, Zenon
    <2>4. Decision = Verdict(t, size(buf_)) BY <2>2, Zenon DEF Decision, t
    <2>5. Decision = Whole(t) \/ t.line = max_resp_line_bytes
      BY <1>2, <2>1, <2>3, <2>4, VerdictFacts, Zenon
    <2>6. l.done = n
      <3>1. pc \notin {"attach", "consume"} BY <2>1
      <3> QED BY <1>8, <3>1, Zenon DEF Owes
    <2>7. \/ Whole(stream[k]) # "ok" /\ result' \in {Whole(stream[k]), "parser_failed"}
          \/ stream[k].line = max_resp_line_bytes
      BY SMTT(15), <2>1, <2>3, <2>5
    <2>8. VerdictOfStream'
      BY <1>8, <2>1, <2>3, <2>6, <2>7, Zenon DEF VerdictOfStream, l, n
    <2> QED BY <2>1, <2>8, Zenon DEF Progress
  <1>18. CASE AcceptAttribute \/ AcceptContainer \/ AcceptValue
    <2>1. /\ pc = "loop" /\ stack_ # <<>> /\ top.state = "value" /\ Decision = "ok"
          /\ stream' = stream /\ fed' = fed /\ out' = out /\ buf_' = consume(buf_, Bytes(t))
      BY <1>18, Zenon DEF AcceptAttribute, AcceptContainer, AcceptValue, ParsingValue, t
    <2>2. t \in Tokens /\ (t.kind = "attribute" => t.len >= 0) BY <1>1, <2>1, FrontFacts, Zenon DEF t
    <2>3. Owes(l, "loop", stack_, n) BY <1>8, <2>1, Zenon
    <2>4. n \in Nat BY <1>2, Zenon DEF n
    <2>5. /\ t.kind = "attribute" => Owes(NextPlace(l, t), "loop", start_attribute(t), n)
          /\ t.kind \in Containers /\ t.len > 0 =>
               Owes(NextPlace(l, t), "loop", start_container(t), n)
          /\ t.kind # "attribute" /\ (t.kind \in Containers => t.len <= 0) =>
               Owes(NextPlace(l, t), "attach", pop_back(stack_), n)
      BY <1>7, <2>1, <2>2, <2>3, <2>4, AcceptedOwes, Zenon
    <2>6. Owes(NextPlace(l, t), pc', stack_', n) /\ pc' \in {"loop", "attach"}
      <3>1. CASE AcceptAttribute
        <4>1. pc' = "loop" /\ stack_' = start_attribute(t) /\ t.kind = "attribute"
          BY <2>1, <3>1, Zenon DEF AcceptAttribute, t
        <4> QED BY <2>5, <4>1, Zenon
      <3>2. CASE AcceptContainer
        <4>1. pc' = "loop" /\ stack_' = start_container(t) /\ t.kind \in Containers /\ t.len > 0
          BY <2>1, <3>2, Zenon DEF AcceptContainer, t
        <4> QED BY <2>5, <4>1, Zenon
      <3>3. CASE AcceptValue
        <4>1. /\ pc' = "attach" /\ stack_' = pop_back(stack_)
              /\ t.kind # "attribute" /\ (t.kind \in Containers => t.len <= 0)
          BY <3>3, Zenon DEF AcceptValue, t
        <4> QED BY <2>5, <4>1, Zenon
      <3> QED BY SMTT(15), <1>18, <3>1, <3>2, <3>3
    <2>7. pc' \notin {"read", "reading", "failed"} BY <2>6
    <2> QED BY <2>1, <2>6, <2>7, ProgressMoves, Zenon DEF l, t, n
  <1>19. ASSUME pc = "attach", stream' = stream, fed' = fed, buf_' = buf_, out' = out,
                Owes(l, pc', stack_', n), pc' \in {"loop", "attach", "consume"}
         PROVE  Progress'
    <2>1. pc' # "failed" /\ pc' \notin {"read", "reading"} BY <1>19
    <2>2. fed' - size(buf_') = fed - size(buf_) BY <1>19, Zenon
    <2> QED BY <1>19, <2>1, <2>2, ProgressStays, Zenon DEF l, n
  <1>20. n \in Nat BY <1>2, Zenon DEF n
  <1>21. CASE AttachRoot
    <2>1. /\ pc = "attach" /\ pc' = "consume" /\ UNCHANGED <<stream, fed, buf_, out, stack_>>
      BY <1>21, Zenon DEF AttachRoot
    <2>2. pc \in {"attach", "consume"} /\ pc' \in {"attach", "consume"} BY <2>1
    <2>3. Owes(l, pc', stack_', n) BY <1>8, <2>1, <2>2, Zenon DEF Owes
    <2> QED BY SMTT(15), <1>19, <2>1, <2>3
  <1>22. CASE AttachElement
    <2> DEFINE f == Element(top)
    <2>1. /\ pc = "attach" /\ UNCHANGED <<stream, fed, buf_, out>>
          /\ stack_ # <<>> /\ top.state = "array" /\ Produced(f)
      BY <1>22, Zenon DEF AttachElement, Attaching, Element
    <2>2. top \in Frames /\ FrameFits(top) /\ f \in Frames
      BY <1>1, <1>3, <2>1, FrameUpdates, Zenon
    <2>3. IF f.produced = f.expected THEN Need(top) = 0
          ELSE Need(f) \in Nat /\ Need(top) = Need(f) + 1
      <3>1. 1 \in Nat /\ 1 # 0 OBVIOUS
      <3> QED BY <2>1, <2>2, <3>1, NeedUpdates, Zenon
    <2> HIDE DEF f
    <2>4. Owes(l, "attach", stack_, n) BY <1>8, <2>1, Zenon
    <2>5. Owes(l, pc', stack_', n) /\ pc' \in {"attach", "loop"}
      BY <1>1, <1>7, <1>20, <2>1, <2>2, <2>3, <2>4, ProducedOwes, Zenon
    <2> QED BY SMTT(15), <1>19, <2>1, <2>5
  <1>23. CASE AttachEntry
    <2> DEFINE f == Entry(top)
    <2>1. /\ pc = "attach" /\ UNCHANGED <<stream, fed, buf_, out>>
          /\ stack_ # <<>> /\ top.state = "map_value" /\ Produced(f)
      BY <1>23, Zenon DEF AttachEntry, Attaching, Entry
    <2>2. top \in Frames /\ FrameFits(top) /\ f \in Frames
      BY <1>1, <1>3, <2>1, FrameUpdates, Zenon
    <2>3. IF f.produced = f.expected THEN Need(top) = 0
          ELSE Need(f) \in Nat /\ Need(top) = Need(f) + 1
      <3>1. 1 \in Nat /\ 1 # 0 OBVIOUS
      <3> QED BY <2>1, <2>2, <3>1, NeedUpdates, Zenon
    <2> HIDE DEF f
    <2>4. Owes(l, "attach", stack_, n) BY <1>8, <2>1, Zenon
    <2>5. Owes(l, pc', stack_', n) /\ pc' \in {"attach", "loop"}
      BY <1>1, <1>7, <1>20, <2>1, <2>2, <2>3, <2>4, ProducedOwes, Zenon
    <2> QED BY SMTT(15), <1>19, <2>1, <2>5
  <1>24. ASSUME NEW s, pc = "attach", stack_ # <<>>, KeepKey(s),
                \/ top.state = "map_key" /\ s = "map_value"
                \/ top.state = "attribute" /\ top.pending_key = 0 /\ s = "attribute"
         PROVE  Progress'
    <2> DEFINE f == Keyed(top, s, child)
    <2>1. /\ stack_' = Append(ReplaceTop(stack_, f), ValueFrame) /\ pc' = "loop"
          /\ UNCHANGED <<stream, fed, buf_, out>>
      BY <1>24, Zenon DEF KeepKey, Keyed
    <2>2. top \in Frames /\ FrameFits(top) BY <1>3, <1>24, Zenon
    <2>3. child # 0 BY <1>24 DEF FramesInv
    <2>4. f \in Frames
      <3> DEFINE g == top
                 c == child
      <3>1. g \in Frames /\ c \in Nat BY <1>1, <2>2, Zenon
      <3> HIDE DEF g, c
      <3>2. Keyed(g, s, c) \in Frames BY Zenon, <1>24, <3>1 DEF Frames, Keyed
      <3> QED BY <3>2, Zenon DEF g, c
    <2>5. Need(f) \in Nat /\ Need(top) = Need(f) + 1
      BY <1>1, <1>24, <2>2, <2>3, NeedUpdates, Zenon
    <2> HIDE DEF f
    <2>6. Owes(l, "attach", stack_, n) BY <1>8, <1>24, Zenon
    <2>7. Owes(l, pc', stack_', n)
      BY <1>1, <1>7, <1>20, <1>24, <2>1, <2>4, <2>5, <2>6, OwesProduced, Zenon
    <2> QED BY SMTT(15), <1>19, <1>24, <2>1, <2>7
  <1>25. CASE AttachKey \/ AttachAttributeKey
    BY <1>24, <1>25, Zenon DEF AttachKey, AttachAttributeKey, Attaching
  <1>26. CASE AttachAttribute
    <2> DEFINE f == Pair(top)
    <2>1. /\ pc = "attach" /\ pc' = "loop" /\ UNCHANGED <<stream, fed, buf_, out>>
          /\ stack_ # <<>> /\ top.state = "attribute" /\ top.pending_key # 0
          /\ stack_' = IF f.produced = f.expected THEN pop_back(stack_)
                       ELSE Append(ReplaceTop(stack_, f), ValueFrame)
      BY <1>26, Zenon DEF AttachAttribute, Attaching, Pair
    <2>2. top \in Frames /\ FrameFits(top) /\ f \in Frames
      BY <1>1, <1>3, <2>1, FrameUpdates, Zenon
    <2>3. IF f.produced = f.expected THEN Need(top) = 0
          ELSE Need(f) \in Nat /\ Need(top) = Need(f) + 1
      <3>1. 1 \in Nat /\ 1 # 0 OBVIOUS
      <3> QED BY <2>1, <2>2, <3>1, NeedUpdates, Zenon
    <2> HIDE DEF f
    <2>4. Owes(l, "attach", stack_, n) BY <1>8, <2>1, Zenon
    <2>5. Owes(l, pc', stack_', n)
      <3>1. CASE f.produced # f.expected
        BY <1>1, <1>7, <1>20, <2>1, <2>2, <2>3, <2>4, <3>1, OwesProduced, Zenon
      <3>2. CASE f.produced = f.expected
        <4> DEFINE q == pop_back(stack_)
                   w == l.owed
        <4>1. stack_' = q /\ Need(top) = 0 BY <2>1, <2>3, <3>2, Zenon
        <4>2. q \in Seq(Frames) BY <1>1, <2>1, TopFacts, Zenon
        <4>3. q # <<>> /\ Above(back(q), top) BY <1>1, <2>1, StackedPop, Zenon DEF FramesInv
        <4>4. back(q).state = "value" BY <2>1, <4>3 DEF Above
        <4>5. Owes(l, "attach", q, n) BY <1>1, <1>7, <1>20, <2>1, <2>4, <4>1, OwesPopped, Zenon
        <4>6. Sums(q, w) /\ l.done = n + (IF w = 0 THEN 1 ELSE 0) BY <4>5, Zenon DEF Owes
        <4> HIDE DEF q, w
        <4>7. Need(back(q)) = 1 /\ Need(back(q)) \in Nat BY <4>4 DEF Need
        <4>8. w \in Nat /\ w - Need(back(q)) \in Nat BY <4>2, <4>3, <4>6, <4>7, SumsPop, Zenon
        <4>9. w # 0 BY SMTT(15), <4>7, <4>8
        <4>10. l.done = n BY SMTT(15), <1>20, <4>6, <4>9
        <4>11. Due(l) = w BY <4>9, Zenon DEF Due, w
        <4>12. "loop" \notin {"attach", "consume"} OBVIOUS
        <4>13. Owes(l, "loop", q, n)
          BY <4>3, <4>4, <4>6, <4>10, <4>11, <4>12, Zenon DEF Owes
        <4> QED BY <2>1, <4>1, <4>13, Zenon
      <3> QED BY <3>1, <3>2
    <2> QED BY SMTT(15), <1>19, <2>1, <2>5
  <1>27. CASE Consume
    <2>1. /\ pc = "consume" /\ pc' = "parse" /\ UNCHANGED <<stream, fed>>
          /\ stack_' = <<>> /\ buf_' = compact(buf_)
      BY <1>27, Zenon DEF Consume
    <2>2. Len(out') = n + 1
      <3>1. PICK h : out' = Append(out, h) BY <1>27, Zenon DEF Consume
      <3>2. out \in Seq(Handed) BY Zenon DEF Types
      <3> QED BY <3>1, <3>2 DEF n
    <2>3. size(buf_') = size(buf_)
      <3>1. buf_'.read_pos = 0 /\ buf_'.write_pos = size(buf_) BY <1>1, <2>1, CompactFacts, Zenon
      <3> QED BY <1>2, <3>1 DEF size
    <2>4. stack_ = <<>> BY <2>1 DEF FramesInv
    <2>5. Sums(<<>>, l.owed) /\ l.done = n + (IF l.owed = 0 THEN 1 ELSE 0)
      <3>1. pc \in {"attach", "consume"} BY <2>1
      <3> QED BY <1>8, <2>4, <3>1, Zenon DEF Owes
    <2>6. l.owed = 0 BY <2>5, SumsEmpty, Zenon
    <2>7. l.done = Len(out') BY <2>2, <2>5, <2>6, Zenon
    <2>8. pc' \notin {"attach", "consume"} /\ pc' # "failed" /\ pc' \notin {"read", "reading"}
      BY <2>1
    <2>9. Owes(l, pc', stack_', Len(out')) BY <2>1, <2>6, <2>7, <2>8, Zenon DEF Owes
    <2>10. fed' - size(buf_') = fed - size(buf_) BY <2>1, <2>3, Zenon
    <2> QED BY <2>1, <2>8, <2>9, <2>10, ProgressStays, Zenon DEF l
  <1> QED BY <1>10, <1>11, <1>12, <1>13, <1>14, <1>16, <1>17, <1>18, <1>21, <1>22, <1>23, <1>25,
             <1>26, <1>27, Zenon DEF ParserNext

\* What the progress says of the messages: none is missing while the caller waits, and
\* there are no more than the stream has.
LEMMA ProgressFacts ==
  ASSUME Types, Progress
  PROVE  NoStall /\ Len(out) <= End(stream).done
  <1> DEFINE m == Len(stream) + 1
             L == Layout[stream]
             n == Len(out)
  <1>1. /\ stream \in Streams /\ fed \in Nat /\ m - 1 = Len(stream) /\ Len(stream) \in Nat
        /\ n \in Nat /\ size(buf_) \in Nat
    <2>1. stream \in Streams /\ fed \in Nat /\ out \in Seq(Handed) /\ buf_ \in Buffers /\ InOrder(buf_)
      BY DEF Types
    <2>2. Len(stream) \in Nat /\ size(buf_) \in Nat BY <2>1, StreamTokens, FrontFacts, Zenon
    <2> QED BY <2>1, <2>2
  <1>2. \A i \in 1..m : L[i] \in Places BY <1>1, LayoutShape, Zenon
  <1>3. \A i \in 1..m : \A j \in 1..m : i < j =>
            L[i].first + Bytes(stream[i]) <= L[j].first /\ L[i].done <= L[j].done
    BY <1>1, LayoutGrows, Zenon
  <1>4. m \in 1..m /\ End(stream) = L[m] BY <1>1 DEF End
  <1>5. CASE pc = "failed"
    <2>1. PICK i \in 1..Len(stream) : L[i].done = n BY <1>5, Zenon DEF Progress, VerdictOfStream
    <2>2. i \in 1..m /\ i < m BY <1>1
    <2>3. L[i].done <= L[m].done BY <1>3, <1>4, <2>2, Zenon
    <2>4. pc # "reading" BY <1>5
    <2> QED BY <1>4, <2>1, <2>3, <2>4, Zenon DEF NoStall
  <1>6. CASE pc # "failed"
    <2>1. PICK k \in 1..m : Upto(k) BY <1>6, Zenon DEF Progress
    <2>2. L[k].first = fed - size(buf_) + 1 /\ Owes(L[k], pc, stack_, n) BY <2>1, Zenon DEF Upto
    <2>3. n <= L[k].done /\ (pc = "reading" => L[k].done = n)
      <3>1. L[k].done \in Nat BY <1>2, <2>1 DEF Places
      <3> QED BY SMTT(15), <1>1, <2>2, <3>1 DEF Owes
    <2>4. k = m \/ L[k].done <= L[m].done
      <3>1. k = m \/ k < m BY SMTT(15), <1>1, <2>1
      <3> QED BY <1>3, <1>4, <3>1, Zenon
    <2>5. n <= End(stream).done
      <3>1. L[k].done \in Nat /\ L[m].done \in Nat BY SMTT(15), <1>2, <1>4, <2>1 DEF Places
      <3> QED BY SMTT(15), <1>1, <1>4, <2>3, <2>4, <3>1
    <2>6. ASSUME pc = "reading", NEW i \in 1..m, L[i].first <= fed + 1
          PROVE  n >= L[i].done
      <3>1. L[i].done \in Nat /\ L[i].first \in Nat /\ L[k].done \in Nat /\ L[k].first \in Nat
        BY SMTT(15), <1>2, <2>1 DEF Places
      <3>2. CASE i <= k
        <4>1. i = k \/ i < k BY <3>2
        <4>2. i = k \/ L[i].done <= L[k].done BY <1>3, <2>1, <4>1, Zenon
        <4> QED BY SMTT(15), <1>1, <2>3, <2>6, <3>1, <4>2
      <3>3. CASE i > k
        <4>1. k < i /\ k <= Len(stream) /\ k \in 1..Len(stream) BY <1>1, <2>1, <3>3
        <4>2. L[k].first + Bytes(stream[k]) <= L[i].first BY <1>3, <2>1, <4>1, ZenonT(30)
        <4>3. size(buf_) < Bytes(stream[k]) BY <2>1, <2>6, <4>1 DEF Upto
        <4>4. Bytes(stream[k]) \in Nat BY <1>1, <4>1, StreamTokens, TokenFacts, Zenon
        <4> HIDE DEF L
        <4> QED BY SMTT(15), <1>1, <2>2, <2>6, <3>1, <4>2, <4>3, <4>4
      <3> QED BY SMTT(15), <1>1, <2>1, <3>2, <3>3
    <2> QED BY <2>5, <2>6, Zenon DEF NoStall
  <1> QED BY <1>5, <1>6

-----------------------------------------------------------------------------
(* Theorems *)

LEMMA ProgressInvariant == ParserSpec => [](StateInv /\ Progress)
  <1>1. ParserInit /\ StateInv => Progress BY ProgressInit, Zenon DEF StateInv
  <1>2. StateInv /\ Progress /\ [ParserNext]_vars => Progress' BY ProgressNext, Zenon DEF StateInv
  <1> QED BY <1>1, <1>2, StateInvariant, PTL DEF ParserSpec

\* Whatever the server sends and however it is cut into reads, the variables keep their
\* types, the positions of the buffer stay in order, no more bytes are committed than were
\* sent, and parse_one() returns no message that is not in the stream.
THEOREM ParserTypes == ParserSpec => []ParserTypeOK
  <1>1. StateInv /\ Progress => ParserTypeOK
    <2> SUFFICES ASSUME StateInv, Progress PROVE ParserTypeOK OBVIOUS
    <2>1. Types /\ Progress BY Zenon DEF StateInv
    <2>2. Len(out) <= End(stream).done BY <2>1, ProgressFacts, Zenon
    <2> QED BY <2>1, <2>2, Zenon DEF Types, ParserTypeOK, Buffers, Trees, InOrder, Capacity
  <1> QED BY <1>1, ProgressInvariant, PTL

\* When the caller waits for more bytes, parse_one() has returned every message of which
\* the last byte has been read.
THEOREM NoMessageStalls == ParserSpec => []NoStall
  <1>1. StateInv /\ Progress => NoStall BY ProgressFacts, Zenon DEF StateInv
  <1> QED BY <1>1, ProgressInvariant, PTL

\* parse_one() fails on the first faulty token of the stream, with the error of that
\* token, however the bytes were cut into reads and whatever happened before reset();
\* but for a line of exactly max_resp_line_bytes.
THEOREM SameVerdict == ParserSpec => []VerdictOfStream
  <1>1. StateInv /\ Progress => VerdictOfStream BY Zenon DEF Progress
  <1> QED BY <1>1, ProgressInvariant, PTL

=============================================================================
