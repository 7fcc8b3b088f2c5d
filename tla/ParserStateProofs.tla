------------------------- MODULE ParserStateProofs --------------------------
(*******************************************************************************)
(* What the proofs about the parser rest on: where the tokens of a stream      *)
(* begin, what parse_value() decides about them, what the operations of the    *)
(* buffer and of the tree do, and the first four parts of the inductive        *)
(* invariant: the types, the unread bytes, the views into the buffer, and the  *)
(* frames.                                                                     *)
(*                                                                             *)
(* Types comes first, since every other part needs it.  It says more than      *)
(* ParserTypeOK where a step depends on it: what was handed out has a type,    *)
(* and the flags of the parser follow the program counter.                     *)
(*******************************************************************************)
EXTENDS Resp3Parser, SequenceTheorems, WellFoundedInduction, TLAPS

-----------------------------------------------------------------------------
(* Induction over the natural numbers, with sets in the place of predicates *)

LEMMA LeastNat ==
  ASSUME NEW T \in SUBSET Nat, T # {}
  PROVE  \E x \in T : \A y \in T : x <= y
  <1>1. PICK x \in T : \A y \in T : ~ (<<y, x>> \in OpToRel(<, Nat))
    BY Zenon, NatLessThanWellFounded, WFMin
  <1>2. ASSUME NEW y \in T PROVE ~(y < x)
    <2>1. <<y, x>> \in Nat \X Nat OBVIOUS
    <2> QED BY <1>1, <2>1 DEF OpToRel
  <1> QED BY <1>2

LEMMA Induct ==
  ASSUME NEW T, 0 \in T, \A n \in Nat : n \in T => n + 1 \in T
  PROVE  \A n \in Nat : n \in T
  <1> DEFINE B == Nat \ T
  <1> SUFFICES ASSUME B # {} PROVE FALSE OBVIOUS
  <1>1. PICK x \in B : \A y \in B : x <= y BY Zenon, LeastNat
  <1>2. x - 1 \in Nat /\ x - 1 \notin B BY <1>1
  <1> QED BY <1>2

Runs(m, S, a, g) ==
    {f \in [1..m -> S] : f[1] = a /\ \A i \in 1..(m - 1) : f[i + 1] = g[i][f[i]]}

\* A recursively defined sequence exists.
LEMMA Recursion ==
  ASSUME NEW n \in Nat, NEW S, NEW a \in S, NEW g \in [1..n -> [S -> S]]
  PROVE  Runs(n + 1, S, a, g) # {}
  <1> DEFINE T == {m \in Nat : m <= n => Runs(m + 1, S, a, g) # {}}
  <1>1. 0 \in T
    <2>1. [i \in 1..1 |-> a] \in Runs(1, S, a, g) BY DEF Runs
    <2> QED BY <2>1
  <1>2. ASSUME NEW m \in Nat, m \in T PROVE m + 1 \in T
    <2>1. CASE m + 1 <= n
      <3>1. Runs(m + 1, S, a, g) # {} BY <1>2, <2>1
      <3>2. PICK f \in [1..(m + 1) -> S] : f[1] = a /\ \A i \in 1..m : f[i + 1] = g[i][f[i]]
        BY <3>1 DEF Runs
      <3> DEFINE h == [i \in 1..(m + 2) |-> IF i <= m + 1 THEN f[i] ELSE g[m + 1][f[m + 1]]]
      <3>3. f[m + 1] \in S /\ m + 1 \in 1..n BY <3>2, <2>1
      <3>4. g[m + 1] \in [S -> S] BY <3>3
      <3>5. g[m + 1][f[m + 1]] \in S BY <3>3, <3>4
      <3>6. h \in [1..(m + 2) -> S] BY <3>2, <3>5
      <3>7. h[1] = a BY <3>2
      <3>8. ASSUME NEW i \in 1..(m + 1) PROVE h[i + 1] = g[i][h[i]]
        <4>1. CASE i = m + 1 BY <4>1
        <4>2. CASE i \in 1..m BY <4>2, <3>2
        <4> QED BY <4>1, <4>2
      <3> HIDE DEF h
      <3>9. h \in Runs(m + 2, S, a, g) BY <3>6, <3>7, <3>8 DEF Runs
      <3> QED BY <3>9
    <2>2. CASE ~(m + 1 <= n) BY <2>2
    <2> QED BY <2>1, <2>2
  <1>3. n \in T
    <2> HIDE DEF T
    <2> QED BY <1>1, <1>2, Induct
  <1> QED BY <1>3

-----------------------------------------------------------------------------
(* The layout of a stream *)

Places == [first : Nat \ {0}, owed : Nat, done : Nat]

LEMMA TokenFacts ==
  ASSUME NEW t \in Tokens
  PROVE  Bytes(t) \in Nat /\ Bytes(t) > 0 /\ Inner(t) \in Nat
  <1>1. t.kind \in Kinds /\ t.line \in Nat /\ t.len \in Int BY DEF Tokens
  <1> QED BY <1>1, SMT DEF Bytes, Inner

\* What an aggregate that is not empty announces.
LEMMA InnerFacts ==
  ASSUME NEW t, t.len > 0
  PROVE  /\ t.kind \in Sequential => Inner(t) = t.len
         /\ t.kind = "map" => Inner(t) = 2 * t.len
  BY DEF Inner, Sequential

LEMMA NextPlaceType ==
  ASSUME NEW t \in Tokens, NEW l \in Places
  PROVE  NextPlace(l, t) \in Places
  <1>1. Bytes(t) \in Nat /\ Inner(t) \in Nat BY TokenFacts
  <1> QED BY <1>1, SMT DEF NextPlace, Places

LEMMA StreamTokens ==
  ASSUME NEW s \in Streams
  PROVE  Len(s) \in Nat /\ \A i \in 1..Len(s) : s[i] \in Tokens
  <1>1. s \in Seq(Tokens) BY ParserAssumption, Zenon
  <1> QED BY <1>1

\* What Layout says of a stream: the recursion has a solution.
LEMMA LayoutShape ==
  ASSUME NEW s \in Streams
  PROVE  /\ Layout[s] \in [1..(Len(s) + 1) -> Places]
         /\ Layout[s][1] = FirstPlace
         /\ \A i \in 1..Len(s) : Layout[s][i + 1] = NextPlace(Layout[s][i], s[i])
  <1> DEFINE n == Len(s)
             g == [i \in 1..n |-> [l \in Places |-> NextPlace(l, s[i])]]
             Eq(w) == w = [i \in 1..(Len(s) + 1) |->
                             IF i = 1 THEN FirstPlace ELSE NextPlace(w[i - 1], s[i - 1])]
  <1>1. n \in Nat /\ \A i \in 1..n : s[i] \in Tokens BY StreamTokens, Zenon
  <1>2. FirstPlace \in Places BY DEF FirstPlace, Places
  <1>3. Layout[s] = CHOOSE w : Eq(w) BY Zenon DEF Layout
  <1> HIDE DEF n
  <1>4. g \in [1..n -> [Places -> Places]]
    <2>1. \A i \in 1..n : \A l \in Places : NextPlace(l, s[i]) \in Places
      BY <1>1, NextPlaceType, Zenon
    <2>2. \A i \in 1..n : [l \in Places |-> NextPlace(l, s[i])] \in [Places -> Places]
      BY <2>1, Zenon
    <2> QED BY <2>2, Zenon
  <1>5. PICK f \in [1..(n + 1) -> Places] :
           f[1] = FirstPlace /\ \A i \in 1..n : f[i + 1] = g[i][f[i]]
    <2> HIDE DEF g
    <2>1. n \in Nat BY <1>1
    <2>2. Runs(n + 1, Places, FirstPlace, g) # {} BY <2>1, <1>2, <1>4, Recursion, Zenon
    <2> HIDE DEF Eq
    <2> QED BY <2>1, <2>2 DEF Runs
  <1>6. \A i \in 1..n : f[i + 1] = NextPlace(f[i], s[i])
    <2>1. \A i \in 1..n : i \in 1..(n + 1) BY <1>1
    <2>2. \A i \in 1..n : f[i] \in Places BY <2>1, <1>5, Zenon
    <2> QED BY <2>2, <1>5, Zenon
  <1> HIDE DEF g
  <1>7. f = [i \in 1..(n + 1) |-> IF i = 1 THEN FirstPlace ELSE NextPlace(f[i - 1], s[i - 1])]
    <2> DEFINE V(i) == IF i = 1 THEN FirstPlace ELSE NextPlace(f[i - 1], s[i - 1])
    <2>1. ASSUME NEW i \in 1..(n + 1) PROVE f[i] = V(i)
      <3>1. CASE i = 1 BY <1>5, <3>1
      <3>2. CASE i # 1
        <4>1. i - 1 \in 1..n /\ (i - 1) + 1 = i BY <1>1, <3>2
        <4>2. f[(i - 1) + 1] = NextPlace(f[i - 1], s[i - 1]) BY <1>6, <4>1, Zenon
        <4> QED BY <3>2, <4>1, <4>2, Zenon
      <3> QED BY <3>1, <3>2, Zenon
    <2>2. f = [i \in 1..(n + 1) |-> f[i]] BY <1>5, Zenon
    <2> HIDE DEF V
    <2>3. f = [i \in 1..(n + 1) |-> V(i)] BY <2>1, <2>2, Zenon
    <2> QED BY <2>3, Zenon DEF V
  <1>8. Eq(f) BY <1>7, Zenon DEF n
  <1>9. Eq(Layout[s])
    <2> HIDE DEF Eq
    <2> QED BY <1>8, <1>3, Zenon
  <1> DEFINE w == Layout[s]
  <1>10. w = [i \in 1..(n + 1) |-> IF i = 1 THEN FirstPlace ELSE NextPlace(w[i - 1], s[i - 1])]
    BY <1>9, Zenon DEF n
  <1> HIDE DEF w
  <1>11. w[1] = FirstPlace /\ \A i \in 1..n : w[i + 1] = NextPlace(w[i], s[i])
    <2>1. 1 \in 1..(n + 1) /\ \A i \in 1..n : i + 1 \in 1..(n + 1) /\ i + 1 # 1 /\ (i + 1) - 1 = i
      BY <1>1
    <2> QED BY <1>10, <2>1, Zenon
  <1>12. \A i \in 1..(n + 1) : w[i] \in Places
    <2> DEFINE T == {m \in Nat : m <= n => w[m + 1] \in Places}
    <2>1. 0 \in T BY <1>2, <1>11
    <2>2. ASSUME NEW m \in Nat, m \in T PROVE m + 1 \in T
      <3>1. CASE m + 1 <= n
        <4>1. m + 1 \in 1..n /\ w[m + 1] \in Places BY <1>1, <2>2, <3>1
        <4>2. w[(m + 1) + 1] = NextPlace(w[m + 1], s[m + 1]) BY <1>11, <4>1, Zenon
        <4>3. w[(m + 1) + 1] \in Places BY <1>1, <4>1, <4>2, NextPlaceType, Zenon
        <4> QED BY <4>3
      <3> QED BY <3>1
    <2>3. \A m \in Nat : m \in T
      <3> HIDE DEF T
      <3> QED BY <2>1, <2>2, Induct, Zenon
    <2>4. ASSUME NEW i \in 1..(n + 1) PROVE w[i] \in Places
      <3>1. i - 1 \in Nat /\ i - 1 <= n /\ (i - 1) + 1 = i BY <1>1
      <3>2. i - 1 \in T BY <2>3, <3>1, Zenon
      <3> QED BY <3>1, <3>2
    <2> QED BY <2>4
  <1>13. w \in [1..(n + 1) -> Places] BY <1>10, <1>12, Zenon
  <1> QED BY <1>11, <1>13, Zenon DEF w, n

\* Tokens lie one behind the other, and messages are counted upwards.
LEMMA LayoutGrows ==
  ASSUME NEW s \in Streams, NEW i \in 1..(Len(s) + 1), NEW j \in 1..(Len(s) + 1), i < j
  PROVE  /\ Layout[s][i].first + Bytes(s[i]) <= Layout[s][j].first
         /\ Layout[s][i].done <= Layout[s][j].done
  <1> DEFINE n == Len(s)
             L == Layout[s]
  <1>1. n \in Nat /\ \A k \in 1..n : s[k] \in Tokens BY StreamTokens, Zenon
  <1>2. /\ \A k \in 1..(n + 1) : L[k] \in Places
        /\ \A k \in 1..n : L[k + 1] = NextPlace(L[k], s[k])
    BY LayoutShape, Zenon
  <1>0. i \in 1..(n + 1) /\ j \in 1..(n + 1) BY Zenon
  <1> HIDE DEF n, L
  <1>3. ASSUME NEW k \in 1..n
        PROVE  /\ L[k + 1].first = L[k].first + Bytes(s[k])
               /\ L[k].done <= L[k + 1].done
               /\ Bytes(s[k]) \in Nat
               /\ L[k].first \in Nat /\ L[k + 1].first \in Nat
               /\ L[k].done \in Nat /\ L[k + 1].done \in Nat
    <2>1. k \in 1..(n + 1) /\ k + 1 \in 1..(n + 1) BY <1>1
    <2>2. L[k] \in Places /\ L[k + 1] \in Places BY <1>2, <2>1, Zenon
    <2>3. L[k + 1] = NextPlace(L[k], s[k]) /\ Bytes(s[k]) \in Nat BY <1>1, <1>2, TokenFacts, Zenon
    <2>4. L[k + 1].first = L[k].first + Bytes(s[k]) BY <2>3 DEF NextPlace
    <2>5. L[k + 1].done \in {L[k].done + 1, L[k].done} BY <2>3 DEF NextPlace
    <2>6. L[k].first \in Nat /\ L[k + 1].first \in Nat /\ L[k].done \in Nat /\ L[k + 1].done \in Nat
      BY <2>2 DEF Places
    <2>7. L[k].done <= L[k + 1].done
      <3> DEFINE x == L[k].done
                 y == L[k + 1].done
      <3>1. x \in Nat /\ y \in {x + 1, x} BY <2>5, <2>6, Zenon
      <3> HIDE DEF x, y
      <3>2. x <= y BY <3>1
      <3> QED BY <3>2, Zenon DEF x, y
    <2> QED BY <2>3, <2>4, <2>6, <2>7, Zenon
  <1> DEFINE T == {d \in Nat : i + d + 1 <= n + 1 =>
                     /\ L[i].first + Bytes(s[i]) <= L[i + d + 1].first
                     /\ L[i].done <= L[i + d + 1].done}
  <1>4. i \in 1..n BY <1>0, <1>1
  <1>5. 0 \in T BY <1>3, <1>4
  <1>6. ASSUME NEW d \in Nat, d \in T PROVE d + 1 \in T
    <2>1. CASE i + d + 2 <= n + 1
      <3> DEFINE k == i + d + 1
      <3>1. k \in 1..n /\ k <= n + 1 /\ k + 1 = i + (d + 1) + 1 BY <1>1, <1>4, <2>1
      <3>2. L[i].first + Bytes(s[i]) <= L[k].first /\ L[i].done <= L[k].done
        BY <1>4, <1>6, <3>1
      <3> HIDE DEF k, T
      <3>3. L[i].first + Bytes(s[i]) <= L[k + 1].first /\ L[i].done <= L[k + 1].done
        <4>1. /\ L[k + 1].first = L[k].first + Bytes(s[k]) /\ L[k].done <= L[k + 1].done
              /\ Bytes(s[k]) \in Nat
              /\ L[k].first \in Nat /\ L[k + 1].first \in Nat
              /\ L[k].done \in Nat /\ L[k + 1].done \in Nat
          BY <1>3, <3>1, Zenon
        <4>2. Bytes(s[i]) \in Nat /\ L[i].first \in Nat /\ L[i].done \in Nat BY <1>3, <1>4, Zenon
        <4> DEFINE e == L[i].first + Bytes(s[i])
                   u == L[k].first
                   v == L[k + 1].first
                   x == L[i].done
                   y == L[k].done
                   z == L[k + 1].done
        <4>3. e \in Nat BY <4>2
        <4>4. u <= v BY <4>1
        <4>5. /\ e \in Nat /\ u \in Nat /\ v \in Nat /\ x \in Nat /\ y \in Nat /\ z \in Nat
              /\ e <= u /\ u <= v /\ x <= y /\ y <= z
          BY <3>2, <4>1, <4>2, <4>3, <4>4, Zenon
        <4> HIDE DEF e, u, v, x, y, z
        <4>6. e <= v /\ x <= z BY <4>5
        <4> QED BY <4>6, Zenon DEF e, v, x, z
      <3> QED BY <3>1, <3>3 DEF T
    <2>2. CASE ~(i + d + 2 <= n + 1) BY <1>1, <1>4, <2>2
    <2> QED BY <2>1, <2>2
  <1>7. \A d \in Nat : d \in T
    <2> HIDE DEF T
    <2> QED BY <1>5, <1>6, Induct, Zenon
  <1> DEFINE d == j - i - 1
  <1>8. d \in Nat /\ i + d + 1 = j /\ j <= n + 1 BY <1>0, <1>1
  <1>9. d \in T BY <1>7, <1>8, Zenon
  <1> HIDE DEF d
  <1>10. L[i].first + Bytes(s[i]) <= L[j].first /\ L[i].done <= L[j].done BY <1>8, <1>9
  <1> QED BY <1>10, Zenon DEF L

-----------------------------------------------------------------------------
(* What parse_value() decides *)

\* The verdict on a line waits for all of it, unless the line is too long.
LEMMA LineFacts ==
  ASSUME NEW t \in Tokens, NEW avail \in Nat, NEW whole \in Nat, whole >= 1 + t.line + 2
  PROVE  /\ LineVerdict(t, whole) \in {"ok", "invalid_length"}
         /\ avail >= 1 + t.line + 2 => LineVerdict(t, avail) = LineVerdict(t, whole)
         /\ avail < 1 + t.line + 2 =>
              \/ LineVerdict(t, avail) = "need"
              \/ LineVerdict(t, avail) = "invalid_length" /\
                 (LineVerdict(t, whole) = "invalid_length" \/ t.line = max_resp_line_bytes)
  <1>1. t.line \in Nat /\ max_resp_line_bytes \in Nat BY ParserAssumption DEF Tokens
  <1>2. ASSUME NEW n \in Nat
        PROVE  /\ n >= 1 + t.line + 2 =>
                    LineVerdict(t, n) =
                      IF t.line > max_resp_line_bytes THEN "invalid_length" ELSE "ok"
               /\ n < 1 + t.line + 2 =>
                    LineVerdict(t, n) =
                      IF n - 1 > max_resp_line_bytes THEN "invalid_length" ELSE "need"
    BY <1>1, SMTT(15) DEF LineVerdict
  <1>3. LineVerdict(t, whole) = IF t.line > max_resp_line_bytes THEN "invalid_length" ELSE "ok"
    BY <1>2
  <1>4. avail >= 1 + t.line + 2 => LineVerdict(t, avail) = LineVerdict(t, whole)
    BY <1>2, <1>3
  <1>5. ASSUME avail < 1 + t.line + 2, avail - 1 > max_resp_line_bytes
        PROVE  t.line > max_resp_line_bytes \/ t.line = max_resp_line_bytes
    BY <1>1, <1>5
  <1>6. avail < 1 + t.line + 2 =>
          \/ LineVerdict(t, avail) = "need"
          \/ LineVerdict(t, avail) = "invalid_length" /\
             (LineVerdict(t, whole) = "invalid_length" \/ t.line = max_resp_line_bytes)
    BY <1>2, <1>3, <1>5, Zenon
  <1> QED BY <1>3, <1>4, <1>6, Zenon

LEMMA VerdictFacts ==
  ASSUME NEW t \in Tokens, NEW avail \in Nat
  PROVE  /\ Whole(t) # "need"
         /\ avail >= Bytes(t) => Verdict(t, avail) = Whole(t)
         /\ Verdict(t, avail) = "ok" => avail >= Bytes(t)
         /\ Verdict(t, avail) # "need" =>
              Verdict(t, avail) = Whole(t) \/ t.line = max_resp_line_bytes
         /\ HeaderGone(t, avail) => avail >= Bytes(t)
         /\ Whole(t) = "ok" => t.kind # "none" /\ (t.kind = "attribute" => t.len >= 0)
  <1>1. /\ t.line \in Nat /\ t.len \in Int /\ t.err \in ProtocolErrors \cup {"ok"}
        /\ t.err # "need"
    BY DEF Tokens, ProtocolErrors
  <1>2. Bytes(t) \in Nat /\ Bytes(t) > 0 BY TokenFacts
  <1> DEFINE v == Verdict(t, avail)
             w == Whole(t)
             Claim == /\ w # "need"
                      /\ avail >= Bytes(t) => v = w
                      /\ v = "ok" => avail >= Bytes(t)
                      /\ v # "need" => v = w \/ t.line = max_resp_line_bytes
                      /\ HeaderGone(t, avail) => avail >= Bytes(t)
                      /\ w = "ok" => t.kind # "none" /\ (t.kind = "attribute" => t.len >= 0)
  <1> SUFFICES Claim OBVIOUS
  <1>3. CASE t.kind = "none"
    <2>1. v = "invalid_type_byte" /\ w = "invalid_type_byte" BY <1>3 DEF Verdict, Whole, Containers, Sequential, Bulk
    <2>2. ~HeaderGone(t, avail) BY <1>3 DEF HeaderGone, Containers, Sequential
    <2> QED BY <2>1, <2>2
  <1>4. CASE t.kind \in {"null", "boolean"}
    <2>1. v = (IF avail < Bytes(t) THEN "need" ELSE t.err) BY <1>4 DEF Verdict, Containers, Sequential, Bulk
    <2>2. w = (IF Bytes(t) < Bytes(t) THEN "need" ELSE t.err)
      BY <1>4 DEF Verdict, Whole, Containers, Sequential, Bulk
    <2>3. ~HeaderGone(t, avail) BY <1>4 DEF HeaderGone, Containers, Sequential
    <2> HIDE DEF v, w
    <2> QED BY <1>1, <1>2, <1>4, <2>1, <2>2, <2>3
  <1> DEFINE h(a) == parse_length_after_type(t, a)
  <1>5. CASE t.kind \notin {"none", "null", "boolean"}
    <2>1. Bytes(t) >= 1 + t.line + 2 BY <1>1, <1>5 DEF Bytes, Bulk
    <2>2. /\ h(Bytes(t)) \in {"ok", "invalid_length"}
          /\ avail >= 1 + t.line + 2 => h(avail) = h(Bytes(t))
          /\ avail < 1 + t.line + 2 =>
               \/ h(avail) = "need"
               \/ h(avail) = "invalid_length" /\
                  (h(Bytes(t)) = "invalid_length" \/ t.line = max_resp_line_bytes)
      BY <1>1, <1>2, <2>1, LineFacts DEF parse_length_after_type
    <2> HIDE DEF h
    <2>3. CASE t.kind = "attribute"
      <3>1. /\ v = (IF h(avail) = "ok" THEN AttributeVerdict(t) ELSE h(avail))
            /\ w = (IF h(Bytes(t)) = "ok" THEN AttributeVerdict(t) ELSE h(Bytes(t)))
        BY <2>3 DEF Verdict, Whole, h, Containers, Sequential, Bulk
      <3>2. Bytes(t) = 1 + t.line + 2 BY <2>3 DEF Bytes, Bulk
      <3>3. AttributeVerdict(t) \in {"ok", "invalid_length"} BY DEF AttributeVerdict
      <3>4. AttributeVerdict(t) = "ok" => t.len >= 0 BY <1>1 DEF AttributeVerdict
      <3>5. HeaderGone(t, avail) => h(avail) = "ok" BY DEF HeaderGone, h
      <3> HIDE DEF v, w
      <3> QED BY <1>1, <1>2, <2>1, <2>2, <2>3, <3>1, <3>2, <3>3, <3>4, <3>5
    <2>4. CASE t.kind \in Containers
      <3>1. /\ v = (IF h(avail) = "ok" THEN ContainerVerdict(t) ELSE h(avail))
            /\ w = (IF h(Bytes(t)) = "ok" THEN ContainerVerdict(t) ELSE h(Bytes(t)))
        BY <2>4 DEF Verdict, Whole, h, Containers, Sequential, Bulk
      <3>2. Bytes(t) = 1 + t.line + 2 BY <2>4 DEF Bytes, Bulk, Containers, Sequential
      <3>3. ContainerVerdict(t) \in {"ok", "invalid_length"} BY DEF ContainerVerdict
      <3>4. t.kind # "none" /\ t.kind # "attribute" BY <2>4 DEF Containers, Sequential
      <3>5. HeaderGone(t, avail) => h(avail) = "ok" BY DEF HeaderGone, h
      <3> HIDE DEF v, w
      <3> QED BY <1>1, <1>2, <2>1, <2>2, <3>1, <3>2, <3>3, <3>4, <3>5
    <2>5. CASE t.kind \in Bulk
      <3>1. /\ v = (IF h(avail) = "ok" THEN BulkVerdict(t, avail) ELSE h(avail))
            /\ w = (IF h(Bytes(t)) = "ok" THEN BulkVerdict(t, Bytes(t)) ELSE h(Bytes(t)))
        BY <2>5 DEF Verdict, Whole, h, Containers, Sequential, Bulk
      <3>2. Bytes(t) = (IF t.len >= 0 THEN 1 + t.line + 2 + t.len + 2 ELSE 1 + t.line + 2)
        BY <2>5 DEF Bytes, Bulk
      <3>3. /\ BulkVerdict(t, Bytes(t)) # "need"
            /\ avail >= Bytes(t) => BulkVerdict(t, avail) = BulkVerdict(t, Bytes(t))
            /\ BulkVerdict(t, avail) \in {"need", BulkVerdict(t, Bytes(t))}
            /\ BulkVerdict(t, avail) = "ok" /\ avail >= 1 + t.line + 2 => avail >= Bytes(t)
        BY SMTT(15), <1>1, <1>2, <3>2, ParserAssumption DEF BulkVerdict
      <3>4. t.kind # "none" /\ t.kind # "attribute" /\ ~HeaderGone(t, avail)
        BY <2>5 DEF Bulk, HeaderGone, Containers, Sequential
      <3> HIDE DEF v, w
      <3> QED BY <1>1, <1>2, <2>1, <2>2, <3>1, <3>2, <3>3, <3>4
    <2>6. CASE t.kind \notin Bulk \cup Containers \cup {"attribute"}
      <3> DEFINE l(a) == LineVerdict(t, a)
      <3>1. /\ v = (IF l(avail) = "ok" THEN t.err ELSE l(avail))
            /\ w = (IF l(Bytes(t)) = "ok" THEN t.err ELSE l(Bytes(t)))
        BY <1>5, <2>6 DEF Verdict, Whole
      <3>2. Bytes(t) = 1 + t.line + 2 BY <1>5, <2>6 DEF Bytes, Bulk
      <3>3. /\ l(Bytes(t)) \in {"ok", "invalid_length"}
            /\ avail >= 1 + t.line + 2 => l(avail) = l(Bytes(t))
            /\ avail < 1 + t.line + 2 =>
                 \/ l(avail) = "need"
                 \/ l(avail) = "invalid_length" /\
                    (l(Bytes(t)) = "invalid_length" \/ t.line = max_resp_line_bytes)
        BY <1>2, <2>1, LineFacts
      <3>4. t.kind # "none" /\ t.kind # "attribute" /\ ~HeaderGone(t, avail)
        BY <1>5, <2>6 DEF HeaderGone
      <3> HIDE DEF v, w, l
      <3> QED BY <1>1, <1>2, <2>1, <3>1, <3>2, <3>3, <3>4
    <2> QED BY <2>3, <2>4, <2>5, <2>6
  <1> QED BY <1>3, <1>4, <1>5

-----------------------------------------------------------------------------
(* The inductive invariants *)

Buffers == [mem : Seq((Nat \X Nat) \cup {NoByte}), storage : Nat,
            read_pos : Nat, write_pos : Nat]

Trees == [nodes : Seq(Nodes), links : Seq(Nat)]

Handed == [tree : Trees, root : Nat, texts : Seq(Texts \cup {Garbled})]

\* The positions of the buffer are in order.
InOrder(b) == b.read_pos <= b.write_pos /\ b.write_pos <= Len(b.mem)

\* The types of the variables, and when the two flags of the parser are up.
Types ==
    /\ stream \in Streams /\ gen \in Nat /\ fed \in Nat /\ fed < End(stream).first
    /\ buf_ \in Buffers /\ InOrder(buf_)
    /\ tree_ \in Trees
    /\ stack_ \in Seq(Frames)
    /\ pending_attrs_ \in [first : Nat, count : Nat]
    /\ tree_ready_ \in BOOLEAN /\ failed_ \in BOOLEAN
    /\ child \in Nat
    /\ out \in Seq(Handed)
    /\ pc \in {"read", "reading", "parse", "loop", "attach", "consume", "failed"}
    /\ tree_ready_ <=> pc = "consume"
    /\ failed_ <=> pc = "failed"

\* The unread bytes of the buffer b are the last of n bytes of connection g.
Kept(b, g, n) ==
    /\ size(b) <= n
    /\ \A i \in 1..size(b) : b.mem[b.read_pos + i] = <<g, n - size(b) + i>>

Unread == Kept(buf_, gen, fed)

\* What a node points to has been written, and is still there unless the buffer has
\* moved on to another block.
Shown(node, b) ==
    /\ node.at >= 1 /\ node.storage <= b.storage
    /\ node.storage = b.storage => node.at <= b.write_pos /\ b.mem[node.at] = node.byte

Views == \A n \in 1..Len(tree_.nodes) : Shown(tree_.nodes[n], buf_)

-----------------------------------------------------------------------------
(* Sequences *)

LEMMA FunctionSeq ==
  ASSUME NEW S, NEW n \in Nat, NEW f \in [1..n -> S]
  PROVE  f \in Seq(S) /\ Len(f) = n
  <1>1. f \in Seq(S) BY SeqDef, Zenon
  <1>2. DOMAIN f = 1..n /\ DOMAIN f = 1..Len(f) /\ Len(f) \in Nat BY <1>1, LenProperties, Zenon
  <1> QED BY <1>1, <1>2

LEMMA TopFacts ==
  ASSUME NEW S, NEW st \in Seq(S), st # <<>>
  PROVE  /\ Len(st) \in Nat /\ Len(st) > 0
         /\ back(st) \in S /\ back(st) = st[Len(st)]
         /\ pop_back(st) \in Seq(S) /\ Len(pop_back(st)) = Len(st) - 1
         /\ \A j \in 1..(Len(st) - 1) : pop_back(st)[j] = st[j]
  <1>1. Len(st) \in Nat /\ Len(st) > 0 BY EmptySeq
  <1>2. \A j \in 1..Len(st) : st[j] \in S BY ElementOfSeq, Zenon
  <1>3. back(st) \in S /\ back(st) = st[Len(st)] BY <1>1, <1>2 DEF back
  <1> DEFINE n == Len(st) - 1
  <1>4. n \in Nat /\ 1 \in 1..(Len(st) + 1) /\ n \in (1 - 1)..Len(st) /\ n - 1 + 1 = n BY <1>1
  <1>5. /\ SubSeq(st, 1, n) \in Seq(S) /\ Len(SubSeq(st, 1, n)) = n
        /\ \A j \in 1..n : SubSeq(st, 1, n)[j] = st[j]
    BY <1>1, <1>2, <1>4
  <1> HIDE DEF n
  <1>6. pop_back(st) = SubSeq(st, 1, n) BY Zenon DEF pop_back, n
  <1>7. pop_back(st) \in Seq(S) /\ Len(pop_back(st)) = n /\ \A j \in 1..n : pop_back(st)[j] = st[j]
    BY <1>5, <1>6, Zenon
  <1> QED BY <1>1, <1>3, <1>7, Zenon DEF n

LEMMA PushFacts ==
  ASSUME NEW S, NEW st \in Seq(S), NEW f \in S
  PROVE  /\ Append(st, f) \in Seq(S) /\ Append(st, f) # <<>>
         /\ Len(Append(st, f)) = Len(st) + 1 /\ Len(st) \in Nat
         /\ \A j \in 1..Len(st) : Append(st, f)[j] = st[j]
         /\ Append(st, f)[Len(st) + 1] = f
         /\ back(Append(st, f)) = f
         /\ pop_back(Append(st, f)) = st
  <1>1. Append(st, f) \in Seq(S) /\ Append(st, f) # <<>> /\ Len(st) \in Nat
    BY AppendProperties, LenProperties
  <1>2. /\ Len(Append(st, f)) = Len(st) + 1
        /\ \A j \in 1..Len(st) : Append(st, f)[j] = st[j]
        /\ Append(st, f)[Len(st) + 1] = f
    BY AppendProperties
  <1>3. back(Append(st, f)) = f BY <1>1, <1>2 DEF back
  <1>4. /\ pop_back(Append(st, f)) \in Seq(S) /\ Len(pop_back(Append(st, f))) = Len(st)
        /\ \A j \in 1..Len(st) : pop_back(Append(st, f))[j] = Append(st, f)[j]
    <2> DEFINE a == Append(st, f)
    <2>1. Len(a) - 1 = Len(st) BY <1>1, <1>2
    <2>2. pop_back(a) \in Seq(S) /\ Len(pop_back(a)) = Len(a) - 1
          /\ \A j \in 1..(Len(a) - 1) : pop_back(a)[j] = a[j]
      BY <1>1, TopFacts, Zenon
    <2> QED BY <2>1, <2>2, Zenon
  <1>5. pop_back(Append(st, f)) = st BY <1>2, <1>4, SeqEqual
  <1> QED BY <1>1, <1>2, <1>3, <1>5

LEMMA ReplaceFacts ==
  ASSUME NEW S, NEW st \in Seq(S), st # <<>>, NEW f \in S
  PROVE  /\ ReplaceTop(st, f) \in Seq(S) /\ ReplaceTop(st, f) # <<>>
         /\ Len(ReplaceTop(st, f)) = Len(st)
         /\ \A j \in 1..(Len(st) - 1) : ReplaceTop(st, f)[j] = st[j]
         /\ ReplaceTop(st, f)[Len(st)] = f /\ back(ReplaceTop(st, f)) = f
         /\ pop_back(ReplaceTop(st, f)) = pop_back(st)
  <1> DEFINE r == pop_back(st)
  <1>1. /\ Len(st) \in Nat /\ Len(st) > 0 /\ r \in Seq(S) /\ Len(r) = Len(st) - 1
        /\ \A j \in 1..(Len(st) - 1) : r[j] = st[j]
    BY TopFacts
  <1> HIDE DEF r
  <1>2. /\ Append(r, f) \in Seq(S) /\ Append(r, f) # <<>>
        /\ Len(Append(r, f)) = Len(r) + 1
        /\ \A j \in 1..Len(r) : Append(r, f)[j] = r[j]
        /\ Append(r, f)[Len(r) + 1] = f
        /\ back(Append(r, f)) = f
        /\ pop_back(Append(r, f)) = r
    BY <1>1, PushFacts
  <1>3. ReplaceTop(st, f) = Append(r, f) BY DEF ReplaceTop, r
  <1>4. r = pop_back(st) BY DEF r
  <1> HIDE DEF ReplaceTop
  <1>5. Len(Append(r, f)) = Len(st) /\ \A j \in 1..(Len(st) - 1) : Append(r, f)[j] = st[j]
    BY <1>1, <1>2
  <1>6. Append(r, f)[Len(st)] = f BY <1>1, <1>2
  <1> QED BY <1>2, <1>3, <1>4, <1>5, <1>6, Zenon

-----------------------------------------------------------------------------
(* The token at the front *)

\* What parse_value() accepts is a token of the stream, all of which is there.
LEMMA FrontFacts ==
  ASSUME stream \in Streams, buf_ \in Buffers, InOrder(buf_)
  PROVE  /\ size(buf_) \in Nat
         /\ Decision = "ok" =>
              /\ FrontToken \in Tokens /\ FrontToken.kind # "none"
              /\ Bytes(FrontToken) <= size(buf_)
              /\ FrontToken.kind = "attribute" => FrontToken.len >= 0
         /\ HeaderGone(FrontToken, size(buf_)) =>
              FrontToken \in Tokens /\ Bytes(FrontToken) <= size(buf_)
  <1> DEFINE t == FrontToken
             n == size(buf_)
  <1>1. n \in Nat BY DEF Buffers, InOrder, size
  <1>2. t = Unknown \/ t \in Tokens
    <2>1. \A i \in 1..Len(stream) : stream[i] \in Tokens BY StreamTokens
    <2> QED BY <2>1, Zenon DEF FrontToken
  <1> HIDE DEF t, n
  <1>3. CASE t = Unknown
    <2>1. Verdict(t, n) = "invalid_type_byte"
      BY <1>3 DEF Unknown, Verdict, Containers, Sequential, Bulk
    <2>2. ~HeaderGone(t, n) BY <1>3 DEF Unknown, HeaderGone, Containers, Sequential
    <2>3. Decision # "ok" BY <2>1 DEF Decision, t, n
    <2> QED BY <1>1, <2>2, <2>3, Zenon DEF t, n
  <1>4. CASE t \in Tokens
    <2>1. /\ Bytes(t) \in Nat
          /\ n >= Bytes(t) => Verdict(t, n) = Whole(t)
          /\ Verdict(t, n) = "ok" => n >= Bytes(t)
          /\ HeaderGone(t, n) => n >= Bytes(t)
          /\ Whole(t) = "ok" => t.kind # "none" /\ (t.kind = "attribute" => t.len >= 0)
      BY <1>1, <1>4, VerdictFacts, TokenFacts, Zenon
    <2>2. Decision = "ok" => Verdict(t, n) = "ok" BY Zenon DEF Decision, t, n
    <2>3. n >= Bytes(t) => Bytes(t) <= n BY <1>1, <2>1
    <2> QED BY <1>1, <1>4, <2>1, <2>2, <2>3, Zenon DEF t, n
  <1> QED BY <1>2, <1>3, <1>4, Zenon

-----------------------------------------------------------------------------
(* The operations of the buffer *)

Cells == (Nat \X Nat) \cup {NoByte}

LEMMA PrepareFacts ==
  ASSUME NEW b \in Buffers, InOrder(b), NEW new, GrowsTo(b, new)
  PROVE  LET c == prepare(b, new)
         IN  /\ c \in Buffers /\ InOrder(c)
             /\ c.read_pos = b.read_pos /\ c.write_pos = b.write_pos
             /\ \A i \in 1..b.write_pos : c.mem[i] = b.mem[i]
             /\ c = b \/ c.storage = b.storage + 1
  <1> DEFINE cap == Len(b.mem)
             c == prepare(b, new)
  <1>1. /\ b.mem \in Seq(Cells) /\ cap \in Nat /\ b.write_pos \in Nat /\ b.read_pos \in Nat
        /\ b.storage \in Nat /\ b.read_pos <= b.write_pos /\ b.write_pos <= cap
        /\ \A i \in 1..cap : b.mem[i] \in Cells
    BY DEF Buffers, InOrder, Cells
  <1>2. CASE new = cap
    <2>1. c = b BY <1>2, Zenon DEF prepare, Capacity
    <2> QED BY <2>1, Zenon
  <1>3. CASE new # cap
    <2>1. new \in Nat /\ new > cap
      <3>1. IF cap - b.write_pos >= MinRead THEN new = cap
            ELSE new \in Nat /\ new - b.write_pos >= MinRead
        BY Zenon DEF GrowsTo, Writable, Capacity
      <3> QED BY <1>1, <1>3, <3>1, BufferAssumption
    <2> DEFINE m == [i \in 1..new |-> IF i <= cap THEN b.mem[i] ELSE NoByte]
    <2>2. c = [b EXCEPT !.mem = m, !.storage = @ + 1] BY <1>3, Zenon DEF prepare, Capacity
    <2>3. m \in [1..new -> Cells]
      <3>1. \A i \in 1..new : i <= cap => i \in 1..cap BY <1>1, <2>1
      <3> QED BY <1>1, <3>1, Zenon DEF Cells
    <2>4. m \in Seq(Cells) /\ Len(m) = new BY <2>1, <2>3, FunctionSeq, Zenon
    <2>5. \A i \in 1..b.write_pos : m[i] = b.mem[i] BY <1>1, <2>1
    <2> HIDE DEF m, c
    <2>6. c = [mem |-> m, storage |-> b.storage + 1, read_pos |-> b.read_pos,
               write_pos |-> b.write_pos]
      BY Zenon, <2>2 DEF Buffers
    <2>7. /\ c.mem = m /\ c.storage = b.storage + 1
          /\ c.read_pos = b.read_pos /\ c.write_pos = b.write_pos
      BY <2>6
    <2>8. c \in Buffers BY <1>1, <2>4, <2>6 DEF Buffers, Cells
    <2>9. InOrder(c) BY <1>1, <2>1, <2>4, <2>7 DEF InOrder
    <2> QED BY <2>5, <2>7, <2>8, <2>9, Zenon DEF c
  <1> QED BY <1>2, <1>3, Zenon

LEMMA CommitFacts ==
  ASSUME NEW b \in Buffers, InOrder(b), NEW n \in Nat, n <= Writable(b),
         NEW bytes \in [1..n -> Nat \X Nat]
  PROVE  LET c == commit(b, bytes)
         IN  /\ c \in Buffers /\ InOrder(c)
             /\ c.storage = b.storage
             /\ c.read_pos = b.read_pos /\ c.write_pos = b.write_pos + n
             /\ \A i \in 1..b.write_pos : c.mem[i] = b.mem[i]
             /\ \A i \in 1..n : c.mem[b.write_pos + i] = bytes[i]
  <1> DEFINE cap == Len(b.mem)
             c == commit(b, bytes)
             m == [i \in 1..cap |-> IF i \in (b.write_pos + 1)..(b.write_pos + n)
                                      THEN bytes[i - b.write_pos] ELSE b.mem[i]]
  <1>1. /\ b.mem \in Seq(Cells) /\ cap \in Nat /\ b.write_pos \in Nat /\ b.read_pos \in Nat
        /\ b.storage \in Nat /\ b.read_pos <= b.write_pos /\ b.write_pos + n <= cap
        /\ \A i \in 1..cap : b.mem[i] \in Cells
    BY DEF Buffers, InOrder, Cells, Writable, Capacity
  <1>2. Len(bytes) = n BY FunctionSeq, Zenon
  <1>3. c = [b EXCEPT !.mem = m, !.write_pos = @ + n] BY <1>2, Zenon DEF commit, Capacity
  <1> HIDE DEF cap
  <1>4. m \in [1..cap -> Cells]
    <2>1. \A i \in 1..cap : i \in (b.write_pos + 1)..(b.write_pos + n) => i - b.write_pos \in 1..n
      <3> DEFINE w == b.write_pos
      <3>1. w \in Nat BY <1>1, Zenon
      <3> HIDE DEF w
      <3> SUFFICES \A i \in 1..cap : i \in (w + 1)..(w + n) => i - w \in 1..n
        BY Zenon DEF w
      <3> QED BY <3>1
    <2>2. \A i \in 1..n : bytes[i] \in Cells BY DEF Cells
    <2> QED BY <1>1, <2>1, <2>2, Zenon
  <1>5. m \in Seq(Cells) /\ Len(m) = cap BY <1>1, <1>4, FunctionSeq, Zenon
  <1>6. \A i \in 1..b.write_pos : m[i] = b.mem[i] BY <1>1
  <1>7. ASSUME NEW i \in 1..n PROVE m[b.write_pos + i] = bytes[i]
    <2>1. /\ b.write_pos + i \in 1..cap
          /\ b.write_pos + i \in (b.write_pos + 1)..(b.write_pos + n)
          /\ (b.write_pos + i) - b.write_pos = i
      <3>1. i \in Nat /\ 1 <= i /\ i <= n OBVIOUS
      <3> DEFINE w == b.write_pos
      <3>2. w \in Nat /\ w + n <= cap /\ cap \in Nat BY <1>1, Zenon
      <3> HIDE DEF w
      <3> SUFFICES w + i \in 1..cap /\ w + i \in (w + 1)..(w + n) /\ (w + i) - w = i
        BY Zenon DEF w
      <3> QED BY <3>1, <3>2
    <2> QED BY <2>1, Zenon
  <1> HIDE DEF m, c
  <1>8. c = [mem |-> m, storage |-> b.storage, read_pos |-> b.read_pos,
             write_pos |-> b.write_pos + n]
    BY Zenon, <1>3 DEF Buffers
  <1>9. /\ c.mem = m /\ c.storage = b.storage
        /\ c.read_pos = b.read_pos /\ c.write_pos = b.write_pos + n
    BY <1>8
  <1>10. c \in Buffers BY <1>1, <1>5, <1>8 DEF Buffers, Cells
  <1>11. InOrder(c) BY <1>1, <1>5, <1>9 DEF InOrder
  <1> QED BY <1>6, <1>7, <1>9, <1>10, <1>11, Zenon DEF c

LEMMA ConsumeFacts ==
  ASSUME NEW b \in Buffers, InOrder(b), NEW n \in Nat, n <= size(b)
  PROVE  LET c == consume(b, n)
         IN  /\ c \in Buffers /\ InOrder(c)
             /\ c.mem = b.mem /\ c.storage = b.storage
             /\ c.read_pos = b.read_pos + n /\ c.write_pos = b.write_pos
             /\ size(c) = size(b) - n
  <1> DEFINE c == consume(b, n)
  <1>1. /\ b.mem \in Seq(Cells) /\ b.storage \in Nat /\ b.read_pos \in Nat /\ b.write_pos \in Nat
        /\ n <= b.write_pos - b.read_pos /\ b.write_pos <= Len(b.mem)
    BY DEF Buffers, InOrder, size, Cells
  <1>2. c = [mem |-> b.mem, storage |-> b.storage, read_pos |-> b.read_pos + n,
             write_pos |-> b.write_pos]
    BY DEF Buffers, consume
  <1> HIDE DEF c
  <1>3. /\ c.mem = b.mem /\ c.storage = b.storage
        /\ c.read_pos = b.read_pos + n /\ c.write_pos = b.write_pos
    BY <1>2
  <1>4. c \in Buffers BY <1>1, <1>2 DEF Buffers, Cells
  <1>5. InOrder(c) BY <1>1, <1>3 DEF InOrder
  <1>6. size(c) = size(b) - n BY <1>1, <1>3 DEF size
  <1> QED BY <1>3, <1>4, <1>5, <1>6, Zenon DEF c

LEMMA ResetFacts ==
  ASSUME NEW b \in Buffers
  PROVE  /\ reset(b) \in Buffers /\ InOrder(reset(b)) /\ size(reset(b)) = 0
         /\ reset(b).read_pos = 0
  <1>1. Len(b.mem) \in Nat BY DEF Buffers
  <1>2. reset(b) \in Buffers BY Zenon DEF Buffers, reset
  <1>3. reset(b).mem = b.mem /\ reset(b).read_pos = 0 /\ reset(b).write_pos = 0
    BY DEF Buffers, reset
  <1>4. InOrder(reset(b)) /\ size(reset(b)) = 0
    <2> DEFINE c == reset(b)
    <2> HIDE DEF c
    <2>1. c.mem = b.mem /\ c.read_pos = 0 /\ c.write_pos = 0 BY <1>3, Zenon DEF c
    <2>2. InOrder(c) /\ size(c) = 0 BY <1>1, <2>1 DEF InOrder, size
    <2> QED BY <2>2, Zenon DEF c
  <1> QED BY <1>2, <1>3, <1>4

LEMMA CompactFacts ==
  ASSUME NEW b \in Buffers, InOrder(b)
  PROVE  LET c == compact(b)
         IN  /\ c \in Buffers /\ InOrder(c)
             /\ c.storage = b.storage
             /\ c.read_pos = 0 /\ c.write_pos = size(b)
             /\ \A i \in 1..size(b) : c.mem[i] = b.mem[b.read_pos + i]
  <1> DEFINE cap == Len(b.mem)
             n == size(b)
             c == compact(b)
             m == [i \in 1..cap |-> IF i <= n THEN b.mem[b.read_pos + i] ELSE b.mem[i]]
  <1>1. /\ cap \in Nat /\ b.write_pos \in Nat /\ b.read_pos \in Nat
        /\ b.storage \in Nat /\ b.read_pos + n <= cap /\ n \in Nat
        /\ \A i \in 1..cap : b.mem[i] \in Cells
    BY DEF Buffers, InOrder, Cells, size
  <1>3. c = [b EXCEPT !.mem = m, !.read_pos = 0, !.write_pos = n] BY Zenon DEF compact, Capacity
  <1> HIDE DEF n, cap
  <1>4. m \in [1..cap -> Cells]
    <2>1. \A i \in 1..cap : i <= n => b.read_pos + i \in 1..cap BY <1>1
    <2> QED BY <1>1, <2>1, Zenon
  <1>5. m \in Seq(Cells) /\ Len(m) = cap BY <1>1, <1>4, FunctionSeq, Zenon
  <1>6. \A i \in 1..n : m[i] = b.mem[b.read_pos + i] BY <1>1
  <1> HIDE DEF m, c
  <1>8. c = [mem |-> m, storage |-> b.storage, read_pos |-> 0, write_pos |-> n]
    BY Zenon, <1>3 DEF Buffers
  <1>9. c.mem = m /\ c.storage = b.storage /\ c.read_pos = 0 /\ c.write_pos = n
    BY <1>8
  <1>10. c \in Buffers BY <1>1, <1>5, <1>8 DEF Buffers, Cells
  <1>11. InOrder(c) BY <1>1, <1>5, <1>9 DEF InOrder
  <1> QED BY <1>6, <1>9, <1>10, <1>11, Zenon DEF c, n

-----------------------------------------------------------------------------
(* The operations on the tree and on the frames *)

LEMMA NodeFacts ==
  ASSUME buf_ \in Buffers, InOrder(buf_), tree_ \in Trees,
         pending_attrs_ \in [first : Nat, count : Nat],
         NEW t \in Tokens, Bytes(t) <= size(buf_)
  PROVE  /\ RawNode(t) \in Nodes
         /\ RawNode(t).at \in 1..buf_.write_pos
         /\ RawNode(t).storage = buf_.storage
         /\ RawNode(t).byte = buf_.mem[RawNode(t).at]
         /\ RawNode(t).kind = t.kind /\ RawNode(t).len = t.len /\ RawNode(t).child_count = 0
         /\ RawNode(t).first_child \in {1, Len(tree_.links) + 1}
         /\ RawNode(t).first_attr = pending_attrs_.first
         /\ RawNode(t).attr_count = pending_attrs_.count
  <1> DEFINE at == buf_.read_pos + 1 + (IF t.kind \in Bulk /\ t.len >= 0 THEN 1 + t.line + 2 ELSE 1)
             fc == IF t.kind \in Containers /\ t.len >= 0 THEN Len(tree_.links) + 1 ELSE 1
             r == RawNode(t)
  <1>1. /\ t.kind \in Kinds /\ t.line \in Nat /\ t.len \in Int /\ t.says \in Texts
        /\ pending_attrs_.first \in Nat /\ pending_attrs_.count \in Nat
    BY DEF Tokens
  <1>2. /\ buf_.mem \in Seq(Cells) /\ buf_.read_pos \in Nat /\ buf_.write_pos \in Nat
        /\ buf_.storage \in Nat /\ buf_.write_pos <= Len(buf_.mem) /\ Len(buf_.mem) \in Nat
    BY DEF Buffers, InOrder, Cells
  <1>3. Bytes(t) >= IF t.kind \in Bulk /\ t.len >= 0 THEN 1 + t.line + 2 + 2 ELSE 3
    BY <1>1 DEF Bytes, Bulk
  <1>4. at \in 1..buf_.write_pos
    <2>1. Bytes(t) \in Nat /\ buf_.read_pos + Bytes(t) <= buf_.write_pos
      BY <1>2, TokenFacts DEF size
    <2>2. CASE t.kind \in Bulk /\ t.len >= 0
      <3>1. at = buf_.read_pos + 1 + (1 + t.line + 2) BY <2>2
      <3>2. Bytes(t) >= 1 + t.line + 2 + 2 BY <1>3, <2>2
      <3> HIDE DEF at
      <3> DEFINE x == buf_.read_pos
                 y == buf_.write_pos
                 z == Bytes(t)
                 l == t.line
      <3>3. x \in Nat /\ y \in Nat /\ z \in Nat /\ l \in Nat /\ x + z <= y BY <1>1, <1>2, <2>1, Zenon
      <3>4. at = x + 1 + (1 + l + 2) /\ z >= 1 + l + 2 + 2 BY <3>1, <3>2, Zenon
      <3> HIDE DEF x, y, z, l
      <3>5. at \in 1..y BY <3>3, <3>4
      <3> QED BY <3>5, Zenon DEF y
    <2>3. CASE ~(t.kind \in Bulk /\ t.len >= 0)
      <3>1. at = buf_.read_pos + 1 + 1 BY <2>3
      <3>2. Bytes(t) >= 3 BY <1>3, <2>3
      <3> HIDE DEF at
      <3> QED BY SMTT(15), <1>2, <2>1, <3>1, <3>2
    <2> QED BY <2>2, <2>3
  <1>5. buf_.mem[at] \in Cells BY <1>2, <1>4
  <1>6. fc \in {1, Len(tree_.links) + 1} /\ fc \in Nat BY DEF Trees
  <1> HIDE DEF at, fc
  <1>7. r = [kind |-> t.kind, len |-> t.len, says |-> t.says,
             storage |-> buf_.storage, at |-> at, byte |-> buf_.mem[at],
             first_child |-> fc, child_count |-> 0,
             first_attr |-> pending_attrs_.first, attr_count |-> pending_attrs_.count]
    BY Zenon DEF RawNode, at, fc
  <1> HIDE DEF r
  <1>8. at \in Nat BY <1>4, <1>2
  <1>9. r \in Nodes BY <1>1, <1>2, <1>5, <1>6, <1>7, <1>8 DEF Nodes, Cells
  <1>10. /\ r.at = at /\ r.storage = buf_.storage /\ r.byte = buf_.mem[at]
         /\ r.kind = t.kind /\ r.len = t.len /\ r.child_count = 0 /\ r.first_child = fc
         /\ r.first_attr = pending_attrs_.first /\ r.attr_count = pending_attrs_.count
    BY <1>7
  <1> QED BY <1>4, <1>6, <1>9, <1>10, Zenon DEF r

LEMMA TreeType ==
  ASSUME NEW a \in Seq(Nodes), NEW l \in Seq(Nat)
  PROVE  [nodes |-> a, links |-> l] \in Trees
  BY DEF Trees

\* A node is added behind the others.
LEMMA AddFacts ==
  ASSUME tree_ \in Trees, NEW r \in Nodes, NEW tr,
         tr = [tree_ EXCEPT !.nodes = Append(@, r)]
  PROVE  /\ tr \in Trees /\ tr.links = tree_.links
         /\ Len(tr.nodes) = NewIndex /\ NewIndex \in Nat /\ NewIndex = Len(tree_.nodes) + 1
         /\ Len(tree_.nodes) \in Nat
         /\ \A n \in 1..Len(tree_.nodes) : tr.nodes[n] = tree_.nodes[n]
         /\ tr.nodes[NewIndex] = r
  <1> DEFINE a == Append(tree_.nodes, r)
  <1>1. tree_.nodes \in Seq(Nodes) /\ tree_.links \in Seq(Nat) BY DEF Trees
  <1>2. /\ a \in Seq(Nodes) /\ Len(a) = Len(tree_.nodes) + 1 /\ Len(tree_.nodes) \in Nat
        /\ \A n \in 1..Len(tree_.nodes) : a[n] = tree_.nodes[n]
        /\ a[Len(tree_.nodes) + 1] = r
    BY <1>1, PushFacts
  <1> HIDE DEF a
  <1>3. tr = [nodes |-> a, links |-> tree_.links] BY Zenon DEF Trees, a
  <1>4. tr.nodes = a /\ tr.links = tree_.links BY <1>3
  <1>5. a \in Seq(Nodes) BY <1>2, Zenon
  <1>6. tr \in Trees BY <1>1, <1>3, <1>5, TreeType, Zenon
  <1> QED BY <1>2, <1>4, <1>6 DEF NewIndex

\* b is the node a, but for its window of children.
SameNode(a, b) ==
    /\ a \in Nodes /\ b \in Nodes
    /\ b.kind = a.kind /\ b.len = a.len /\ b.says = a.says
    /\ b.storage = a.storage /\ b.at = a.at /\ b.byte = a.byte
    /\ b.first_attr = a.first_attr /\ b.attr_count = a.attr_count

\* Children are linked to node n: what changes is its window, and that there are
\* more links.
Relinked(old, new, n, children, count) ==
    /\ new \in Trees /\ new.links = old.links \o children /\ Len(new.nodes) = Len(old.nodes)
    /\ \A m \in 1..Len(old.nodes) :
          /\ SameNode(old.nodes[m], new.nodes[m])
          /\ m # n => new.nodes[m] = old.nodes[m]
          /\ m = n => /\ new.nodes[m].child_count = count
                      /\ new.nodes[m].first_child =
                           IF old.nodes[m].child_count = 0 THEN Len(old.links) + 1
                           ELSE old.nodes[m].first_child

LEMMA LinkFacts ==
  ASSUME tree_ \in Trees, NEW n \in Nat, NEW children \in Seq(Nat), NEW count \in Nat
  PROVE  Relinked(tree_, LinkChildren(n, children, count), n, children, count)
  <1> DEFINE N == Len(tree_.nodes)
             tr == LinkChildren(n, children, count)
             first == IF tree_.nodes[n].child_count = 0 THEN Len(tree_.links) + 1
                      ELSE tree_.nodes[n].first_child
             g == [m \in 1..N |->
                     IF m = n THEN [tree_.nodes[m] EXCEPT !.first_child = first,
                                                           !.child_count = count]
                     ELSE tree_.nodes[m]]
  <1>1. /\ tree_.nodes \in Seq(Nodes) /\ tree_.links \in Seq(Nat) /\ N \in Nat
        /\ DOMAIN tree_.nodes = 1..N /\ \A m \in 1..N : tree_.nodes[m] \in Nodes
        /\ tree_ = [nodes |-> tree_.nodes, links |-> tree_.links]
        /\ Len(tree_.links) \in Nat
    BY DEF Trees
  <1>2. tr = [nodes |-> g, links |-> tree_.links \o children]
    <2>1. tr = [tree_ EXCEPT !.nodes = g, !.links = @ \o children]
      <3> DEFINE h == [tree_.nodes EXCEPT ![n].first_child = first]
                 k == [h EXCEPT ![n].child_count = count]
      <3>1. tr = [tree_ EXCEPT !.nodes = k, !.links = @ \o children]
        <4> HIDE DEF first
        <4>1. LinkChildren(n, children, count) =
                [tree_ EXCEPT !.nodes[n].first_child = first, !.nodes[n].child_count = count,
                              !.links = @ \o children]
          BY Zenon DEF LinkChildren, first
        <4> QED BY Zenon, <1>1, <4>1
      <3> HIDE DEF first
      <3>2. DOMAIN k = 1..N /\ k = [m \in 1..N |-> k[m]] BY ZenonT(30), <1>1
      <3>3. ASSUME NEW m \in 1..N PROVE k[m] = g[m]
        <4>1. CASE m = n
          <5>1. h[m] = [tree_.nodes[m] EXCEPT !.first_child = first] BY <1>1, <4>1, Zenon
          <5>2. m \in DOMAIN h BY <1>1
          <5> HIDE DEF h
          <5>3. k[m] = [h[m] EXCEPT !.child_count = count] BY <4>1, <5>2
          <5> HIDE DEF k
          <5> QED BY Zenon, <4>1, <5>1, <5>3
        <4>2. CASE m # n BY <1>1, <4>2
        <4> QED BY Zenon, <4>1, <4>2
      <3>4. g = [m \in 1..N |-> g[m]] BY Zenon
      <3> HIDE DEF g, k, N
      <3>5. k = g BY <3>2, <3>3, <3>4, Zenon
      <3> QED BY <3>1, <3>5, Zenon
    <2> HIDE DEF g, tr
    <2> QED BY Zenon, <1>1, <2>1
  <1>3. tree_.links \o children \in Seq(Nat) BY <1>1
  <1>4. \A m \in 1..N : m = n => first \in Nat
    <2>1. \A m \in 1..N : tree_.nodes[m].first_child \in Nat BY <1>1, Zenon DEF Nodes
    <2> QED BY <1>1, <2>1
  <1> HIDE DEF N
  <1>5. ASSUME NEW m \in 1..N
        PROVE  /\ SameNode(tree_.nodes[m], g[m])
               /\ m # n => g[m] = tree_.nodes[m]
               /\ m = n => g[m].child_count = count /\ g[m].first_child = first
    <2>1. tree_.nodes[m] \in Nodes BY <1>1
    <2>2. CASE m = n
      <3>1. first \in Nat BY <1>4, <2>2
      <3> HIDE DEF first
      <3>2. g[m] = [tree_.nodes[m] EXCEPT !.first_child = first, !.child_count = count]
        BY <2>2
      <3> HIDE DEF g
      <3> QED BY Zenon, <2>1, <2>2, <3>1, <3>2 DEF Nodes, SameNode
    <2>3. CASE m # n
      <3>1. g[m] = tree_.nodes[m] BY <2>3
      <3> HIDE DEF g
      <3> QED BY <2>1, <2>3, <3>1, Zenon DEF SameNode
    <2> QED BY <2>2, <2>3
  <1>6. g \in [1..N -> Nodes]
    <2>1. DOMAIN g = 1..N /\ g = [m \in 1..N |-> g[m]] BY Zenon
    <2> HIDE DEF g
    <2>2. \A m \in 1..N : g[m] \in Nodes BY <1>5, Zenon DEF SameNode
    <2> QED BY <2>1, <2>2, Zenon
  <1> HIDE DEF g, tr, first
  <1>7. g \in Seq(Nodes) /\ Len(g) = N BY <1>1, <1>6, FunctionSeq, Zenon
  <1>8. tr \in Trees /\ tr.nodes = g /\ tr.links = tree_.links \o children
    BY SMTT(15), <1>2, <1>3, <1>7 DEF Trees
  <1>9. ASSUME NEW m \in 1..N, m = n
        PROVE  first = IF tree_.nodes[m].child_count = 0 THEN Len(tree_.links) + 1
                       ELSE tree_.nodes[m].first_child
    BY <1>9, Zenon DEF first
  <1>10. ASSUME NEW m \in 1..N
         PROVE  /\ SameNode(tree_.nodes[m], tr.nodes[m])
                /\ m # n => tr.nodes[m] = tree_.nodes[m]
                /\ m = n => /\ tr.nodes[m].child_count = count
                            /\ tr.nodes[m].first_child =
                                 IF tree_.nodes[m].child_count = 0 THEN Len(tree_.links) + 1
                                 ELSE tree_.nodes[m].first_child
    BY <1>5, <1>8, <1>9, Zenon
  <1>11. Len(tr.nodes) = N BY <1>7, <1>8, Zenon
  <1>12. Relinked(tree_, tr, n, children, count) BY <1>8, <1>10, <1>11, Zenon DEF Relinked, N
  <1> QED BY <1>12, Zenon DEF tr

-----------------------------------------------------------------------------
(* Types *)

LEMMA EmptyTypes ==
  /\ NewTree \in Trees /\ NoAttributes \in [first : Nat, count : Nat]
  /\ \A S : <<>> \in Seq(S)
  /\ ValueFrame \in Frames
  <1>1. \A S : <<>> \in Seq(S) BY EmptySeq
  <1>2. NewTree \in Trees BY <1>1, TreeType, Zenon DEF NewTree
  <1>3. NoAttributes \in [first : Nat, count : Nat] BY DEF NoAttributes
  <1>4. ValueFrame \in Frames BY DEF ValueFrame, Frame, Frames
  <1> QED BY <1>1, <1>2, <1>3, <1>4

LEMMA TypesInit == ParserInit => Types
  <1> SUFFICES ASSUME ParserInit PROVE Types OBVIOUS
  <1>1. NewBuffer \in Buffers /\ InOrder(NewBuffer)
    <2> DEFINE cap == IF InitialCapacity = 0 THEN 1 ELSE InitialCapacity
               m == [i \in 1..cap |-> NoByte]
    <2>1. cap \in Nat BY BufferAssumption
    <2> HIDE DEF cap
    <2>2. m \in [1..cap -> Cells] BY Zenon DEF Cells
    <2>3. m \in Seq(Cells) /\ Len(m) = cap BY <2>1, <2>2, FunctionSeq, Zenon
    <2>4. NewBuffer = [mem |-> m, storage |-> 1, read_pos |-> 0, write_pos |-> 0]
      BY Zenon DEF NewBuffer, cap
    <2> HIDE DEF m
    <2>5. NewBuffer \in Buffers BY <2>3, <2>4 DEF Buffers, Cells
    <2>6. InOrder(NewBuffer) BY <2>1, <2>3, <2>4 DEF InOrder
    <2> QED BY <2>5, <2>6
  <1>2. 0 < End(stream).first
    <2>1. stream \in Streams BY DEF ParserInit
    <2>2. Len(stream) + 1 \in 1..(Len(stream) + 1) BY <2>1, StreamTokens
    <2>3. End(stream) \in Places BY <2>1, <2>2, LayoutShape, Zenon DEF End
    <2> QED BY <2>3 DEF Places
  <1> QED BY Zenon, <1>1, <1>2, EmptyTypes DEF ParserInit, Types

\* The frame that counts an element, that keeps a key, and that counts a pair.
Element(g) == [g EXCEPT !.produced = @ + 1]
Keyed(g, s, k) == [g EXCEPT !.state = s, !.pending_key = k]
Entry(g) == [g EXCEPT !.state = "map_key", !.produced = @ + 1, !.pending_key = 0]
Pair(g) == [g EXCEPT !.produced = @ + 1, !.pending_key = 0]

LEMMA FrameUpdates ==
  ASSUME NEW g \in Frames, NEW s \in {"map_value", "attribute"}, NEW k \in Nat
  PROVE  /\ g.node \in Nat /\ g.produced \in Nat /\ g.expected \in Nat /\ g.pending_key \in Nat
         /\ Element(g) \in Frames
         /\ Element(g).state = g.state /\ Element(g).produced = g.produced + 1
         /\ Element(g).pending_key = g.pending_key
         /\ Element(g).node = g.node /\ Element(g).expected = g.expected
         /\ Keyed(g, s, k) \in Frames
         /\ Keyed(g, s, k).state = s /\ Keyed(g, s, k).produced = g.produced
         /\ Keyed(g, s, k).pending_key = k
         /\ Keyed(g, s, k).node = g.node /\ Keyed(g, s, k).expected = g.expected
         /\ Entry(g) \in Frames
         /\ Entry(g).state = "map_key" /\ Entry(g).produced = g.produced + 1
         /\ Entry(g).pending_key = 0
         /\ Entry(g).node = g.node /\ Entry(g).expected = g.expected
         /\ Pair(g) \in Frames
         /\ Pair(g).state = g.state /\ Pair(g).produced = g.produced + 1
         /\ Pair(g).pending_key = 0
         /\ Pair(g).node = g.node /\ Pair(g).expected = g.expected
  <1>1. g.node \in Nat /\ g.produced \in Nat /\ g.expected \in Nat /\ g.pending_key \in Nat
    BY DEF Frames
  <1>2. /\ Element(g) \in Frames
        /\ Element(g).state = g.state /\ Element(g).produced = g.produced + 1
        /\ Element(g).pending_key = g.pending_key
        /\ Element(g).node = g.node /\ Element(g).expected = g.expected
    BY DEF Frames, Element
  <1>3. /\ Keyed(g, s, k) \in Frames
        /\ Keyed(g, s, k).state = s /\ Keyed(g, s, k).produced = g.produced
        /\ Keyed(g, s, k).pending_key = k
        /\ Keyed(g, s, k).node = g.node /\ Keyed(g, s, k).expected = g.expected
    BY Zenon DEF Frames, Keyed
  <1>4. /\ Entry(g) \in Frames
        /\ Entry(g).state = "map_key" /\ Entry(g).produced = g.produced + 1
        /\ Entry(g).pending_key = 0
        /\ Entry(g).node = g.node /\ Entry(g).expected = g.expected
    <2> DEFINE p == g.produced + 1
               z == 0
    <2>1. p \in Nat /\ z \in Nat BY <1>1
    <2>2. Entry(g) = [g EXCEPT !.state = "map_key", !.produced = p, !.pending_key = z]
      BY Zenon DEF Entry
    <2> HIDE DEF p, z
    <2>3. Entry(g) \in Frames BY Zenon, <2>1, <2>2 DEF Frames
    <2>4. /\ Entry(g).state = "map_key" /\ Entry(g).produced = p /\ Entry(g).pending_key = z
          /\ Entry(g).node = g.node /\ Entry(g).expected = g.expected
      BY <2>2 DEF Frames
    <2> QED BY <2>3, <2>4, Zenon DEF p, z
  <1>5. /\ Pair(g) \in Frames
        /\ Pair(g).state = g.state /\ Pair(g).produced = g.produced + 1
        /\ Pair(g).pending_key = 0
        /\ Pair(g).node = g.node /\ Pair(g).expected = g.expected
    <2> DEFINE p == g.produced + 1
               z == 0
    <2>1. p \in Nat /\ z \in Nat BY <1>1
    <2>2. Pair(g) = [g EXCEPT !.produced = p, !.pending_key = z] BY Zenon DEF Pair
    <2> HIDE DEF p, z
    <2>3. Pair(g) \in Frames BY Zenon, <2>1, <2>2 DEF Frames
    <2>4. /\ Pair(g).state = g.state /\ Pair(g).produced = p /\ Pair(g).pending_key = z
          /\ Pair(g).node = g.node /\ Pair(g).expected = g.expected
      BY <2>2 DEF Frames
    <2> QED BY <2>3, <2>4, Zenon DEF p, z
  <1> QED BY <1>1, <1>2, <1>3, <1>4, <1>5, Zenon

\* The stack after a value is complete.
LEMMA ProducedTypes ==
  ASSUME stack_ \in Seq(Frames), stack_ # <<>>, NEW f \in Frames, Produced(f)
  PROVE  stack_' \in Seq(Frames) /\ child' \in Nat /\ pc' \in {"attach", "loop"}
  <1>1. pop_back(stack_) \in Seq(Frames) BY TopFacts, Zenon
  <1>2. ReplaceTop(stack_, f) \in Seq(Frames) BY ReplaceFacts, Zenon
  <1>3. Append(ReplaceTop(stack_, f), ValueFrame) \in Seq(Frames)
    BY <1>2, EmptyTypes, PushFacts, Zenon
  <1>4. f.node \in Nat BY DEF Frames
  <1>5. CASE f.produced = f.expected BY <1>1, <1>4, <1>5, Zenon DEF Produced
  <1>6. CASE f.produced # f.expected
    <2>1. child' = 0 /\ stack_' = Append(ReplaceTop(stack_, f), ValueFrame) /\ pc' = "loop"
      BY <1>6, Zenon DEF Produced
    <2> QED BY <1>3, <2>1
  <1> QED BY <1>5, <1>6

LEMMA TypesNext == Types /\ [ParserNext]_vars => Types'
  <1> SUFFICES ASSUME Types, [ParserNext]_vars PROVE Types' OBVIOUS
  <1>1. /\ stream \in Streams /\ buf_ \in Buffers /\ InOrder(buf_) /\ tree_ \in Trees
        /\ stack_ \in Seq(Frames) /\ child \in Nat /\ out \in Seq(Handed)
        /\ pending_attrs_ \in [first : Nat, count : Nat]
        /\ gen \in Nat /\ fed \in Nat
    BY DEF Types
  <1>2. CASE Prepare
    <2>1. PICK new : GrowsTo(buf_, new) /\ buf_' = prepare(buf_, new) BY <1>2, Zenon DEF Prepare
    <2>2. buf_' \in Buffers /\ InOrder(buf_') BY <1>1, <2>1, PrepareFacts
    <2> QED BY <1>2, <2>2 DEF Types, Prepare
  <1>3. ASSUME NEW n \in 1..(End(stream).first - 1), Commit(n) PROVE Types'
    <2> DEFINE bytes == [i \in 1..n |-> Byte(fed + i)]
    <2>1. n \in Nat /\ n <= Writable(buf_) BY <1>3 DEF Commit
    <2>2. bytes \in [1..n -> Nat \X Nat]
      <3>1. \A i \in 1..n : Byte(fed + i) \in Nat \X Nat BY <1>1, <2>1 DEF Byte
      <3> QED BY <3>1, Zenon
    <2>3. buf_' = commit(buf_, bytes) BY <1>3, Zenon DEF Commit
    <2> HIDE DEF bytes
    <2>4. buf_' \in Buffers /\ InOrder(buf_') BY <1>1, <2>1, <2>2, <2>3, CommitFacts, Zenon
    <2>5. fed' \in Nat /\ fed' < End(stream).first BY <1>1, <1>3, <2>1 DEF Commit
    <2> QED BY <1>3, <2>4, <2>5 DEF Types, Commit
  <1>4. CASE ParseRefused BY <1>4 DEF Types, ParseRefused
  <1>5. CASE ParseOne
    <2>1. <<ValueFrame>> \in Seq(Frames) BY EmptyTypes
    <2>2. stack_' \in Seq(Frames) BY <1>1, <1>5, <2>1, Zenon DEF ParseOne
    <2> QED BY <1>5, <2>2 DEF Types, ParseOne
  <1>6. CASE DriveValue
    <2>1. stack_' \in Seq(Frames) BY <1>1, <1>6, EmptyTypes, PushFacts, Zenon DEF DriveValue
    <2> QED BY <1>6, <2>1 DEF Types, DriveValue
  <1>7. CASE NeedMore BY <1>7 DEF Types, NeedMore, ParsingValue
  <1>8. CASE ParseFails
    <2> DEFINE t == FrontToken
    <2>1. HeaderGone(t, size(buf_)) => t \in Tokens /\ Bytes(t) <= size(buf_)
      BY <1>1, FrontFacts, Zenon
    <2>2. buf_' = IF HeaderGone(t, size(buf_)) THEN consume(buf_, Bytes(t)) ELSE buf_
      BY <1>8, Zenon DEF ParseFails
    <2> HIDE DEF t
    <2>3. buf_' \in Buffers /\ InOrder(buf_') BY <1>1, <2>1, <2>2, ConsumeFacts, TokenFacts, Zenon
    <2> QED BY <1>8, <2>3 DEF Types, ParseFails, ParsingValue
  <1> DEFINE t == FrontToken
  <1>9. Decision = "ok" => /\ t \in Tokens /\ Bytes(t) <= size(buf_) /\ Bytes(t) \in Nat
                           /\ t.kind = "attribute" => t.len >= 0
    BY <1>1, FrontFacts, TokenFacts, Zenon
  <1> HIDE DEF t
  <1>10. Decision = "ok" /\ buf_' = consume(buf_, Bytes(t)) => buf_' \in Buffers /\ InOrder(buf_')
    BY <1>1, <1>9, ConsumeFacts, Zenon
  <1>11. Decision = "ok" /\ AddNode(t) =>
           tree_' \in Trees /\ pending_attrs_' \in [first : Nat, count : Nat]
    <2>1. Decision = "ok" => RawNode(t) \in Nodes BY <1>1, <1>9, NodeFacts, Zenon
    <2> QED BY <1>1, <2>1, AddFacts, EmptyTypes, Zenon DEF AddNode
  <1>12. NewIndex \in Nat BY <1>1 DEF NewIndex, Trees
  <1>13. CASE AcceptAttribute
    <2>1. Decision = "ok" /\ t.kind = "attribute" /\ buf_' = consume(buf_, Bytes(t))
          /\ stack_' = start_attribute(t)
      BY <1>13, Zenon DEF AcceptAttribute, t
    <2>2. t.len \in Nat BY SMTT(15), <1>9, <2>1 DEF Tokens
    <2>3. Frame("attribute", t.len, 0) \in Frames BY <2>2 DEF Frame, Frames
    <2>4. stack_' \in Seq(Frames) BY <1>1, <2>1, <2>3, PushFacts, Zenon DEF start_attribute
    <2>5. buf_' \in Buffers /\ InOrder(buf_') BY <1>10, <2>1, Zenon
    <2> QED BY <1>13, <2>4, <2>5 DEF Types, AcceptAttribute, ParsingValue
  <1>14. CASE AcceptContainer
    <2>1. /\ Decision = "ok" /\ t.len > 0 /\ buf_' = consume(buf_, Bytes(t))
          /\ AddNode(t) /\ stack_' = start_container(t) /\ stack_ # <<>>
      BY <1>14, Zenon DEF AcceptContainer, ParsingValue, t
    <2>2. t.len \in Nat BY <1>9, <2>1 DEF Tokens
    <2>3. ASSUME NEW s \in {"map_key", "array"} PROVE Frame(s, t.len, NewIndex) \in Frames
      BY <2>2, <1>12 DEF Frame, Frames
    <2>4. stack_' \in Seq(Frames) BY <1>1, <2>1, <2>3, ReplaceFacts, Zenon DEF start_container
    <2>5. buf_' \in Buffers /\ InOrder(buf_') BY <1>10, <2>1, Zenon
    <2>6. tree_' \in Trees /\ pending_attrs_' \in [first : Nat, count : Nat]
      BY <1>11, <2>1, Zenon
    <2> QED BY <1>14, <2>4, <2>5, <2>6 DEF Types, AcceptContainer, ParsingValue
  <1>15. CASE AcceptValue
    <2>1. /\ Decision = "ok" /\ buf_' = consume(buf_, Bytes(t))
          /\ AddNode(t) /\ stack_' = pop_back(stack_) /\ stack_ # <<>>
      BY <1>15, Zenon DEF AcceptValue, ParsingValue, t
    <2>4. stack_' \in Seq(Frames) BY <1>1, <2>1, TopFacts, Zenon
    <2>5. buf_' \in Buffers /\ InOrder(buf_') BY <1>10, <2>1, Zenon
    <2>6. tree_' \in Trees /\ pending_attrs_' \in [first : Nat, count : Nat]
      BY <1>11, <2>1, Zenon
    <2> QED BY <1>12, <1>15, <2>4, <2>5, <2>6 DEF Types, AcceptValue, ParsingValue
  <1>16. CASE AttachRoot BY <1>16 DEF Types, AttachRoot
  <1> DEFINE top == back(stack_)
  <1>17. stack_ # <<>> => top \in Frames BY <1>1, TopFacts, Zenon
  <1> HIDE DEF top
  <1>18. CASE AttachElement
    <2> DEFINE f == Element(top)
    <2>1. stack_ # <<>> /\ tree_' = LinkChildren(f.node, <<child>>, f.produced) /\ Produced(f)
      BY <1>18, Zenon DEF AttachElement, Attaching, Element, top
    <2>2. f \in Frames BY <1>17, <2>1, FrameUpdates, Zenon
    <2>3. <<child>> \in Seq(Nat) BY <1>1
    <2> HIDE DEF f
    <2>6. f.node \in Nat /\ f.produced \in Nat BY <2>2 DEF Frames
    <2>4. tree_' \in Trees BY <1>1, <2>1, <2>3, <2>6, LinkFacts, Zenon DEF Relinked
    <2>5. stack_' \in Seq(Frames) /\ child' \in Nat /\ pc' \in {"attach", "loop"}
      BY <1>1, <2>1, <2>2, ProducedTypes, Zenon
    <2> QED BY <1>18, <2>4, <2>5 DEF Types, AttachElement, Attaching
  <1>19. ASSUME NEW s \in {"map_value", "attribute"}, pc = "attach", stack_ # <<>>, KeepKey(s)
         PROVE  Types'
    <2> DEFINE f == Keyed(top, s, child)
    <2>1. stack_' = Append(ReplaceTop(stack_, f), ValueFrame) BY <1>19, Zenon DEF KeepKey, Keyed, top
    <2>2. f \in Frames BY <1>1, <1>17, <1>19, FrameUpdates, Zenon
    <2> HIDE DEF f
    <2>3. ReplaceTop(stack_, f) \in Seq(Frames) BY <1>1, <1>19, <2>2, ReplaceFacts, Zenon
    <2>4. stack_' \in Seq(Frames) BY <2>1, <2>3, EmptyTypes, PushFacts, Zenon
    <2> QED BY <1>19, <2>4 DEF Types, KeepKey
  <1>20. CASE AttachKey BY <1>19, <1>20, Zenon DEF AttachKey, Attaching
  <1>21. CASE AttachAttributeKey BY <1>19, <1>21, Zenon DEF AttachAttributeKey, Attaching
  <1>22. CASE AttachEntry
    <2> DEFINE f == Entry(top)
               kv == <<top.pending_key, child>>
    <2>1. stack_ # <<>> /\ tree_' = LinkChildren(f.node, kv, 2 * f.produced) /\ Produced(f)
      BY <1>22, Zenon DEF AttachEntry, Attaching, Entry, top
    <2>2. f \in Frames /\ top.pending_key \in Nat BY <1>1, <1>17, <2>1, FrameUpdates, Zenon
    <2>3. kv \in Seq(Nat) BY <1>1, <2>2
    <2> HIDE DEF f, kv
    <2>6. f.node \in Nat /\ 2 * f.produced \in Nat BY <2>2 DEF Frames
    <2>4. tree_' \in Trees BY <1>1, <2>1, <2>3, <2>6, LinkFacts, Zenon DEF Relinked
    <2>5. stack_' \in Seq(Frames) /\ child' \in Nat /\ pc' \in {"attach", "loop"}
      BY <1>1, <2>1, <2>2, ProducedTypes, Zenon
    <2> QED BY <1>22, <2>4, <2>5 DEF Types, AttachEntry, Attaching
  <1>23. CASE AttachAttribute
    <2> DEFINE f == Pair(top)
               kv == <<top.pending_key, child>>
    <2>1. /\ stack_ # <<>>
          /\ pending_attrs_' = push(pending_attrs_, tree_.links, kv)
          /\ tree_' = [tree_ EXCEPT !.links = @ \o kv]
          /\ stack_' = IF f.produced = f.expected THEN pop_back(stack_)
                       ELSE Append(ReplaceTop(stack_, f), ValueFrame)
      BY <1>23, Zenon DEF AttachAttribute, Attaching, Pair, top
    <2>2. f \in Frames /\ top.pending_key \in Nat BY <1>1, <1>17, <2>1, FrameUpdates, Zenon
    <2>3. kv \in Seq(Nat) /\ Len(kv) \in Nat BY <1>1, <2>2
    <2> HIDE DEF f, kv
    <2>4. tree_' \in Trees
      <3>1. tree_.links \o kv \in Seq(Nat) /\ tree_.nodes \in Seq(Nodes) BY <1>1, <2>3 DEF Trees
      <3>2. tree_' = [nodes |-> tree_.nodes, links |-> tree_.links \o kv]
        BY Zenon, <1>1, <2>1 DEF Trees
      <3> QED BY <3>1, <3>2, TreeType, Zenon
    <2>5. pending_attrs_' \in [first : Nat, count : Nat] BY SMTT(15), <1>1, <2>1, <2>3 DEF push, Trees
    <2>6. ReplaceTop(stack_, f) \in Seq(Frames) /\ pop_back(stack_) \in Seq(Frames)
      BY <1>1, <2>1, <2>2, ReplaceFacts, TopFacts, Zenon
    <2>7. stack_' \in Seq(Frames) BY <2>1, <2>6, EmptyTypes, PushFacts, Zenon
    <2> QED BY Zenon, <1>23, <2>4, <2>5, <2>7 DEF Types, AttachAttribute, Attaching
  <1>24. CASE Consume
    <2> DEFINE texts == [n \in DOMAIN tree_.nodes |-> Text(tree_.nodes[n])]
               h == [tree |-> tree_, root |-> child, texts |-> texts]
    <2>1. DOMAIN tree_.nodes = 1..Len(tree_.nodes) /\ Len(tree_.nodes) \in Nat
          /\ \A n \in 1..Len(tree_.nodes) : tree_.nodes[n] \in Nodes
      BY <1>1 DEF Trees
    <2>2. texts \in [1..Len(tree_.nodes) -> Texts \cup {Garbled}]
      BY <2>1, Zenon DEF Text, Nodes
    <2> HIDE DEF texts
    <2>3. texts \in Seq(Texts \cup {Garbled}) BY <2>1, <2>2, FunctionSeq, Zenon
    <2>4. h \in Handed BY <1>1, <2>3 DEF Handed
    <2>5. out' = Append(out, h) BY <1>24, Zenon DEF Consume, texts
    <2> HIDE DEF h
    <2>6. out' \in Seq(Handed) BY <1>1, <2>4, <2>5, PushFacts, Zenon
    <2>7. buf_' \in Buffers /\ InOrder(buf_') BY <1>1, <1>24, CompactFacts, Zenon DEF Consume
    <2> QED BY Zenon, <1>24, <2>6, <2>7, EmptyTypes DEF Types, Consume
  <1>25. ASSUME NEW s \in Streams, Reset(s) PROVE Types'
    <2>1. buf_' \in Buffers /\ InOrder(buf_') BY <1>1, <1>25, ResetFacts, Zenon DEF Reset
    <2>2. 0 < End(s).first
      <3>1. Len(s) + 1 \in 1..(Len(s) + 1) BY StreamTokens
      <3>2. End(s) \in Places BY <3>1, LayoutShape, Zenon DEF End
      <3> QED BY <3>2 DEF Places
    <2>3. /\ stream' \in Streams /\ gen' \in Nat /\ fed' \in Nat /\ fed' < End(stream').first
      BY <1>1, <1>25, <2>2 DEF Reset
    <2>4. /\ tree_' \in Trees /\ stack_' \in Seq(Frames) /\ child' \in Nat /\ out' \in Seq(Handed)
          /\ pending_attrs_' \in [first : Nat, count : Nat]
      BY <1>25, EmptyTypes DEF Reset
    <2> QED BY Zenon, <1>25, <2>1, <2>3, <2>4 DEF Types, Reset
  <1>26. CASE UNCHANGED vars BY <1>26 DEF Types, vars
  <1> QED
    BY Zenon, <1>2, <1>3, <1>4, <1>5, <1>6, <1>7, <1>8, <1>13, <1>14, <1>15, <1>16, <1>18, <1>20,
       <1>21, <1>22, <1>23, <1>24, <1>25, <1>26
    DEF ParserNext

-----------------------------------------------------------------------------
(* The unread bytes *)

LEMMA KeptByPrepare ==
  ASSUME NEW b \in Buffers, InOrder(b), NEW new, GrowsTo(b, new), NEW g, NEW n \in Nat, Kept(b, g, n)
  PROVE  Kept(prepare(b, new), g, n) /\ size(prepare(b, new)) = size(b)
  <1> DEFINE c == prepare(b, new)
  <1>1. /\ c.read_pos = b.read_pos /\ c.write_pos = b.write_pos
        /\ \A i \in 1..b.write_pos : c.mem[i] = b.mem[i]
    BY PrepareFacts, Zenon
  <1>2. b.read_pos \in Nat /\ b.write_pos \in Nat /\ b.read_pos <= b.write_pos
    BY DEF Buffers, InOrder
  <1> HIDE DEF c
  <1>3. size(c) = size(b) BY <1>1, Zenon DEF size
  <1>4. \A i \in 1..size(b) : b.read_pos + i \in 1..b.write_pos BY <1>2 DEF size
  <1>5. ASSUME NEW i \in 1..size(b) PROVE c.mem[b.read_pos + i] = <<g, n - size(b) + i>>
    <2>1. b.mem[b.read_pos + i] = <<g, n - size(b) + i>> BY Zenon DEF Kept
    <2>2. b.read_pos + i \in 1..b.write_pos BY <1>4, Zenon
    <2> QED BY <1>1, <2>1, <2>2, Zenon
  <1>6. Kept(c, g, n) BY <1>1, <1>3, <1>5, Zenon DEF Kept
  <1> QED BY <1>3, <1>6, Zenon DEF c

LEMMA KeptByCommit ==
  ASSUME NEW b \in Buffers, InOrder(b), NEW g \in Nat, NEW n \in Nat, Kept(b, g, n),
         NEW k \in Nat, k <= Writable(b), NEW bytes \in [1..k -> Nat \X Nat],
         \A i \in 1..k : bytes[i] = <<g, n + i>>
  PROVE  Kept(commit(b, bytes), g, n + k) /\ size(commit(b, bytes)) = size(b) + k
  <1> DEFINE c == commit(b, bytes)
  <1>1. /\ c.read_pos = b.read_pos /\ c.write_pos = b.write_pos + k
        /\ \A i \in 1..b.write_pos : c.mem[i] = b.mem[i]
        /\ \A i \in 1..k : c.mem[b.write_pos + i] = bytes[i]
    BY CommitFacts, ZenonT(30)
  <1>2. b.read_pos \in Nat /\ b.write_pos \in Nat /\ b.read_pos <= b.write_pos
    BY DEF Buffers, InOrder
  <1> HIDE DEF c
  <1> DEFINE r == b.read_pos
             w == b.write_pos
             z == size(b)
  <1>3. /\ r \in Nat /\ w \in Nat /\ z \in Nat /\ z = w - r /\ z <= n
        /\ \A i \in 1..z : b.mem[r + i] = <<g, n - z + i>>
        /\ c.read_pos = r /\ c.write_pos = w + k
        /\ \A i \in 1..w : c.mem[i] = b.mem[i]
        /\ \A i \in 1..k : c.mem[w + i] = bytes[i]
    BY <1>1, <1>2 DEF Kept, size
  <1> HIDE DEF r, w, z
  <1>4. size(c) = z + k BY <1>3 DEF size
  <1>5. ASSUME NEW i \in 1..(z + k) PROVE c.mem[r + i] = <<g, (n + k) - (z + k) + i>>
    <2>1. CASE i \in 1..z
      <3>1. r + i \in 1..w /\ (n + k) - (z + k) + i = n - z + i BY <1>3, <2>1
      <3> QED BY <1>3, <2>1, <3>1, Zenon
    <2>2. CASE i \notin 1..z
      <3> DEFINE m == i - z
      <3>1. m \in 1..k /\ r + i = w + m /\ (n + k) - (z + k) + i = n + m BY <1>3, <2>2
      <3> HIDE DEF m
      <3>2. c.mem[r + i] = bytes[m] BY <1>3, <3>1, Zenon
      <3>3. bytes[m] = <<g, n + m>> BY <3>1, Zenon
      <3> QED BY <3>1, <3>2, <3>3, Zenon
    <2> QED BY <2>1, <2>2
  <1>6. z + k <= n + k BY <1>3
  <1>7. Kept(c, g, n + k) BY <1>3, <1>4, <1>5, <1>6, Zenon DEF Kept
  <1> QED BY <1>4, <1>7, Zenon DEF c, z

LEMMA KeptByConsume ==
  ASSUME NEW b \in Buffers, InOrder(b), NEW g, NEW n \in Nat, Kept(b, g, n),
         NEW k \in Nat, k <= size(b)
  PROVE  Kept(consume(b, k), g, n)
  <1> DEFINE c == consume(b, k)
             r == b.read_pos
             z == size(b)
  <1>1. c.mem = b.mem /\ c.read_pos = r + k /\ size(c) = z - k BY ConsumeFacts, Zenon
  <1>2. r \in Nat /\ z \in Nat BY DEF Buffers, InOrder, size
  <1>3. z <= n /\ k <= z /\ \A i \in 1..z : b.mem[r + i] = <<g, n - z + i>> BY Zenon DEF Kept
  <1> HIDE DEF c, r, z
  <1>4. ASSUME NEW i \in 1..(z - k) PROVE b.mem[(r + k) + i] = <<g, n - (z - k) + i>>
    <2> DEFINE m == k + i
    <2>1. m \in 1..z /\ r + m = (r + k) + i /\ n - z + m = n - (z - k) + i BY <1>2, <1>3
    <2> HIDE DEF m
    <2>2. b.mem[r + m] = <<g, n - z + m>> BY <1>3, <2>1, Zenon
    <2> QED BY <2>1, <2>2, Zenon
  <1>5. z - k <= n BY <1>2, <1>3
  <1>6. Kept(c, g, n) BY <1>1, <1>4, <1>5, Zenon DEF Kept
  <1> QED BY <1>6, Zenon DEF c

LEMMA KeptByCompact ==
  ASSUME NEW b \in Buffers, InOrder(b), NEW g, NEW n \in Nat, Kept(b, g, n)
  PROVE  Kept(compact(b), g, n) /\ size(compact(b)) = size(b)
  <1> DEFINE c == compact(b)
             z == size(b)
  <1>1. /\ c.read_pos = 0 /\ c.write_pos = z
        /\ \A i \in 1..z : c.mem[i] = b.mem[b.read_pos + i]
    BY CompactFacts, Zenon
  <1>2. z \in Nat BY DEF Buffers, InOrder, size
  <1>3. z <= n /\ \A i \in 1..z : b.mem[b.read_pos + i] = <<g, n - z + i>> BY Zenon DEF Kept
  <1> HIDE DEF c, z
  <1>4. size(c) = z BY <1>1, <1>2 DEF size
  <1>5. \A i \in 1..z : c.mem[0 + i] = <<g, n - z + i>>
    <2>1. \A i \in 1..z : 0 + i = i BY <1>2
    <2> QED BY <1>1, <1>3, <2>1, Zenon
  <1>6. Kept(c, g, n) BY <1>1, <1>3, <1>4, <1>5, Zenon DEF Kept
  <1> QED BY <1>4, <1>6, Zenon DEF c, z

LEMMA KeptEmpty ==
  ASSUME NEW b, size(b) = 0, NEW g
  PROVE  Kept(b, g, 0)
  BY DEF Kept

LEMMA UnreadInit == ParserInit => Unread
  <1> SUFFICES ASSUME ParserInit PROVE Unread OBVIOUS
  <1>1. size(NewBuffer) = 0 BY DEF NewBuffer, size
  <1> QED BY <1>1, KeptEmpty, Zenon DEF ParserInit, Unread

LEMMA UnreadNext == Types /\ Unread /\ [ParserNext]_vars => Unread'
  <1> SUFFICES ASSUME Types, Unread, [ParserNext]_vars PROVE Unread' OBVIOUS
  <1>1. /\ stream \in Streams /\ buf_ \in Buffers /\ InOrder(buf_) /\ gen \in Nat /\ fed \in Nat
        /\ Kept(buf_, gen, fed)
    BY Zenon DEF Types, Unread
  <1>2. CASE UNCHANGED <<buf_, gen, fed>> BY <1>2, Zenon DEF Unread
  <1>3. CASE Prepare
    <2>1. PICK new : GrowsTo(buf_, new) /\ buf_' = prepare(buf_, new) BY <1>3, Zenon DEF Prepare
    <2>2. gen' = gen /\ fed' = fed BY <1>3, Zenon DEF Prepare
    <2>3. Kept(buf_', gen, fed) BY <1>1, <2>1, KeptByPrepare, Zenon
    <2> QED BY <2>2, <2>3, Zenon DEF Unread
  <1>4. ASSUME NEW n \in 1..(End(stream).first - 1), Commit(n) PROVE Unread'
    <2> DEFINE bytes == [i \in 1..n |-> Byte(fed + i)]
    <2>1. n \in Nat /\ n <= Writable(buf_) /\ gen' = gen /\ fed' = fed + n BY <1>4 DEF Commit
    <2>2. \A i \in 1..n : bytes[i] = <<gen, fed + i>> BY Zenon DEF Byte
    <2>3. bytes \in [1..n -> Nat \X Nat]
      <3>1. \A i \in 1..n : Byte(fed + i) \in Nat \X Nat BY <1>1, <2>1 DEF Byte
      <3> QED BY <3>1, Zenon
    <2>4. buf_' = commit(buf_, bytes) BY <1>4, Zenon DEF Commit
    <2> HIDE DEF bytes
    <2>5. Kept(buf_', gen, fed + n) BY <1>1, <2>1, <2>2, <2>3, <2>4, KeptByCommit, Zenon
    <2> QED BY <2>1, <2>5, Zenon DEF Unread
  <1> DEFINE t == FrontToken
  <1>5. ASSUME buf_' = consume(buf_, Bytes(t)), Decision = "ok" \/ HeaderGone(t, size(buf_)),
               gen' = gen, fed' = fed
        PROVE  Unread'
    <2>1. t \in Tokens /\ Bytes(t) <= size(buf_) BY <1>1, <1>5, FrontFacts, Zenon
    <2> HIDE DEF t
    <2>2. Bytes(t) \in Nat BY <2>1, TokenFacts, Zenon
    <2>3. Kept(buf_', gen, fed) BY <1>1, <1>5, <2>1, <2>2, KeptByConsume, Zenon
    <2> QED BY <1>5, <2>3, Zenon DEF Unread
  <1>6. CASE ParseFails BY <1>2, <1>5, <1>6, Zenon DEF ParseFails
  <1>7. CASE AcceptAttribute \/ AcceptContainer \/ AcceptValue
    BY <1>5, <1>7, Zenon DEF AcceptAttribute, AcceptContainer, AcceptValue
  <1>8. CASE Consume
    <2>1. buf_' = compact(buf_) /\ gen' = gen /\ fed' = fed BY <1>8, Zenon DEF Consume
    <2> QED BY <1>1, <2>1, KeptByCompact, Zenon DEF Unread
  <1>9. ASSUME NEW s \in Streams, Reset(s) PROVE Unread'
    <2>1. buf_' = reset(buf_) /\ fed' = 0 BY <1>9, Zenon DEF Reset
    <2> QED BY <1>1, <2>1, ResetFacts, KeptEmpty, Zenon DEF Unread
  <1>10. CASE \/ ParseRefused \/ ParseOne \/ DriveValue \/ NeedMore \/ AttachRoot
              \/ AttachElement \/ AttachKey \/ AttachEntry \/ AttachAttributeKey \/ AttachAttribute
              \/ UNCHANGED vars
    <2>1. UNCHANGED <<buf_, gen, fed>>
      BY <1>10, Zenon DEF ParseRefused, ParseOne, DriveValue, NeedMore, AttachRoot, AttachElement,
         AttachKey, AttachEntry, AttachAttributeKey, AttachAttribute, KeepKey, vars
    <2> QED BY <1>2, <2>1
  <1> QED BY <1>3, <1>4, <1>6, <1>7, <1>8, <1>9, <1>10, Zenon DEF ParserNext

-----------------------------------------------------------------------------
(* The views *)

LEMMA ViewsInit == ParserInit => Views
  BY DEF ParserInit, NewTree, Views

LEMMA ViewsNext == Types /\ Views /\ [ParserNext]_vars => Views'
  <1> SUFFICES ASSUME Types, Views, [ParserNext]_vars PROVE Views' OBVIOUS
  <1> DEFINE N == Len(tree_.nodes)
  <1>1. /\ stream \in Streams /\ buf_ \in Buffers /\ InOrder(buf_) /\ tree_ \in Trees
        /\ stack_ \in Seq(Frames) /\ child \in Nat
        /\ gen \in Nat /\ fed \in Nat /\ pending_attrs_ \in [first : Nat, count : Nat]
    BY Zenon DEF Types
  <1>2. /\ N \in Nat /\ buf_.write_pos \in Nat /\ buf_.storage \in Nat
        /\ \A n \in 1..N : tree_.nodes[n].at \in Nat /\ tree_.nodes[n].storage \in Nat
    <2>1. N \in Nat /\ \A n \in 1..N : tree_.nodes[n] \in Nodes BY <1>1 DEF Trees
    <2>2. \A n \in 1..N : tree_.nodes[n].at \in Nat /\ tree_.nodes[n].storage \in Nat
      BY <2>1, Zenon DEF Nodes
    <2> QED BY <1>1, <2>1, <2>2 DEF Buffers
  <1>3. \A n \in 1..N : Shown(tree_.nodes[n], buf_) BY Zenon DEF Views
  <1>4. ASSUME tree_'.nodes = tree_.nodes, \A n \in 1..N : Shown(tree_.nodes[n], buf_') PROVE Views'
    BY <1>4, Zenon DEF Views
  <1> HIDE DEF N
  <1>5. CASE Prepare
    <2>1. PICK new : GrowsTo(buf_, new) /\ buf_' = prepare(buf_, new) BY <1>5, Zenon DEF Prepare
    <2>2. /\ buf_'.write_pos = buf_.write_pos
          /\ \A i \in 1..buf_.write_pos : buf_'.mem[i] = buf_.mem[i]
          /\ buf_' = buf_ \/ buf_'.storage = buf_.storage + 1
      BY <1>1, <2>1, PrepareFacts, Zenon
    <2>3. ASSUME NEW n \in 1..N PROVE Shown(tree_.nodes[n], buf_')
      <3>1. CASE buf_' = buf_ BY <1>3, <3>1, Zenon
      <3>2. CASE buf_'.storage = buf_.storage + 1
        <4>1. Shown(tree_.nodes[n], buf_) BY <1>3, Zenon
        <4>2. tree_.nodes[n].storage \in Nat /\ buf_.storage \in Nat BY <1>2, Zenon
        <4> QED BY <3>2, <4>1, <4>2 DEF Shown
      <3> QED BY <2>2, <3>1, <3>2, Zenon
    <2>4. tree_'.nodes = tree_.nodes BY <1>5, Zenon DEF Prepare
    <2> QED BY <1>4, <2>3, <2>4, Zenon
  <1>6. ASSUME NEW k \in 1..(End(stream).first - 1), Commit(k) PROVE Views'
    <2> DEFINE bytes == [i \in 1..k |-> Byte(fed + i)]
    <2>1. k \in Nat /\ k <= Writable(buf_) BY <1>6 DEF Commit
    <2>2. bytes \in [1..k -> Nat \X Nat]
      <3>1. \A i \in 1..k : Byte(fed + i) \in Nat \X Nat BY <1>1, <2>1 DEF Byte
      <3> QED BY <3>1, Zenon
    <2>3. buf_' = commit(buf_, bytes) /\ tree_' = tree_ BY <1>6, Zenon DEF Commit
    <2> HIDE DEF bytes
    <2>4. /\ buf_'.storage = buf_.storage /\ buf_'.write_pos = buf_.write_pos + k
          /\ \A i \in 1..buf_.write_pos : buf_'.mem[i] = buf_.mem[i]
      BY <1>1, <2>1, <2>2, <2>3, CommitFacts, ZenonT(30)
    <2>5. ASSUME NEW n \in 1..N PROVE Shown(tree_.nodes[n], buf_')
      <3> DEFINE a == tree_.nodes[n]
                 w == buf_.write_pos
      <3>1. Shown(a, buf_) /\ a.at \in Nat /\ w \in Nat BY <1>2, <1>3, Zenon
      <3> HIDE DEF a
      <3>2. a.at >= 1 /\ a.at <= w => a.at \in 1..w /\ a.at <= w + k BY <2>1, <3>1
      <3> HIDE DEF w
      <3>3. Shown(a, buf_') BY <2>4, <3>1, <3>2, Zenon DEF Shown, w
      <3> QED BY <3>3, Zenon DEF a
    <2> QED BY <1>4, <2>3, <2>5, Zenon
  <1> DEFINE t == FrontToken
  <1>7. ASSUME buf_' = consume(buf_, Bytes(t)), Decision = "ok" \/ HeaderGone(t, size(buf_)),
               NEW node, Shown(node, buf_)
        PROVE  Shown(node, buf_')
    <2>1. t \in Tokens /\ Bytes(t) <= size(buf_) BY <1>1, <1>7, FrontFacts, Zenon
    <2> HIDE DEF t
    <2>2. Bytes(t) \in Nat BY <2>1, TokenFacts, Zenon
    <2>3. buf_'.mem = buf_.mem /\ buf_'.storage = buf_.storage /\ buf_'.write_pos = buf_.write_pos
      BY <1>1, <1>7, <2>1, <2>2, ConsumeFacts, Zenon
    <2> QED BY <1>7, <2>3, Zenon DEF Shown
  <1>8. CASE ParseFails
    <2>1. /\ tree_' = tree_
          /\ buf_' = buf_ \/ (buf_' = consume(buf_, Bytes(t)) /\ HeaderGone(t, size(buf_)))
      BY <1>8, Zenon DEF ParseFails
    <2>2. \A n \in 1..N : Shown(tree_.nodes[n], buf_') BY <1>3, <1>7, <2>1, Zenon
    <2> QED BY <1>4, <2>1, <2>2, Zenon
  <1>9. CASE AcceptAttribute
    <2>1. tree_' = tree_ /\ buf_' = consume(buf_, Bytes(t)) /\ Decision = "ok"
      BY <1>9, Zenon DEF AcceptAttribute
    <2>2. \A n \in 1..N : Shown(tree_.nodes[n], buf_') BY <1>3, <1>7, <2>1, Zenon
    <2> QED BY <1>4, <2>1, <2>2, Zenon
  <1>10. CASE AcceptContainer \/ AcceptValue
    <2>1. buf_' = consume(buf_, Bytes(t)) /\ Decision = "ok" /\ AddNode(t)
      BY <1>10, Zenon DEF AcceptContainer, AcceptValue
    <2>2. t \in Tokens /\ Bytes(t) <= size(buf_) BY <1>1, <2>1, FrontFacts, Zenon
    <2> DEFINE r == RawNode(t)
    <2>3. /\ r \in Nodes /\ r.at \in 1..buf_.write_pos /\ r.storage = buf_.storage
          /\ r.byte = buf_.mem[r.at]
      BY <1>1, <2>2, NodeFacts, Zenon
    <2>4. tree_' = [tree_ EXCEPT !.nodes = Append(@, r)] BY <2>1, Zenon DEF AddNode
    <2> HIDE DEF r
    <2>5. Shown(r, buf_) BY <1>2, <2>3 DEF Shown
    <2>6. /\ Len(tree_'.nodes) = N + 1 /\ \A n \in 1..N : tree_'.nodes[n] = tree_.nodes[n]
          /\ tree_'.nodes[N + 1] = r
      <3>1. /\ Len(tree_'.nodes) = NewIndex /\ NewIndex = N + 1
            /\ \A n \in 1..N : tree_'.nodes[n] = tree_.nodes[n]
            /\ tree_'.nodes[NewIndex] = r
        <4> DEFINE tr == tree_'
        <4>1. tr = [tree_ EXCEPT !.nodes = Append(@, r)] BY <2>4, Zenon
        <4> HIDE DEF tr
        <4>2. /\ Len(tr.nodes) = NewIndex /\ NewIndex = Len(tree_.nodes) + 1
              /\ \A n \in 1..Len(tree_.nodes) : tr.nodes[n] = tree_.nodes[n]
              /\ tr.nodes[NewIndex] = r
          BY SMTT(15), <1>1, <2>3, <4>1, AddFacts
        <4> QED BY <4>2, Zenon DEF N, tr
      <3> QED BY <3>1, Zenon
    <2>7. ASSUME NEW n \in 1..(N + 1) PROVE Shown(tree_'.nodes[n], buf_')
      <3>1. n \in 1..N \/ n = N + 1 BY <1>2
      <3>2. Shown(tree_'.nodes[n], buf_) BY <1>3, <2>5, <2>6, <3>1, Zenon
      <3> QED BY <1>7, <2>1, <3>2, Zenon
    <2> QED BY <2>6, <2>7, Zenon DEF Views
  <1> DEFINE top == back(stack_)
  <1>11. ASSUME NEW f \in Frames, NEW c \in Seq(Nat), NEW count \in Nat, buf_' = buf_,
                tree_' = LinkChildren(f.node, c, count)
         PROVE  Views'
    <2>1. f.node \in Nat BY DEF Frames
    <2>2. /\ Len(tree_'.nodes) = N
          /\ \A n \in 1..N : /\ tree_'.nodes[n].storage = tree_.nodes[n].storage
                             /\ tree_'.nodes[n].at = tree_.nodes[n].at
                             /\ tree_'.nodes[n].byte = tree_.nodes[n].byte
      <3>1. Relinked(tree_, tree_', f.node, c, count) BY <1>1, <1>11, <2>1, LinkFacts, Zenon
      <3> QED BY <3>1, Zenon DEF Relinked, SameNode, N
    <2>3. \A n \in 1..N : Shown(tree_'.nodes[n], buf_') BY <1>3, <1>11, <2>2, ZenonT(30) DEF Shown
    <2> QED BY <2>2, <2>3, Zenon DEF Views
  <1>12. stack_ # <<>> => top \in Frames BY <1>1, TopFacts, Zenon
  <1> HIDE DEF top
  <1>13. CASE AttachElement
    <2>1. stack_ # <<>> /\ tree_' = LinkChildren(Element(top).node, <<child>>, Element(top).produced)
      BY <1>13, Zenon DEF AttachElement, Attaching, Element, top
    <2>2. Element(top) \in Frames BY <1>12, <2>1, FrameUpdates, Zenon
    <2>3. Element(top).produced \in Nat BY <2>2 DEF Frames
    <2>4. <<child>> \in Seq(Nat) BY <1>1
    <2>5. buf_' = buf_ BY <1>13, Zenon DEF AttachElement
    <2> QED BY <1>11, <2>1, <2>2, <2>3, <2>4, <2>5, Zenon
  <1>14. CASE AttachEntry
    <2>1. stack_ # <<>> /\ tree_' = LinkChildren(Entry(top).node, <<top.pending_key, child>>,
                                                 2 * Entry(top).produced)
      BY <1>14, Zenon DEF AttachEntry, Attaching, Entry, top
    <2>2. Entry(top) \in Frames /\ top.pending_key \in Nat BY <1>1, <1>12, <2>1, FrameUpdates, Zenon
    <2>3. 2 * Entry(top).produced \in Nat BY <2>2 DEF Frames
    <2>4. <<top.pending_key, child>> \in Seq(Nat) BY <1>1, <2>2
    <2>5. buf_' = buf_ BY <1>14, Zenon DEF AttachEntry
    <2> QED BY <1>11, <2>1, <2>2, <2>3, <2>4, <2>5, Zenon
  <1>15. CASE AttachAttribute
    <2>1. tree_'.nodes = tree_.nodes BY <1>1, <1>15 DEF AttachAttribute, Trees
    <2>2. buf_' = buf_ BY <1>15, Zenon DEF AttachAttribute
    <2> QED BY <1>3, <1>4, <2>1, <2>2, Zenon
  <1>16. CASE Consume \/ \E s \in Streams : Reset(s)
    <2>1. tree_' = NewTree BY <1>16, Zenon DEF Consume, Reset
    <2> QED BY <2>1 DEF NewTree, Views
  <1>17. CASE \/ ParseRefused \/ ParseOne \/ DriveValue \/ NeedMore \/ AttachRoot
              \/ AttachKey \/ AttachAttributeKey \/ UNCHANGED vars
    <2>1. UNCHANGED <<buf_, tree_>>
      BY <1>17, Zenon DEF ParseRefused, ParseOne, DriveValue, NeedMore, AttachRoot,
         AttachKey, AttachAttributeKey, KeepKey, vars
    <2> QED BY <1>3, <1>4, <2>1, Zenon
  <1> QED BY <1>5, <1>6, <1>8, <1>9, <1>10, <1>13, <1>14, <1>15, <1>16, <1>17, Zenon DEF ParserNext

-----------------------------------------------------------------------------
(* The frames *)

Holds(f) == f.state \in {"array", "map_key", "map_value"}

FrameFits(f) ==
    /\ f.state # "value" => f.produced < f.expected
    /\ f.state = "map_value" => f.pending_key # 0
    /\ f.state \in {"array", "map_key"} => f.pending_key = 0
    /\ Holds(f) => f.node # 0

\* Above a value frame is an attribute that comes before the value, and below an
\* attribute is such a frame.
Above(f, g) == f.state = "value" <=> g.state = "attribute"

\* The frames from the outermost to the innermost.
Stacked(st) ==
    /\ \A j \in 1..Len(st) : FrameFits(st[j])
    /\ st # <<>> => st[1].state # "attribute"
    /\ \A j \in 1..(Len(st) - 1) : Above(st[j], st[j + 1])

\* The frames fit together. A value frame is on top of another only when the parser
\* is about to parse.
FramesInv ==
    /\ Stacked(stack_)
    /\ pc = "loop" => stack_ # <<>>
    /\ pc = "consume" => stack_ = <<>>
    /\ pc = "attach" => child # 0 /\ (stack_ # <<>> => back(stack_).state # "value")

LEMMA Pushed ==
  ASSUME NEW st \in Seq(Frames), NEW f \in Frames
  PROVE  /\ Append(st, f) \in Seq(Frames) /\ Append(st, f) # <<>>
         /\ back(Append(st, f)) = f /\ pop_back(Append(st, f)) = st
  BY PushFacts

LEMMA PushedParts ==
  ASSUME NEW st \in Seq(Frames), NEW f \in Frames
  PROVE  /\ Len(st) \in Nat /\ Len(Append(st, f)) = Len(st) + 1
         /\ Append(st, f)[Len(st) + 1] = f
         /\ \A j \in 1..Len(st) : Append(st, f)[j] = st[j]
  BY PushFacts

LEMMA Replaced ==
  ASSUME NEW st \in Seq(Frames), st # <<>>, NEW f \in Frames
  PROVE  /\ ReplaceTop(st, f) \in Seq(Frames) /\ ReplaceTop(st, f) # <<>>
         /\ back(ReplaceTop(st, f)) = f /\ pop_back(ReplaceTop(st, f)) = pop_back(st)
  BY ReplaceFacts

LEMMA StackedPush ==
  ASSUME NEW st \in Seq(Frames), Stacked(st), NEW f \in Frames, FrameFits(f),
         IF st = <<>> THEN f.state # "attribute" ELSE Above(back(st), f)
  PROVE  Stacked(Append(st, f))
  <1> DEFINE a == Append(st, f)
             n == Len(st)
  <1>1. /\ Len(a) = n + 1 /\ n \in Nat /\ a # <<>>
        /\ \A j \in 1..n : a[j] = st[j]
        /\ a[n + 1] = f
    BY PushFacts
  <1>2. st = <<>> <=> n = 0 BY EmptySeq
  <1>3. n # 0 => back(st) = st[n] BY DEF back
  <1>4. /\ \A j \in 1..n : FrameFits(st[j])
        /\ n # 0 => st[1].state # "attribute"
        /\ \A j \in 1..(n - 1) : Above(st[j], st[j + 1])
    BY <1>2, Zenon DEF Stacked
  <1> HIDE DEF a, n
  <1>5. ASSUME NEW j \in 1..(n + 1) PROVE FrameFits(a[j])
    <2>1. j \in 1..n \/ j = n + 1 BY <1>1
    <2> QED BY <1>1, <1>4, <2>1, Zenon
  <1>6. a[1].state # "attribute"
    <2>1. CASE n = 0 BY <1>1, <1>2, <2>1
    <2>2. CASE n # 0
      <3>1. 1 \in 1..n BY <1>1, <2>2
      <3> QED BY <1>1, <1>4, <2>2, <3>1, Zenon
    <2> QED BY <2>1, <2>2
  <1>7. ASSUME NEW j \in 1..n PROVE Above(a[j], a[j + 1])
    <2>1. CASE j = n
      <3>1. n # 0 /\ n \in 1..n BY <1>1, <2>1
      <3> QED BY <1>1, <1>2, <1>3, <2>1, <3>1, Zenon
    <2>2. CASE j # n
      <3>1. j \in 1..(n - 1) /\ j + 1 \in 1..n BY <1>1, <2>2
      <3> QED BY <1>1, <1>4, <3>1, Zenon
    <2> QED BY <2>1, <2>2
  <1>8. Len(a) = n + 1 /\ Len(a) - 1 = n BY <1>1
  <1>9. Stacked(a) BY <1>5, <1>6, <1>7, <1>8, Zenon DEF Stacked
  <1> QED BY <1>9, Zenon DEF a

LEMMA StackedPop ==
  ASSUME NEW st \in Seq(Frames), Stacked(st), st # <<>>
  PROVE  /\ Stacked(pop_back(st)) /\ pop_back(st) \in Seq(Frames)
         /\ FrameFits(back(st)) /\ back(st) \in Frames
         /\ IF pop_back(st) = <<>> THEN back(st).state # "attribute"
            ELSE Above(back(pop_back(st)), back(st))
  <1> DEFINE r == pop_back(st)
             n == Len(st) - 1
  <1>1. /\ Len(st) = n + 1 /\ n \in Nat
        /\ back(st) \in Frames /\ back(st) = st[n + 1]
        /\ r \in Seq(Frames) /\ Len(r) = n
        /\ \A j \in 1..n : r[j] = st[j]
    BY TopFacts
  <1>2. r = <<>> <=> n = 0 BY <1>1, EmptySeq
  <1>3. n # 0 => back(r) = r[n] BY <1>1 DEF back
  <1> HIDE DEF r, n
  <1>4. /\ \A j \in 1..(n + 1) : FrameFits(st[j])
        /\ st[1].state # "attribute"
        /\ \A j \in 1..n : Above(st[j], st[j + 1])
    <2>1. Len(st) - 1 = n BY <1>1
    <2> QED BY <1>1, <2>1, Zenon DEF Stacked
  <1>5. n + 1 \in 1..(n + 1) /\ \A j \in 1..n : j \in 1..(n + 1) BY <1>1
  <1>6. \A j \in 1..n : FrameFits(r[j]) BY <1>1, <1>4, <1>5, Zenon
  <1>7. n # 0 => r[1].state # "attribute"
    <2>1. n # 0 => 1 \in 1..n BY <1>1
    <2> QED BY <1>1, <1>4, <2>1, Zenon
  <1>8. ASSUME NEW j \in 1..(n - 1) PROVE Above(r[j], r[j + 1])
    <2>1. j \in 1..n /\ j + 1 \in 1..n BY <1>1
    <2> QED BY <1>1, <1>4, <2>1, Zenon
  <1>9. Stacked(r) BY <1>1, <1>2, <1>6, <1>7, <1>8, Zenon DEF Stacked
  <1>10. n # 0 => Above(back(r), back(st))
    <2>1. n # 0 => n \in 1..n BY <1>1
    <2> QED BY <1>1, <1>3, <1>4, <2>1, Zenon
  <1>11. n = 0 => back(st).state # "attribute" BY <1>1, <1>4
  <1> QED BY <1>1, <1>2, <1>4, <1>5, <1>9, <1>10, <1>11, Zenon DEF r

LEMMA StackedReplace ==
  ASSUME NEW st \in Seq(Frames), Stacked(st), st # <<>>, NEW f \in Frames, FrameFits(f),
         f.state = "attribute" <=> back(st).state = "attribute"
  PROVE  Stacked(ReplaceTop(st, f))
  <1> DEFINE r == pop_back(st)
  <1>1. /\ Stacked(r) /\ r \in Seq(Frames)
        /\ IF r = <<>> THEN back(st).state # "attribute" ELSE Above(back(r), back(st))
    BY StackedPop, Zenon
  <1> HIDE DEF r
  <1>2. IF r = <<>> THEN f.state # "attribute" ELSE Above(back(r), f) BY <1>1, Zenon DEF Above
  <1>3. Stacked(Append(r, f)) BY <1>1, <1>2, StackedPush, Zenon
  <1> QED BY <1>3, Zenon DEF r, ReplaceTop

LEMMA StackedDrive ==
  ASSUME NEW st \in Seq(Frames), Stacked(st), st # <<>> => back(st).state # "value"
  PROVE  Stacked(Append(st, ValueFrame))
  <1>1. ValueFrame \in Frames /\ ValueFrame.state = "value" BY EmptyTypes DEF ValueFrame, Frame
  <1>2. ValueFrame.state # "attribute" /\ FrameFits(ValueFrame) BY <1>1 DEF FrameFits, Holds
  <1>3. st # <<>> => Above(back(st), ValueFrame) BY <1>2, Zenon DEF Above
  <1> QED BY <1>1, <1>2, <1>3, StackedPush, Zenon

\* After the last element a container goes to the frame below, which is not a value
\* frame; otherwise the next element follows.
LEMMA ProducedStacked ==
  ASSUME stack_ \in Seq(Frames), Stacked(stack_), stack_ # <<>>,
         NEW f \in Frames, f.state \in {"array", "map_key"}, back(stack_).state # "attribute",
         f.pending_key = 0, f.node # 0, f.produced <= f.expected, Produced(f)
  PROVE  FramesInv'
  <1> DEFINE r == pop_back(stack_)
             q == ReplaceTop(stack_, f)
  <1>1. /\ Stacked(r) /\ r \in Seq(Frames)
        /\ r # <<>> => Above(back(r), back(stack_))
    BY StackedPop, Zenon
  <1>2. CASE f.produced = f.expected
    <2>1. stack_' = r /\ child' = f.node /\ pc' = "attach" BY <1>2, Zenon DEF Produced
    <2> HIDE DEF r
    <2>2. r # <<>> => back(r).state # "value" BY <1>1, Zenon DEF Above
    <2> QED BY <1>1, <2>1, <2>2 DEF FramesInv
  <1>3. CASE f.produced # f.expected
    <2>1. stack_' = Append(q, ValueFrame) /\ child' = 0 /\ pc' = "loop" BY <1>3, Zenon DEF Produced
    <2>2. FrameFits(f)
      <3>1. f.produced \in Nat /\ f.expected \in Nat BY DEF Frames
      <3> QED BY <1>3, <3>1 DEF FrameFits, Holds
    <2>3. f.state # "attribute" /\ f.state # "value" OBVIOUS
    <2>4. Stacked(q) BY <2>2, <2>3, StackedReplace, Zenon
    <2>5. q \in Seq(Frames) /\ back(q) = f BY Replaced, Zenon
    <2> HIDE DEF q
    <2>6. Stacked(stack_') BY <2>1, <2>3, <2>4, <2>5, StackedDrive, Zenon
    <2>7. stack_' # <<>> BY <2>1, <2>5, EmptyTypes, Pushed, Zenon
    <2> QED BY <2>1, <2>6, <2>7 DEF FramesInv
  <1> QED BY <1>2, <1>3

LEMMA FramesInit == ParserInit => FramesInv
  BY DEF ParserInit, FramesInv, Stacked

LEMMA FramesNext == Types /\ FramesInv /\ [ParserNext]_vars => FramesInv'
  <1> SUFFICES ASSUME Types, FramesInv, [ParserNext]_vars PROVE FramesInv' OBVIOUS
  <1>1. /\ stream \in Streams /\ buf_ \in Buffers /\ InOrder(buf_) /\ tree_ \in Trees
        /\ stack_ \in Seq(Frames) /\ child \in Nat
    BY Zenon DEF Types
  <1>2. Stacked(stack_) BY Zenon DEF FramesInv
  <1> DEFINE top == back(stack_)
  <1>3. stack_ # <<>> => top \in Frames /\ FrameFits(top) BY <1>1, <1>2, StackedPop, Zenon
  <1>4. CASE UNCHANGED <<stack_, child, pc>> BY <1>4, Zenon DEF FramesInv
  <1>5. CASE UNCHANGED stack_ /\ pc' \in {"read", "reading", "parse", "failed"}
    BY <1>2, <1>5 DEF FramesInv
  <1>6. CASE Prepare \/ NeedMore \/ ParseFails \/ \E n \in 1..(End(stream).first - 1) : Commit(n)
    BY <1>5, <1>6, Zenon DEF Prepare, NeedMore, ParseFails, Commit
  <1>7. CASE ParseRefused BY <1>4, <1>5, <1>7, Zenon DEF ParseRefused
  <1>8. CASE ParseOne
    <2>1. Stacked(<<ValueFrame>>) /\ <<ValueFrame>> # <<>>
      <3>1. Stacked(<<>>) BY DEF Stacked
      <3>2. Stacked(Append(<<>>, ValueFrame)) BY <3>1, EmptyTypes, StackedDrive, Zenon
      <3>3. <<ValueFrame>> = Append(<<>>, ValueFrame) /\ <<ValueFrame>> # <<>> OBVIOUS
      <3> QED BY <3>2, <3>3, Zenon
    <2>2. stack_' = (IF stack_ = <<>> THEN <<ValueFrame>> ELSE stack_) /\ pc' = "loop"
      BY <1>8, Zenon DEF ParseOne
    <2>3. Stacked(stack_') /\ stack_' # <<>> BY <1>2, <2>1, <2>2, Zenon
    <2> QED BY <2>2, <2>3 DEF FramesInv
  <1>9. CASE DriveValue
    <2>1. stack_' = Append(stack_, ValueFrame) /\ top.state # "value" /\ pc = "loop" /\ pc' = "loop"
      BY <1>9, Zenon DEF DriveValue
    <2>2. Stacked(stack_') BY <1>1, <1>2, <2>1, StackedDrive, Zenon
    <2>3. stack_' # <<>> BY <1>1, <2>1, EmptyTypes, Pushed, Zenon
    <2> QED BY <2>1, <2>2, <2>3 DEF FramesInv
  <1> DEFINE t == FrontToken
  <1>10. Decision = "ok" => t \in Tokens /\ (t.kind = "attribute" => t.len >= 0)
    BY <1>1, FrontFacts, Zenon
  <1> HIDE DEF t
  <1>11. NewIndex \in Nat /\ NewIndex # 0 BY <1>1 DEF NewIndex, Trees
  <1>12. CASE AcceptAttribute
    <2>1. /\ Decision = "ok" /\ t.kind = "attribute" /\ stack_' = start_attribute(t)
          /\ stack_ # <<>> /\ top.state = "value" /\ pc = "loop" /\ pc' = "loop"
      BY <1>12, Zenon DEF AcceptAttribute, ParsingValue, t
    <2>2. CASE t.len = 0
      <3>1. stack_' = stack_ BY <2>1, <2>2, Zenon DEF start_attribute
      <3> QED BY <1>2, <2>1, <3>1 DEF FramesInv
    <2>3. CASE t.len # 0
      <3> DEFINE f == Frame("attribute", t.len, 0)
      <3>1. stack_' = Append(stack_, f) BY <2>1, <2>3, Zenon DEF start_attribute
      <3>2. t.len \in Nat /\ t.len > 0 BY <1>10, <2>1, <2>3 DEF Tokens
      <3>3. f \in Frames /\ f.state = "attribute" /\ f.produced = 0 /\ f.expected = t.len
        BY <3>2 DEF Frame, Frames
      <3>4. FrameFits(f) BY <3>2, <3>3 DEF FrameFits, Holds
      <3>5. Above(top, f) BY <2>1, <3>3, Zenon DEF Above
      <3> HIDE DEF f
      <3>6. Stacked(stack_') BY <1>1, <1>2, <2>1, <3>1, <3>3, <3>4, <3>5, StackedPush, Zenon
      <3>7. stack_' # <<>> BY <1>1, <3>1, <3>3, Pushed, Zenon
      <3> QED BY <2>1, <3>6, <3>7 DEF FramesInv
    <2> QED BY <2>2, <2>3
  <1>13. CASE AcceptContainer
    <2>1. /\ Decision = "ok" /\ t.len > 0 /\ stack_' = start_container(t)
          /\ stack_ # <<>> /\ top.state = "value" /\ pc = "loop" /\ pc' = "loop"
      BY <1>13, Zenon DEF AcceptContainer, ParsingValue, t
    <2> DEFINE s == IF t.kind = "map" THEN "map_key" ELSE "array"
               f == Frame(s, t.len, NewIndex)
    <2>2. t.len \in Nat /\ t.len > 0 BY <1>10, <2>1 DEF Tokens
    <2>3. s \in {"map_key", "array"} OBVIOUS
    <2>4. stack_' = ReplaceTop(stack_, f) BY <2>1, Zenon DEF start_container
    <2> HIDE DEF s
    <2>5. /\ f \in Frames /\ f.state = s /\ f.produced = 0 /\ f.expected = t.len
          /\ f.node = NewIndex /\ f.pending_key = 0
      BY <1>11, <2>2, <2>3 DEF Frame, Frames
    <2> HIDE DEF f
    <2>6. FrameFits(f) /\ f.state # "attribute" BY <1>11, <2>2, <2>3, <2>5 DEF FrameFits, Holds
    <2>7. top.state # "attribute" BY <2>1
    <2>8. Stacked(stack_') BY <1>1, <1>2, <2>1, <2>4, <2>5, <2>6, <2>7, StackedReplace, Zenon
    <2>9. stack_' # <<>> BY <1>1, <2>1, <2>4, <2>5, Replaced, Zenon
    <2> QED BY <2>1, <2>8, <2>9 DEF FramesInv
  <1>14. CASE AcceptValue
    <2>1. /\ stack_' = pop_back(stack_) /\ child' = NewIndex
          /\ stack_ # <<>> /\ top.state = "value" /\ pc' = "attach"
      BY <1>14, Zenon DEF AcceptValue, ParsingValue
    <2>2. Stacked(stack_') /\ (stack_' # <<>> => Above(back(stack_'), top))
      BY <1>1, <1>2, <2>1, StackedPop, Zenon
    <2>3. stack_' # <<>> => back(stack_').state # "value" BY <2>1, <2>2 DEF Above
    <2> QED BY <1>11, <2>1, <2>2, <2>3 DEF FramesInv
  <1>15. CASE AttachRoot
    <2>1. stack_' = stack_ /\ stack_ = <<>> /\ pc' = "consume" BY <1>15, Zenon DEF AttachRoot
    <2> QED BY <1>2, <2>1 DEF FramesInv
  <1>16. CASE AttachElement
    <2> DEFINE f == Element(top)
    <2>1. stack_ # <<>> /\ top.state = "array" /\ Produced(f)
      BY <1>16, Zenon DEF AttachElement, Attaching, Element
    <2>2. top \in Frames /\ FrameFits(top) BY <1>3, <2>1, Zenon
    <2>3. /\ f \in Frames /\ f.state = top.state /\ f.produced = top.produced + 1
          /\ f.pending_key = top.pending_key /\ f.node = top.node /\ f.expected = top.expected
          /\ top.produced \in Nat /\ top.expected \in Nat
      BY <2>2, FrameUpdates, Zenon
    <2> HIDE DEF top
    <2> HIDE DEF f
    <2>4. f.produced <= f.expected /\ f.pending_key = 0 /\ f.node # 0
      BY <2>1, <2>2, <2>3 DEF FrameFits, Holds
    <2>5. f.state \in {"array", "map_key"} /\ back(stack_).state # "attribute"
      BY <2>1, <2>3 DEF top
    <2> QED BY <1>1, <1>2, <2>1, <2>3, <2>4, <2>5, ProducedStacked, Zenon
  <1>17. CASE AttachEntry
    <2> DEFINE f == Entry(top)
    <2>1. stack_ # <<>> /\ top.state = "map_value" /\ Produced(f)
      BY <1>17, Zenon DEF AttachEntry, Attaching, Entry
    <2>2. top \in Frames /\ FrameFits(top) BY <1>3, <2>1, Zenon
    <2>3. /\ f \in Frames /\ f.state = "map_key" /\ f.produced = top.produced + 1
          /\ f.pending_key = 0 /\ f.node = top.node /\ f.expected = top.expected
          /\ top.produced \in Nat /\ top.expected \in Nat
      BY <2>2, FrameUpdates, Zenon
    <2> HIDE DEF top
    <2> HIDE DEF f
    <2>4. f.produced <= f.expected /\ f.node # 0
      BY <2>1, <2>2, <2>3 DEF FrameFits, Holds
    <2>5. f.state \in {"array", "map_key"} /\ back(stack_).state # "attribute"
      BY <2>1, <2>3 DEF top
    <2> QED BY <1>1, <1>2, <2>1, <2>3, <2>4, <2>5, ProducedStacked, Zenon
  <1>18. ASSUME NEW s \in {"map_value", "attribute"}, pc = "attach", stack_ # <<>>, KeepKey(s),
                \/ top.state = "map_key" /\ s = "map_value"
                \/ top.state = "attribute" /\ s = "attribute"
         PROVE  FramesInv'
    <2> DEFINE f == Keyed(top, s, child)
               q == ReplaceTop(stack_, f)
    <2>1. stack_' = Append(q, ValueFrame) /\ pc' = "loop" BY <1>18, Zenon DEF KeepKey, Keyed
    <2>2. top \in Frames /\ FrameFits(top) BY <1>3, <1>18, Zenon
    <2>3. /\ f \in Frames /\ f.state = s /\ f.produced = top.produced
          /\ f.pending_key = child /\ f.node = top.node /\ f.expected = top.expected
      <3> DEFINE g == top
                 k == child
      <3>1. g \in Frames /\ k \in Nat BY <1>1, <2>2, Zenon
      <3> HIDE DEF g, k
      <3>2. /\ Keyed(g, s, k) \in Frames
            /\ Keyed(g, s, k).state = s /\ Keyed(g, s, k).produced = g.produced
            /\ Keyed(g, s, k).pending_key = k
            /\ Keyed(g, s, k).node = g.node /\ Keyed(g, s, k).expected = g.expected
        BY Zenon, <3>1 DEF Frames, Keyed
      <3> QED BY <3>2, Zenon DEF g, k
    <2>4. child # 0 BY <1>18 DEF FramesInv
    <2> HIDE DEF f, top
    <2>5. FrameFits(f) BY <1>18, <2>2, <2>3, <2>4 DEF FrameFits, Holds
    <2>6. f.state = "attribute" <=> back(stack_).state = "attribute" BY <1>18, <2>3 DEF top
    <2>7. Stacked(q) BY <1>1, <1>2, <1>18, <2>3, <2>5, <2>6, StackedReplace, Zenon
    <2>8. q \in Seq(Frames) /\ back(q) = f BY <1>1, <1>18, <2>3, Replaced, Zenon
    <2>9. f.state # "value" BY <2>3
    <2> HIDE DEF q
    <2>10. Stacked(stack_') BY <2>1, <2>7, <2>8, <2>9, StackedDrive, Zenon
    <2>11. stack_' # <<>> BY <2>1, <2>8, EmptyTypes, Pushed, Zenon
    <2> QED BY <2>1, <2>10, <2>11 DEF FramesInv
  <1>19. CASE AttachKey \/ AttachAttributeKey
    BY <1>18, <1>19, Zenon DEF AttachKey, AttachAttributeKey, Attaching
  <1>20. CASE AttachAttribute
    <2> DEFINE f == Pair(top)
               q == ReplaceTop(stack_, f)
    <2>1. /\ stack_ # <<>> /\ top.state = "attribute" /\ pc' = "loop"
          /\ stack_' = IF f.produced = f.expected THEN pop_back(stack_) ELSE Append(q, ValueFrame)
      BY <1>20, Zenon DEF AttachAttribute, Attaching, Pair
    <2>2. top \in Frames /\ FrameFits(top) BY <1>3, <2>1, Zenon
    <2>3. /\ f \in Frames /\ f.state = top.state /\ f.produced = top.produced + 1
          /\ f.pending_key = 0 /\ f.node = top.node /\ f.expected = top.expected
          /\ top.produced \in Nat /\ top.expected \in Nat
      BY <2>2, FrameUpdates, Zenon
    <2>4. CASE f.produced = f.expected
      <3>1. stack_' = pop_back(stack_) BY <2>1, <2>4, Zenon
      <3>2. /\ Stacked(stack_')
            /\ IF stack_' = <<>> THEN top.state # "attribute" ELSE Above(back(stack_'), top)
        BY <1>1, <1>2, <2>1, <3>1, StackedPop, Zenon
      <3>3. stack_' # <<>> BY <2>1, <3>2, Zenon
      <3> QED BY <2>1, <3>2, <3>3 DEF FramesInv
    <2>5. CASE f.produced # f.expected
      <3>1. stack_' = Append(q, ValueFrame) BY <2>1, <2>5, Zenon
      <3> HIDE DEF f, top
      <3>2. FrameFits(f) BY <2>1, <2>2, <2>3, <2>5 DEF FrameFits, Holds
      <3>3. f.state = "attribute" /\ back(stack_).state = "attribute" /\ f.state # "value"
        BY <2>1, <2>3 DEF top
      <3>4. Stacked(q) BY <1>1, <1>2, <2>1, <2>3, <3>2, <3>3, StackedReplace, Zenon
      <3>5. q \in Seq(Frames) /\ back(q) = f BY <1>1, <2>1, <2>3, Replaced, Zenon
      <3> HIDE DEF q
      <3>6. Stacked(stack_') BY <3>1, <3>3, <3>4, <3>5, StackedDrive, Zenon
      <3>7. stack_' # <<>> BY <3>1, <3>5, EmptyTypes, Pushed, Zenon
      <3> QED BY <2>1, <3>6, <3>7 DEF FramesInv
    <2> QED BY <2>4, <2>5
  <1>21. CASE Consume \/ \E s \in Streams : Reset(s)
    <2>1. stack_' = <<>> /\ pc' \in {"parse", "read"} BY <1>21, Zenon DEF Consume, Reset
    <2> QED BY <2>1 DEF FramesInv, Stacked
  <1>22. CASE UNCHANGED vars BY <1>4, <1>22, Zenon DEF vars
  <1> QED BY <1>6, <1>7, <1>8, <1>9, <1>12, <1>13, <1>14, <1>15, <1>16, <1>17, <1>19, <1>20,
             <1>21, <1>22, Zenon DEF ParserNext

-----------------------------------------------------------------------------
(* Theorems *)

\* The inductive invariant of this module.
StateInv == Types /\ Unread /\ Views /\ FramesInv

LEMMA StateInvariant == ParserSpec => []StateInv
  <1>1. ParserInit => StateInv
    BY TypesInit, UnreadInit, ViewsInit, FramesInit, Zenon DEF StateInv
  <1>2. StateInv /\ [ParserNext]_vars => StateInv'
    BY TypesNext, UnreadNext, ViewsNext, FramesNext, Zenon DEF StateInv
  <1> QED BY <1>1, <1>2, PTL DEF ParserSpec

\* prepare(), commit(), consume(), compact() and reset() never lose, repeat or reorder a
\* byte that the parser has not read.
THEOREM UnreadBytesKept == ParserSpec => []UnreadKept
  <1>1. StateInv => UnreadKept BY Zenon DEF StateInv, Unread, Kept, UnreadKept, Byte
  <1> QED BY <1>1, StateInvariant, PTL

\* The text that a node points to is not overwritten as long as prepare() has not moved
\* the buffer to a new block: neither by a read nor by what parse_one() does.
THEOREM TextsStay == ParserSpec => []ViewsHold
  <1>1. StateInv => ViewsHold
    <2> SUFFICES ASSUME StateInv PROVE ViewsHold OBVIOUS
    <2>1. DOMAIN tree_.nodes = 1..Len(tree_.nodes) BY DEF StateInv, Types, Trees
    <2>2. Views BY Zenon DEF StateInv
    <2> QED BY <2>1, <2>2, Zenon DEF Views, Shown, ViewsHold
  <1> QED BY <1>1, StateInvariant, PTL

\* parse_one() and attach_to_parent() never meet a frame they do not expect, so that
\* invalid_state and invalid_map_pairs are never returned, however deep values,
\* containers and attributes are nested.
THEOREM FramesAlwaysFit == ParserSpec => []FramesFit
  <1>1. StateInv => FramesFit
    <2> SUFFICES ASSUME StateInv PROVE FramesFit OBVIOUS
    <2>1. stack_ \in Seq(Frames) /\ FramesInv BY DEF StateInv, Types
    <2>2. /\ DOMAIN stack_ = 1..Len(stack_)
          /\ stack_ # <<>> => Len(stack_) \in 1..Len(stack_)
      BY <2>1
    <2>3. \A j \in 1..Len(stack_) : FrameFits(stack_[j]) BY <2>1, Zenon DEF FramesInv, Stacked
    <2>4. stack_ # <<>> => FrameFits(back(stack_)) BY <2>2, <2>3, Zenon DEF back
    <2> QED BY <2>1, <2>2, <2>3, <2>4, Zenon DEF FramesInv, FrameFits, FramesFit
  <1> QED BY <1>1, StateInvariant, PTL

=============================================================================
