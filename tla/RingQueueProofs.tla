-------------------------- MODULE RingQueueProofs --------------------------
(***************************************************************************)
(* For every set of queues, values and allocators, every initial capacity  *)
(* and every length: the invariants of RingQueue hold and it implements    *)
(* Fifo.  The lemmas are about one buffer: its slots d, capacity c, head h *)
(* and size s.                                                             *)
(***************************************************************************)
EXTENDS RingQueue, TLAPS

Elements(d, c, h, s) == [i \in 1..s |-> d[Slot(h, i - 1, c)]]

WellFormed(d, c, h, s) ==
    /\ c \in Nat /\ h \in Nat /\ s \in Nat
    /\ d \in [0..(c - 1) -> Values \cup {Raw}]
    /\ s <= c
    /\ c > 0 => h < c
    /\ \A i \in 0..(c - 1) : d[i] # Raw <=> i \in Window(h, s, c)

\* The buffer after n calls of pop_front(), and after the construction of v behind
\* its last element.
PopSlots(d, h, n, c) == [i \in DOMAIN d |-> IF i \in Window(h, n, c) THEN Raw ELSE d[i]]
PopHead(h, n, s, c) == IF n = s THEN 0 ELSE Slot(h, n, c)
PutSlots(d, h, s, c, v) == [d EXCEPT ![Slot(h, s, c)] = v]

-----------------------------------------------------------------------------
(* Indices *)

\* An index below the capacity is its own slot.
LEMMA ModLow == ASSUME NEW a \in Nat, NEW c \in Nat, a < c PROVE a % c = a
  OBVIOUS

\* An index that passed the end once wraps to the front.
LEMMA ModHigh == ASSUME NEW a \in Nat, NEW c \in Nat, c <= a, a < 2 * c PROVE a % c = a - c
  OBVIOUS

\* The slot of the i-th element, without the modulus.
LEMMA SlotValue ==
  ASSUME NEW c \in Nat, NEW h \in Nat, NEW i \in Nat, h < c, i <= c
  PROVE  /\ Slot(h, i, c) = (IF h + i < c THEN h + i ELSE h + i - c)
         /\ Slot(h, i, c) \in 0..(c - 1)
  <1>1. CASE h + i < c
    <2>1. (h + i) % c = h + i BY <1>1, ModLow
    <2> QED BY <2>1, <1>1 DEF Slot
  <1>2. CASE ~(h + i < c)
    <2> DEFINE a == h + i
    <2>1. a \in Nat /\ c <= a /\ a < 2 * c BY <1>2
    <2> HIDE DEF a
    <2>2. a % c = a - c BY <2>1, ModHigh
    <2> QED BY <2>1, <2>2, <1>2 DEF Slot, a
  <1> QED BY <1>1, <1>2

\* The window without the modulus: one interval, or a tail and a front.
LEMMA WindowValue ==
  ASSUME NEW c \in Nat, NEW h \in Nat, NEW n \in Nat, h < c, n <= c, NEW i \in 0..(c - 1)
  PROVE  i \in Window(h, n, c) <=> (h <= i /\ i < h + n) \/ i + c < h + n
  <1>1. ASSUME i \in Window(h, n, c) PROVE (h <= i /\ i < h + n) \/ i + c < h + n
    <2>1. PICK j \in 0..(n - 1) : i = Slot(h, j, c) BY <1>1 DEF Window
    <2>2. j \in Nat /\ j <= c /\ j < n BY <2>1
    <2>3. i = (IF h + j < c THEN h + j ELSE h + j - c) BY <2>1, <2>2, SlotValue, ZenonT(30)
    <2> QED BY <2>2, <2>3
  <1>2. ASSUME h <= i, i < h + n PROVE i \in Window(h, n, c)
    <2>1. i - h \in 0..(n - 1) BY <1>2
    <2>2. Slot(h, i - h, c) = i BY <1>2, SlotValue
    <2> QED BY <2>1, <2>2 DEF Window
  <1>3. ASSUME i + c < h + n PROVE i \in Window(h, n, c)
    <2>1. i + c - h \in 0..(n - 1) BY <1>3
    <2>2. Slot(h, i + c - h, c) = i BY <1>3, SlotValue
    <2> QED BY <2>1, <2>2 DEF Window
  <1> QED BY <1>1, <1>2, <1>3

\* A buffer of no elements has an empty window.
LEMMA EmptyWindow == ASSUME NEW c, NEW h PROVE Window(h, 0, c) = {}
  BY DEF Window

-----------------------------------------------------------------------------
(* One buffer *)

\* What a well-formed buffer holds is a sequence of elements.
LEMMA ElementsType ==
  ASSUME NEW d, NEW c, NEW h, NEW s, WellFormed(d, c, h, s)
  PROVE  /\ Elements(d, c, h, s) \in Seq(Values)
         /\ Len(Elements(d, c, h, s)) = s
  <1>1. c \in Nat /\ h \in Nat /\ s \in Nat BY DEF WellFormed
  <1>2. ASSUME NEW i \in 1..s PROVE d[Slot(h, i - 1, c)] \in Values
    <2>1. h < c /\ s <= c /\ i - 1 \in 0..(s - 1) BY <1>1 DEF WellFormed
    <2>2. Slot(h, i - 1, c) \in 0..(c - 1) BY <1>1, <2>1, SlotValue, SMTT(30)
    <2>3. Slot(h, i - 1, c) \in Window(h, s, c) BY <2>1 DEF Window
    <2> QED BY <2>2, <2>3 DEF WellFormed
  <1> QED BY <1>1, <1>2 DEF Elements

\* An object without storage.
LEMMA NoStorage == WellFormed(NoSlots, 0, 0, 0) /\ Elements(NoSlots, 0, 0, 0) = << >>
  BY EmptyWindow DEF WellFormed, NoSlots, Elements

\* pop_front() n times removes the first n elements.
LEMMA PopBuffer ==
  ASSUME NEW d, NEW c, NEW h, NEW s, WellFormed(d, c, h, s), NEW n \in 0..s
  PROVE  /\ WellFormed(PopSlots(d, h, n, c), c, PopHead(h, n, s, c), s - n)
         /\ Elements(PopSlots(d, h, n, c), c, PopHead(h, n, s, c), s - n)
              = SubSeq(Elements(d, c, h, s), n + 1, s)
  <1> DEFINE e == PopSlots(d, h, n, c)
             g == PopHead(h, n, s, c)
  <1>a. e = [i \in DOMAIN d |-> IF i \in Window(h, n, c) THEN Raw ELSE d[i]] BY DEF PopSlots
  <1>b. g = IF n = s THEN 0 ELSE Slot(h, n, c) BY DEF PopHead
  <1> HIDE DEF e, g
  <1>1. /\ c \in Nat /\ h \in Nat /\ s \in Nat /\ n \in Nat /\ n <= s /\ s <= c
        /\ c > 0 => h < c
        /\ DOMAIN d = 0..(c - 1)
        /\ \A i \in 0..(c - 1) : d[i] \in Values \cup {Raw}
    BY DEF WellFormed
  <1>2. e \in [0..(c - 1) -> Values \cup {Raw}] BY <1>1, <1>a
  <1>3. \A i \in 0..(c - 1) : d[i] # Raw <=> i \in Window(h, s, c) BY DEF WellFormed
  <1>4. CASE n = s
    <2>1. g = 0 /\ s - n = 0 BY <1>1, <1>4, <1>b
    <2>2. \A i \in 0..(c - 1) : e[i] = Raw BY <1>1, <1>3, <1>4, <1>a
    <2>3. WellFormed(e, c, g, s - n) BY <1>1, <1>2, <2>1, <2>2, EmptyWindow DEF WellFormed
    <2>4. Elements(e, c, g, s - n) = << >> BY <2>1 DEF Elements
    <2>5. SubSeq(Elements(d, c, h, s), n + 1, s) = << >> BY <1>1, <1>4, ElementsType
    <2> QED BY <2>3, <2>4, <2>5, ZenonT(30) DEF e, g
  <1>5. CASE n # s
    <2>1. g = Slot(h, n, c) /\ h < c /\ s - n \in Nat BY <1>1, <1>5, <1>b
    <2>2. g = (IF h + n < c THEN h + n ELSE h + n - c) /\ g \in Nat /\ g < c
      <3>1. /\ Slot(h, n, c) = (IF h + n < c THEN h + n ELSE h + n - c)
            /\ Slot(h, n, c) \in 0..(c - 1)
        <4>1. n <= c BY <1>1
        <4> QED BY <1>1, <2>1, <4>1, SlotValue, ZenonT(30)
      <3> QED BY <1>1, <2>1, <3>1
    <2>3. ASSUME NEW i \in 0..(c - 1) PROVE e[i] # Raw <=> i \in Window(g, s - n, c)
      <3>1. e[i] # Raw <=> i \in Window(h, s, c) /\ i \notin Window(h, n, c) BY <1>1, <1>3, <1>a
      <3>2. i \in Window(h, s, c) <=> (h <= i /\ i < h + s) \/ i + c < h + s
        BY <1>1, <2>1, WindowValue
      <3>3. i \in Window(h, n, c) <=> (h <= i /\ i < h + n) \/ i + c < h + n
        BY <1>1, <2>1, WindowValue
      <3>4. i \in Window(g, s - n, c) <=> (g <= i /\ i < g + (s - n)) \/ i + c < g + (s - n)
        BY <1>1, <2>1, <2>2, WindowValue
      <3> QED BY <1>1, <1>5, <2>1, <2>2, <3>1, <3>2, <3>3, <3>4
    <2>4. WellFormed(e, c, g, s - n)
      BY <1>1, <1>2, <2>1, <2>2, <2>3 DEF WellFormed
    <2>5. ASSUME NEW i \in 1..(s - n)
          PROVE  e[Slot(g, i - 1, c)] = Elements(d, c, h, s)[n + i]
      <3>1. i - 1 \in 0..(s - n - 1) /\ n + i \in 1..s BY <1>1
      <3> DEFINE p == n + i - 1
                 j == i - 1
      <3>a. p \in Nat /\ p <= c /\ p < s /\ n <= p /\ j \in Nat /\ j <= c /\ p = n + j
        BY <1>1, <3>1
      <3> HIDE DEF p, j
      <3>3. Slot(h, p, c) = (IF h + p < c THEN h + p ELSE h + p - c) /\ Slot(h, p, c) \in 0..(c - 1)
        BY <1>1, <2>1, <3>a, SlotValue, ZenonT(30)
      <3>b. Slot(g, j, c) = (IF g + j < c THEN g + j ELSE g + j - c)
        <4>1. c \in Nat /\ g \in Nat /\ g < c BY <1>1, <2>2
        <4>2. j \in Nat /\ j <= c BY <3>a
        <4> QED BY <4>1, <4>2, SlotValue, ZenonT(30)
      <3>2. Slot(g, j, c) = Slot(h, p, c) BY <1>1, <2>1, <2>2, <3>a, <3>b, <3>3
      <3>4. Slot(h, p, c) \notin Window(h, n, c)
        <4> DEFINE z == Slot(h, p, c)
        <4>1. z \in Window(h, n, c) <=> (h <= z /\ z < h + n) \/ z + c < h + n
          BY <1>1, <2>1, <3>3, WindowValue
        <4> HIDE DEF z
        <4>2. z = (IF h + p < c THEN h + p ELSE h + p - c) BY <3>3 DEF z
        <4> QED BY <1>1, <2>1, <3>a, <4>1, <4>2 DEF z
      <3>5. Elements(d, c, h, s)[n + i] = d[Slot(h, n + i - 1, c)] BY <3>1 DEF Elements
      <3> QED BY <1>1, <1>a, <3>2, <3>3, <3>4, <3>5 DEF p, j
    <2>6. Elements(e, c, g, s - n) = SubSeq(Elements(d, c, h, s), n + 1, s)
      <3> DEFINE E == Elements(d, c, h, s)
      <3>1. E \in Seq(Values) /\ Len(E) = s BY ElementsType
      <3>2. \A i \in 1..(s - n) : e[Slot(g, i - 1, c)] = E[n + i] BY <2>5
      <3> HIDE DEF E
      <3>3. SubSeq(E, n + 1, s) = [i \in 1..(s - n) |-> E[n + i]] BY <1>1, <3>1
      <3>4. Elements(e, c, g, s - n) = [i \in 1..(s - n) |-> E[n + i]] BY <3>2 DEF Elements
      <3> QED BY <3>3, <3>4, ZenonT(30) DEF E
    <2> QED BY <2>4, <2>6 DEF e, g
  <1> QED BY <1>4, <1>5

\* Slots filled from the front with the first n elements of a sequence.
LEMMA FillBuffer ==
  ASSUME NEW E \in Seq(Values), NEW n \in 0..Len(E), NEW new \in Nat, n <= new
  PROVE  LET e == [i \in 0..(new - 1) |-> IF i < n THEN E[i + 1] ELSE Raw]
         IN  /\ WellFormed(e, new, 0, n)
             /\ Elements(e, new, 0, n) = SubSeq(E, 1, n)
  <1> DEFINE e == [i \in 0..(new - 1) |-> IF i < n THEN E[i + 1] ELSE Raw]
  <1>1. n \in Nat /\ Len(E) \in Nat OBVIOUS
  <1>2. \A i \in 0..(new - 1) : e[i] = (IF i < n THEN E[i + 1] ELSE Raw) BY <1>1
  <1>3. e \in [0..(new - 1) -> Values \cup {Raw}] BY <1>1
  <1> HIDE DEF e
  <1>4. ASSUME NEW i \in 0..(new - 1) PROVE e[i] # Raw <=> i \in Window(0, n, new)
    <2>1. i \in Window(0, n, new) <=> i < n BY <1>1, WindowValue
    <2>2. i < n => E[i + 1] \in Values BY <1>1
    <2> QED BY <2>1, <2>2, <1>2, RingAssumption
  <1>5. WellFormed(e, new, 0, n) BY <1>1, <1>3, <1>4 DEF WellFormed
  <1>6. ASSUME NEW i \in 1..n PROVE e[Slot(0, i - 1, new)] = E[i]
    <2>1. Slot(0, i - 1, new) = i - 1 BY <1>1, SlotValue
    <2> QED BY <1>1, <1>2, <2>1
  <1>7. Elements(e, new, 0, n) = [i \in 1..n |-> E[i]] BY <1>6 DEF Elements
  <1>8. SubSeq(E, 1, n) = [i \in 1..n |-> E[i]] BY <1>1
  <1> QED BY <1>5, <1>7, <1>8, ZenonT(30) DEF e

\* ensure_capacity() keeps the elements.
LEMMA GrowBuffer ==
  ASSUME NEW d, NEW c, NEW h, NEW s, WellFormed(d, c, h, s), NEW new \in Nat, s <= new
  PROVE  LET e == [i \in 0..(new - 1) |-> IF i < s THEN d[Slot(h, i, c)] ELSE Raw]
         IN  /\ WellFormed(e, new, 0, s)
             /\ Elements(e, new, 0, s) = Elements(d, c, h, s)
  <1> DEFINE E == Elements(d, c, h, s)
             e == [i \in 0..(new - 1) |-> IF i < s THEN E[i + 1] ELSE Raw]
  <1>1. s \in Nat BY DEF WellFormed
  <1>2. E \in Seq(Values) /\ Len(E) = s BY ElementsType
  <1>3. \A i \in 0..(s - 1) : d[Slot(h, i, c)] = E[i + 1] BY <1>1 DEF Elements
  <1>4. [i \in 0..(new - 1) |-> IF i < s THEN d[Slot(h, i, c)] ELSE Raw] = e BY <1>1, <1>3
  <1> HIDE DEF E
  <1>5. WellFormed(e, new, 0, s) /\ Elements(e, new, 0, s) = SubSeq(E, 1, s)
    <2>1. s \in 0..Len(E) BY <1>1, <1>2
    <2> QED BY <1>2, <2>1, FillBuffer, ZenonT(30)
  <1>6. SubSeq(E, 1, s) = E BY <1>1, <1>2
  <1> QED BY <1>4, <1>5, <1>6, ZenonT(30) DEF E

\* Constructing v in the slot after the last element appends v.
LEMMA PutBuffer ==
  ASSUME NEW d, NEW c, NEW h, NEW s, WellFormed(d, c, h, s), s < c, NEW v \in Values
  PROVE  /\ WellFormed(PutSlots(d, h, s, c, v), c, h, s + 1)
         /\ Elements(PutSlots(d, h, s, c, v), c, h, s + 1) = Append(Elements(d, c, h, s), v)
  <1> DEFINE e == PutSlots(d, h, s, c, v)
             p == Slot(h, s, c)
             E == Elements(d, c, h, s)
  <1>1. /\ c \in Nat /\ h \in Nat /\ s \in Nat /\ h < c
        /\ d \in [0..(c - 1) -> Values \cup {Raw}]
        /\ \A i \in 0..(c - 1) : d[i] # Raw <=> i \in Window(h, s, c)
    BY DEF WellFormed
  <1>2. p = (IF h + s < c THEN h + s ELSE h + s - c) /\ p \in 0..(c - 1) BY <1>1, SlotValue
  <1>3. E \in Seq(Values) /\ Len(E) = s BY ElementsType
  <1>4. \A i \in 1..s : d[Slot(h, i - 1, c)] = E[i] BY DEF Elements
  <1>a. e = [d EXCEPT ![p] = v] BY DEF PutSlots
  <1> HIDE DEF p, E, e
  <1>5. e \in [0..(c - 1) -> Values \cup {Raw}] /\ e[p] = v
        /\ \A i \in 0..(c - 1) : i # p => e[i] = d[i]
    BY <1>1, <1>2, <1>a
  <1>6. ASSUME NEW i \in 0..(c - 1) PROVE e[i] # Raw <=> i \in Window(h, s + 1, c)
    <2>1. i \in Window(h, s, c) <=> (h <= i /\ i < h + s) \/ i + c < h + s
      BY <1>1, WindowValue
    <2>2. i \in Window(h, s + 1, c) <=> (h <= i /\ i < h + s + 1) \/ i + c < h + s + 1
      BY <1>1, WindowValue
    <2>3. i = p <=> i \in Window(h, s + 1, c) /\ i \notin Window(h, s, c)
      BY <1>1, <1>2, <2>1, <2>2
    <2>4. i \in Window(h, s, c) => i \in Window(h, s + 1, c) BY <1>1, <2>1, <2>2
    <2> QED BY <1>1, <1>5, <2>3, <2>4, RingAssumption
  <1>7. WellFormed(e, c, h, s + 1) BY <1>1, <1>5, <1>6 DEF WellFormed
  <1>8. ASSUME NEW i \in 1..(s + 1)
        PROVE  e[Slot(h, i - 1, c)] = (IF i = s + 1 THEN v ELSE E[i])
    <2>1. CASE i = s + 1 BY <1>1, <1>5, <2>1 DEF p
    <2>2. CASE i # s + 1
      <3>1. /\ Slot(h, i - 1, c) = (IF h + (i - 1) < c THEN h + (i - 1) ELSE h + (i - 1) - c)
            /\ Slot(h, i - 1, c) \in 0..(c - 1)
        <4> DEFINE j == i - 1
        <4>1. j \in Nat /\ j <= c BY <1>1, <2>2
        <4> HIDE DEF j
        <4>2. /\ Slot(h, j, c) = (IF h + j < c THEN h + j ELSE h + j - c)
              /\ Slot(h, j, c) \in 0..(c - 1)
          BY <1>1, <4>1, SlotValue, ZenonT(30)
        <4> QED BY <4>2 DEF j
      <3>2. Slot(h, i - 1, c) # p BY <1>1, <1>2, <2>2, <3>1
      <3> QED BY <1>1, <1>4, <1>5, <2>2, <3>1, <3>2
    <2> QED BY <2>1, <2>2
  <1>9. Elements(e, c, h, s + 1) = [i \in 1..(s + 1) |-> IF i = s + 1 THEN v ELSE E[i]]
    BY <1>8 DEF Elements
  <1>10. Append(E, v) = [i \in 1..(s + 1) |-> IF i = s + 1 THEN v ELSE E[i]]
    <2> DEFINE a == Append(E, v)
    <2>1. /\ a \in Seq(Values) /\ Len(a) = s + 1
          /\ a[s + 1] = v /\ \A i \in 1..s : a[i] = E[i]
      BY <1>1, <1>3
    <2> HIDE DEF a
    <2>2. a = [i \in 1..(s + 1) |-> a[i]] BY <1>1, <2>1
    <2>3. ASSUME NEW i \in 1..(s + 1) PROVE a[i] = (IF i = s + 1 THEN v ELSE E[i])
      <3>1. CASE i = s + 1 BY <2>1, <3>1
      <3>2. CASE i \in 1..s BY <1>1, <2>1, <3>2
      <3> QED BY <1>1, <3>1, <3>2
    <2>4. [i \in 1..(s + 1) |-> IF i = s + 1 THEN v ELSE E[i]] = [i \in 1..(s + 1) |-> a[i]]
      BY <2>3, Zenon
    <2> QED BY <2>2, <2>4, Zenon DEF a
  <1> QED BY <1>7, <1>9, <1>10 DEF E, e

-----------------------------------------------------------------------------
(* The inductive invariant *)

Ok(q) ==
    /\ WellFormed(data_[q], cap_[q], head_[q], size_[q])
    /\ home[q] = (IF cap_[q] = 0 THEN NoAllocator ELSE alloc_[q])
    /\ ~alive[q] => cap_[q] = 0 /\ head_[q] = 0 /\ size_[q] = 0

Shapes ==
    /\ propagates \in BOOLEAN
    /\ alive \in [Queues -> BOOLEAN]
    /\ alloc_ \in [Queues -> Allocators]
    /\ DOMAIN home = Queues /\ home = [q \in Queues |-> home[q]]
    /\ DOMAIN cap_ = Queues /\ cap_ = [q \in Queues |-> cap_[q]]
    /\ DOMAIN head_ = Queues /\ head_ = [q \in Queues |-> head_[q]]
    /\ DOMAIN size_ = Queues /\ size_ = [q \in Queues |-> size_[q]]
    /\ DOMAIN data_ = Queues

RingInv == Shapes /\ \A q \in Queues : Ok(q)

\* The operation left q alone.
Same(q) ==
    /\ alive'[q] = alive[q] /\ alloc_'[q] = alloc_[q] /\ home'[q] = home[q]
    /\ data_'[q] = data_[q] /\ cap_'[q] = cap_[q] /\ head_'[q] = head_[q]
    /\ size_'[q] = size_[q]

\* A queue that an operation leaves alone stays as it is.
LEMMA SameOk == ASSUME NEW q \in Queues, Ok(q), Same(q)
                PROVE  Ok(q)' /\ AbstractItems'[q] = AbstractItems[q]
  BY ZenonT(30) DEF Ok, Same, AbstractItems, Content

\* The content of a queue in its lifetime.
LEMMA ContentType ==
  ASSUME NEW q \in Queues, Ok(q)
  PROVE  /\ Content(q) = Elements(data_[q], cap_[q], head_[q], size_[q])
         /\ Content(q) \in Seq(Values) /\ Len(Content(q)) = size_[q]
         /\ size_[q] \in Nat /\ cap_[q] \in Nat /\ size_[q] <= cap_[q]
         /\ alive[q] => AbstractItems[q] = Content(q) /\ AbstractItems[q] # Gone
         /\ ~alive[q] => AbstractItems[q] = Gone
  <1>1. Content(q) = Elements(data_[q], cap_[q], head_[q], size_[q]) BY DEF Content, Elements
  <1>2. Content(q) \in Seq(Values) /\ Len(Content(q)) = size_[q] BY <1>1, ElementsType DEF Ok
  <1> QED BY <1>1, <1>2, RingAssumption DEF Ok, WellFormed, AbstractItems

\* The capacity that ensure_capacity() chooses is enough.
LEMMA GrowsToFits ==
  ASSUME NEW cap \in Nat, NEW need \in Nat, NEW new, GrowsTo(cap, need, new)
  PROVE  new \in Nat /\ need <= new /\ (new # cap => new > 0)
  BY DEF GrowsTo

\* ensure_capacity() keeps what q holds, in storage of its own allocator.
LEMMA GrownOk ==
  ASSUME NEW q \in Queues, Ok(q), NEW new \in Nat, size_[q] <= new
  PROVE  /\ WellFormed(Grown(q, new), new, GrownHead(q, new), size_[q])
         /\ Elements(Grown(q, new), new, GrownHead(q, new), size_[q]) = Content(q)
  <1>1. CASE new = cap_[q] BY <1>1, ContentType DEF Ok, Grown, GrownHead
  <1>2. CASE new # cap_[q] BY <1>2, ContentType, GrowBuffer DEF Ok, Grown, GrownHead
  <1> QED BY <1>1, <1>2

-----------------------------------------------------------------------------
(* One lemma per operation: it keeps the invariant and does what Fifo says *)

\* A step that touches only q.
LEMMA OnlyOne ==
  ASSUME RingInv, NEW q \in Queues, Shapes', Ok(q)', \A r \in Queues \ {q} : Same(r)
  PROVE  /\ RingInv'
         /\ \A r \in Queues \ {q} : AbstractItems'[r] = AbstractItems[r]
  BY SameOk DEF RingInv

\* The constructor makes an empty queue.
LEMMA ConstructStep ==
  ASSUME RingInv, NEW q \in Queues, NEW a \in Allocators, Construct(q, a)
  PROVE  RingInv' /\ F!Create(q)
  <1>1. Shapes' BY DEF RingInv, Shapes, Construct
  <1>2. Ok(q) /\ ~alive[q] BY DEF RingInv, Construct
  <1>3. Ok(q)' /\ size_[q] = 0 BY <1>2 DEF RingInv, Shapes, Construct, Ok
  <1>4. \A r \in Queues \ {q} : Same(r) BY DEF RingInv, Shapes, Construct, Same
  <1>5. RingInv' /\ \A r \in Queues \ {q} : AbstractItems'[r] = AbstractItems[r]
    BY <1>1, <1>3, <1>4, OnlyOne
  <1>6. AbstractItems[q] = Gone BY <1>2 DEF AbstractItems
  <1>7. AbstractItems'[q] = << >>
    <2>1. alive'[q] /\ size_'[q] = 0 BY <1>3 DEF RingInv, Shapes, Construct
    <2> QED BY <2>1 DEF AbstractItems, Content
  <1>8. AbstractItems' = [AbstractItems EXCEPT ![q] = << >>] BY <1>5, <1>7, ZenonT(30) DEF AbstractItems
  <1> QED BY <1>5, <1>6, <1>8 DEF F!Create, F!Live

\* emplace_back() appends.
LEMMA PushStep ==
  ASSUME RingInv, NEW q \in Queues, NEW v \in Values, NEW new, Push(q, v, new)
  PROVE  RingInv' /\ F!PutLast(q, v)
  <1> DEFINE g == Grown(q, new)
             h == GrownHead(q, new)
             s == size_[q]
  <1>1. Ok(q) /\ alive[q] BY DEF RingInv, Push
  <1>2. s \in Nat /\ cap_[q] \in Nat BY <1>1, ContentType
  <1>3. new \in Nat /\ s + 1 <= new /\ (new # cap_[q] => new > 0)
    <2>1. s + 1 \in Nat BY <1>2
    <2> QED BY <1>2, <2>1, GrowsToFits DEF Push
  <1>4. WellFormed(g, new, h, s) /\ Elements(g, new, h, s) = Content(q)
    BY <1>1, <1>2, <1>3, GrownOk
  <1>5. /\ WellFormed([g EXCEPT ![Slot(h, s, new)] = v], new, h, s + 1)
        /\ Elements([g EXCEPT ![Slot(h, s, new)] = v], new, h, s + 1) = Append(Content(q), v)
    <2> HIDE DEF g, h, s
    <2>1. s < new BY <1>2, <1>3
    <2>2. /\ WellFormed(PutSlots(g, h, s, new, v), new, h, s + 1)
          /\ Elements(PutSlots(g, h, s, new, v), new, h, s + 1) = Append(Elements(g, new, h, s), v)
      BY <1>4, <2>1, PutBuffer
    <2> QED BY <1>4, <2>2, ZenonT(30) DEF PutSlots
  <1>6. Shapes' BY ZenonT(30) DEF RingInv, Shapes, Push
  <1>7. /\ data_'[q] = [g EXCEPT ![Slot(h, s, new)] = v] /\ cap_'[q] = new /\ head_'[q] = h
        /\ size_'[q] = s + 1 /\ home'[q] = GrownHome(q, new)
        /\ alive'[q] = alive[q] /\ alloc_'[q] = alloc_[q]
    BY SMTT(30) DEF RingInv, Shapes, Push
  <1>8. Ok(q)' BY <1>1, <1>2, <1>3, <1>5, <1>7 DEF Ok, GrownHome
  <1>9. \A r \in Queues \ {q} : Same(r) BY ZenonT(30) DEF RingInv, Shapes, Push, Same
  <1>10. RingInv' /\ \A r \in Queues \ {q} : AbstractItems'[r] = AbstractItems[r]
    BY <1>6, <1>8, <1>9, OnlyOne
  <1>11. AbstractItems[q] = Content(q) /\ AbstractItems[q] # Gone BY <1>1, ContentType
  <1>12. AbstractItems'[q] = Append(Content(q), v)
    BY <1>1, <1>5, <1>7, ZenonT(30) DEF AbstractItems, Content, Elements
  <1>13. AbstractItems' = [AbstractItems EXCEPT ![q] = Append(@, v)]
    BY <1>10, <1>11, <1>12, ZenonT(30) DEF AbstractItems
  <1> QED BY <1>10, <1>11, <1>13 DEF F!PutLast, F!Live

\* emplace_back() that throws loses nothing.
LEMMA PushThrowsStep ==
  ASSUME RingInv, NEW q \in Queues, NEW new, PushThrows(q, new)
  PROVE  RingInv' /\ UNCHANGED AbstractItems
  <1> DEFINE g == Grown(q, new)
             h == GrownHead(q, new)
             s == size_[q]
  <1>1. Ok(q) /\ alive[q] BY DEF RingInv, PushThrows
  <1>2. s \in Nat /\ cap_[q] \in Nat BY <1>1, ContentType
  <1>3. new \in Nat /\ s + 1 <= new /\ (new # cap_[q] => new > 0)
    <2>1. s + 1 \in Nat BY <1>2
    <2> QED BY <1>2, <2>1, GrowsToFits DEF PushThrows
  <1>4. WellFormed(g, new, h, s) /\ Elements(g, new, h, s) = Content(q)
    BY <1>1, <1>2, <1>3, GrownOk
  <1>5. Shapes' BY ZenonT(30) DEF RingInv, Shapes, PushThrows
  <1>6. /\ data_'[q] = g /\ cap_'[q] = new /\ head_'[q] = h
        /\ size_'[q] = s /\ home'[q] = GrownHome(q, new)
        /\ alive'[q] = alive[q] /\ alloc_'[q] = alloc_[q]
    BY SMTT(30) DEF RingInv, Shapes, PushThrows
  <1>7. Ok(q)' BY <1>1, <1>2, <1>3, <1>4, <1>6 DEF Ok, GrownHome
  <1>8. \A r \in Queues \ {q} : Same(r) BY ZenonT(30) DEF RingInv, Shapes, PushThrows, Same
  <1>9. RingInv' /\ \A r \in Queues \ {q} : AbstractItems'[r] = AbstractItems[r]
    BY <1>5, <1>7, <1>8, OnlyOne
  <1>10. AbstractItems'[q] = AbstractItems[q]
    BY <1>1, <1>4, <1>6, ZenonT(30) DEF AbstractItems, Content, Elements
  <1>11. AbstractItems' = AbstractItems BY <1>9, <1>10 DEF AbstractItems
  <1> QED BY <1>9, <1>11

\* Taking n elements out of q, for pop_front(), clear() and the move.
LEMMA PoppedOk ==
  ASSUME NEW q \in Queues, Ok(q), NEW n \in 0..size_[q]
  PROVE  /\ WellFormed(Popped(q, n), cap_[q], PoppedHead(q, n), size_[q] - n)
         /\ Elements(Popped(q, n), cap_[q], PoppedHead(q, n), size_[q] - n)
              = SubSeq(Content(q), n + 1, size_[q])
  <1>1. Popped(q, n) = PopSlots(data_[q], head_[q], n, cap_[q]) BY DEF Popped, PopSlots
  <1>2. PoppedHead(q, n) = PopHead(head_[q], n, size_[q], cap_[q]) BY DEF PoppedHead, PopHead
  <1>3. WellFormed(data_[q], cap_[q], head_[q], size_[q]) BY DEF Ok
  <1>4. Content(q) = Elements(data_[q], cap_[q], head_[q], size_[q]) BY ContentType
  <1> DEFINE d == data_[q]
             c == cap_[q]
             h == head_[q]
             s == size_[q]
  <1>5. n \in 0..s OBVIOUS
  <1> HIDE DEF d, c, h, s
  <1>6. /\ WellFormed(PopSlots(d, h, n, c), c, PopHead(h, n, s, c), s - n)
        /\ Elements(PopSlots(d, h, n, c), c, PopHead(h, n, s, c), s - n)
             = SubSeq(Elements(d, c, h, s), n + 1, s)
    <2>1. WellFormed(d, c, h, s) BY <1>3 DEF d, c, h, s
    <2> QED BY <1>5, <2>1, PopBuffer
  <1> QED BY <1>1, <1>2, <1>4, <1>6 DEF d, c, h, s

\* pop_front() removes the oldest element.
LEMMA PopStep ==
  ASSUME RingInv, NEW q \in Queues, pop_front(q)
  PROVE  RingInv' /\ F!TakeFirst(q)
  <1>1. Ok(q) /\ alive[q] BY DEF RingInv, pop_front
  <1>2. /\ size_[q] \in Nat /\ size_[q] > 0 /\ Content(q) \in Seq(Values)
        /\ Len(Content(q)) = size_[q]
    BY <1>1, ContentType DEF pop_front
  <1>3. 1 \in 0..size_[q] BY <1>2, SMTT(30)
  <1>4. /\ WellFormed(Popped(q, 1), cap_[q], PoppedHead(q, 1), size_[q] - 1)
        /\ Elements(Popped(q, 1), cap_[q], PoppedHead(q, 1), size_[q] - 1)
             = SubSeq(Content(q), 2, size_[q])
    BY <1>1, <1>3, PoppedOk
  <1>5. Shapes' BY ZenonT(30) DEF RingInv, Shapes, pop_front
  <1>6. /\ data_'[q] = Popped(q, 1) /\ cap_'[q] = cap_[q] /\ head_'[q] = PoppedHead(q, 1)
        /\ size_'[q] = size_[q] - 1 /\ home'[q] = home[q]
        /\ alive'[q] = alive[q] /\ alloc_'[q] = alloc_[q]
    BY SMTT(30) DEF RingInv, Shapes, pop_front
  <1>7. Ok(q)' BY <1>1, <1>4, <1>6 DEF Ok
  <1>8. \A r \in Queues \ {q} : Same(r) BY ZenonT(30) DEF RingInv, Shapes, pop_front, Same
  <1>9. RingInv' /\ \A r \in Queues \ {q} : AbstractItems'[r] = AbstractItems[r]
    BY <1>5, <1>7, <1>8, OnlyOne, SMTT(30)
  <1>10. AbstractItems[q] = Content(q) /\ AbstractItems[q] # Gone BY <1>1, ContentType
  <1>11. AbstractItems'[q] = SubSeq(Content(q), 2, size_[q])
    BY <1>1, <1>4, <1>6, ZenonT(30) DEF AbstractItems, Content, Elements
  <1>12. SubSeq(Content(q), 2, size_[q]) = Tail(Content(q)) /\ Content(q) # << >> BY <1>2
  <1>13. AbstractItems' = [AbstractItems EXCEPT ![q] = Tail(@)]
    BY <1>9, <1>10, <1>11, <1>12, ZenonT(30) DEF AbstractItems
  <1> QED BY <1>9, <1>10, <1>12, <1>13 DEF F!TakeFirst, F!Live

\* clear() removes every element.
LEMMA ClearStep ==
  ASSUME RingInv, NEW q \in Queues, clear(q)
  PROVE  RingInv' /\ F!Empty(q)
  <1>1. Ok(q) /\ alive[q] BY DEF RingInv, clear
  <1>2. size_[q] \in Nat BY <1>1, ContentType
  <1>3. size_[q] \in 0..size_[q] /\ size_[q] - size_[q] = 0 BY <1>2
  <1>4. WellFormed(Popped(q, size_[q]), cap_[q], 0, 0)
    BY <1>1, <1>3, PoppedOk DEF PoppedHead
  <1>5. Shapes' BY ZenonT(30) DEF RingInv, Shapes, clear
  <1>6. /\ data_'[q] = Popped(q, size_[q]) /\ cap_'[q] = cap_[q] /\ head_'[q] = 0
        /\ size_'[q] = 0 /\ home'[q] = home[q]
        /\ alive'[q] = alive[q] /\ alloc_'[q] = alloc_[q]
    BY SMTT(30) DEF RingInv, Shapes, clear
  <1>7. Ok(q)' BY <1>1, <1>4, <1>6 DEF Ok
  <1>8. \A r \in Queues \ {q} : Same(r) BY ZenonT(30) DEF RingInv, Shapes, clear, Same
  <1>9. RingInv' /\ \A r \in Queues \ {q} : AbstractItems'[r] = AbstractItems[r]
    BY <1>5, <1>7, <1>8, OnlyOne
  <1>10. AbstractItems[q] # Gone BY <1>1, ContentType
  <1>11. AbstractItems'[q] = << >>
    <2>1. alive'[q] /\ size_'[q] = 0 BY <1>1, <1>6
    <2> QED BY <2>1 DEF AbstractItems, Content
  <1>12. AbstractItems' = [AbstractItems EXCEPT ![q] = << >>] BY <1>9, <1>11, ZenonT(30) DEF AbstractItems
  <1> QED BY <1>9, <1>10, <1>12 DEF F!Empty, F!Live

\* The destructor ends the lifetime and leaves no storage.
LEMMA DestroyStep ==
  ASSUME RingInv, NEW q \in Queues, Destroy(q)
  PROVE  RingInv' /\ F!Discard(q)
  <1>1. Ok(q) /\ alive[q] BY DEF RingInv, Destroy
  <1>2. Shapes' BY ZenonT(30) DEF RingInv, Shapes, Destroy
  <1>3. /\ data_'[q] = NoSlots /\ cap_'[q] = 0 /\ head_'[q] = 0 /\ size_'[q] = 0
        /\ home'[q] = NoAllocator /\ ~alive'[q]
    BY DEF RingInv, Shapes, Destroy
  <1>4. Ok(q)' BY <1>3, NoStorage DEF Ok
  <1>5. \A r \in Queues \ {q} : Same(r) BY ZenonT(30) DEF RingInv, Shapes, Destroy, Same
  <1>6. RingInv' /\ \A r \in Queues \ {q} : AbstractItems'[r] = AbstractItems[r]
    BY <1>2, <1>4, <1>5, OnlyOne
  <1>7. AbstractItems[q] # Gone BY <1>1, ContentType
  <1>8. AbstractItems'[q] = Gone BY <1>3 DEF AbstractItems
  <1>9. AbstractItems' = [AbstractItems EXCEPT ![q] = Gone] BY <1>6, <1>8, ZenonT(30) DEF AbstractItems
  <1> QED BY <1>6, <1>7, <1>9 DEF F!Discard, F!Live

\* A step that hands n elements of src to dst, both in their lifetime after it.
LEMMA TransferStep ==
  ASSUME RingInv, NEW dst \in Queues, NEW src \in Queues, dst # src, alive[src],
         NEW n \in 0..size_[src], Shapes', Ok(dst)', Ok(src)', alive'[dst], alive'[src],
         Content(dst)' = SubSeq(Content(src), 1, n),
         Content(src)' = SubSeq(Content(src), n + 1, size_[src]),
         \A r \in Queues \ {dst, src} : Same(r)
  PROVE  RingInv' /\ F!FifoNext
  <1>1. Ok(src) BY DEF RingInv
  <1>2. \A r \in Queues \ {dst, src} : Ok(r)' /\ AbstractItems'[r] = AbstractItems[r]
    BY SameOk DEF RingInv
  <1>3. RingInv' BY <1>2, SMTT(30) DEF RingInv
  <1>4. /\ AbstractItems[src] = Content(src) /\ AbstractItems[src] # Gone
        /\ Len(Content(src)) = size_[src]
    BY <1>1, ContentType
  <1>5. /\ AbstractItems'[dst] = SubSeq(Content(src), 1, n)
        /\ AbstractItems'[src] = SubSeq(Content(src), n + 1, size_[src])
    BY SMTT(30) DEF AbstractItems
  <1>6. AbstractItems' = [AbstractItems EXCEPT
                            ![dst] = SubSeq(AbstractItems[src], 1, n),
                            ![src] = SubSeq(AbstractItems[src], n + 1, Len(AbstractItems[src]))]
    BY <1>2, <1>4, <1>5, ZenonT(30) DEF AbstractItems
  <1>7. F!Transfer(dst, src, n) BY <1>4, <1>6, ZenonT(30) DEF F!Transfer, F!Live
  <1>8. n \in 0..Len(AbstractItems[src]) BY <1>4
  <1> QED BY <1>3, <1>4, <1>7, <1>8 DEF F!FifoNext, F!Live

\* Taking over the storage of src hands over all its elements, in their slots.
LEMMA StealStep ==
  ASSUME RingInv, NEW dst \in Queues, NEW src \in Queues, dst # src, alive[src],
         steal_storage(dst, src), Shapes', alive'[dst], alive'[src],
         alloc_'[dst] = alloc_[src], alloc_'[src] = alloc_[src],
         \A r \in Queues \ {dst, src} : alive'[r] = alive[r] /\ alloc_'[r] = alloc_[r]
  PROVE  RingInv' /\ F!FifoNext
  <1>1. Ok(src) BY DEF RingInv
  <1>2. /\ data_'[dst] = data_[src] /\ cap_'[dst] = cap_[src] /\ head_'[dst] = head_[src]
        /\ size_'[dst] = size_[src] /\ home'[dst] = home[src]
    BY DEF steal_storage, RingInv, Shapes
  <1>3. /\ data_'[src] = NoSlots /\ cap_'[src] = 0 /\ head_'[src] = 0
        /\ size_'[src] = 0 /\ home'[src] = NoAllocator
    BY SMTT(30) DEF steal_storage, RingInv, Shapes
  <1>4. \A r \in Queues \ {dst, src} : Same(r) BY DEF Same, steal_storage, RingInv, Shapes
  <1>5. Ok(dst)' BY <1>1, <1>2, SMTT(30) DEF Ok
  <1>6. Ok(src)' BY <1>3, NoStorage, SMTT(30) DEF Ok
  <1>7. Content(src) \in Seq(Values) /\ Len(Content(src)) = size_[src] /\ size_[src] \in Nat
    BY <1>1, ContentType
  <1>8. Content(dst)' = SubSeq(Content(src), 1, size_[src])
    <2>1. Content(dst)' = Content(src) BY <1>2, SMTT(30) DEF Content
    <2>2. SubSeq(Content(src), 1, size_[src]) = Content(src) BY <1>7
    <2> QED BY <2>1, <2>2, SMTT(30)
  <1>9. Content(src)' = SubSeq(Content(src), size_[src] + 1, size_[src])
    <2>1. Content(src)' = << >> BY <1>3 DEF Content
    <2>2. SubSeq(Content(src), size_[src] + 1, size_[src]) = << >> BY <1>7
    <2> QED BY <2>1, <2>2, ZenonT(30)
  <1>10. size_[src] \in 0..size_[src] BY <1>7
  <1> QED BY <1>4, <1>5, <1>6, <1>8, <1>9, <1>10, TransferStep, SMTT(30)

\* The move constructor and the two assignments that take over the storage.
LEMMA StealingMoves ==
  ASSUME RingInv, NEW dst \in Queues, NEW src \in Queues,
         \/ MoveConstruct(dst, src)
         \/ MoveAssignPropagating(dst, src)
         \/ MoveAssignStealing(dst, src)
  PROVE  RingInv' /\ F!FifoNext
  <1>1. CASE MoveConstruct(dst, src)
    <2>1. dst # src /\ alive[src] /\ steal_storage(dst, src) BY <1>1, SMTT(30) DEF MoveConstruct
    <2>2. Shapes' BY <1>1, ZenonT(30) DEF RingInv, Shapes, MoveConstruct, steal_storage
    <2>3. /\ alive'[dst] /\ alive'[src] /\ alloc_'[dst] = alloc_[src] /\ alloc_'[src] = alloc_[src]
          /\ \A r \in Queues \ {dst, src} : alive'[r] = alive[r] /\ alloc_'[r] = alloc_[r]
      BY <1>1, <2>1, ZenonT(30) DEF RingInv, Shapes, MoveConstruct
    <2> QED BY <2>1, <2>2, <2>3, StealStep
  <1>2. CASE MoveAssignPropagating(dst, src)
    <2>1. dst # src /\ alive[src] /\ steal_storage(dst, src) BY <1>2, SMTT(30) DEF MoveAssignPropagating
    <2>2. Shapes' BY <1>2, ZenonT(30) DEF RingInv, Shapes, MoveAssignPropagating, steal_storage
    <2>3. /\ alive'[dst] /\ alive'[src] /\ alloc_'[dst] = alloc_[src] /\ alloc_'[src] = alloc_[src]
          /\ \A r \in Queues \ {dst, src} : alive'[r] = alive[r] /\ alloc_'[r] = alloc_[r]
      BY <1>2, <2>1, SMTT(30) DEF RingInv, Shapes, MoveAssignPropagating
    <2> QED BY <2>1, <2>2, <2>3, StealStep
  <1>3. CASE MoveAssignStealing(dst, src)
    <2>1. dst # src /\ alive[src] /\ steal_storage(dst, src) BY <1>3 DEF MoveAssignStealing
    <2>2. Shapes' BY <1>3, ZenonT(30) DEF RingInv, Shapes, MoveAssignStealing, steal_storage
    <2>3. /\ alive'[dst] /\ alive'[src] /\ alloc_'[dst] = alloc_[src] /\ alloc_'[src] = alloc_[src]
          /\ \A r \in Queues \ {dst, src} : alive'[r] = alive[r] /\ alloc_'[r] = alloc_[r]
      BY <1>3, <2>1 DEF RingInv, Shapes, MoveAssignStealing, can_steal_storage_from
    <2> QED BY <2>1, <2>2, <2>3, StealStep
  <1> QED BY <1>1, <1>2, <1>3

\* The element-wise assignment, complete or interrupted.
LEMMA MoveElementsStep ==
  ASSUME RingInv, NEW dst \in Queues, NEW src \in Queues, NEW n, NEW new,
         MoveAssignElements(dst, src, n, new)
  PROVE  RingInv' /\ F!FifoNext
  <1> DEFINE E == Content(src)
             e == [i \in 0..(new - 1) |-> IF i < n THEN E[i + 1] ELSE Raw]
  <1>1. Ok(dst) /\ Ok(src) /\ dst # src /\ alive[dst] /\ alive[src] /\ n \in 0..size_[src]
    BY SMTT(30) DEF RingInv, MoveAssignElements
  <1>2. /\ E \in Seq(Values) /\ Len(E) = size_[src] /\ size_[src] \in Nat
        /\ cap_[dst] \in Nat
    BY <1>1, ContentType
  <1>3. new \in Nat /\ n <= new /\ (new # cap_[dst] => new > 0)
    <2>1. n \in Nat /\ n + 1 \in Nat BY <1>1, <1>2
    <2>2. CASE GrowsTo(cap_[dst], n, new) BY <1>2, <2>1, <2>2, GrowsToFits
    <2>3. CASE GrowsTo(cap_[dst], n + 1, new)
      <3>1. new \in Nat /\ n + 1 <= new /\ (new # cap_[dst] => new > 0)
        BY <1>2, <2>1, <2>3, GrowsToFits
      <3> QED BY <2>1, <3>1, SMTT(30)
    <2> QED BY <2>2, <2>3, SMTT(30) DEF MoveAssignElements
  <1>4. WellFormed(e, new, 0, n) /\ Elements(e, new, 0, n) = SubSeq(E, 1, n)
    <2>1. n \in 0..Len(E) BY <1>1, <1>2, SMTT(30)
    <2> HIDE DEF E
    <2> QED BY <1>2, <1>3, <2>1, FillBuffer, ZenonT(30)
  <1>5. /\ WellFormed(Popped(src, n), cap_[src], PoppedHead(src, n), size_[src] - n)
        /\ Elements(Popped(src, n), cap_[src], PoppedHead(src, n), size_[src] - n)
             = SubSeq(E, n + 1, size_[src])
    BY <1>1, PoppedOk
  <1>6. /\ data_'[dst] = e /\ cap_'[dst] = new /\ head_'[dst] = 0 /\ size_'[dst] = n
        /\ home'[dst] = GrownHome(dst, new) /\ alive'[dst] /\ alloc_'[dst] = alloc_[dst]
    BY <1>1, ZenonT(30) DEF RingInv, Shapes, MoveAssignElements
  <1>7. /\ data_'[src] = Popped(src, n) /\ cap_'[src] = cap_[src]
        /\ head_'[src] = PoppedHead(src, n) /\ size_'[src] = size_[src] - n
        /\ home'[src] = home[src] /\ alive'[src] /\ alloc_'[src] = alloc_[src]
    BY <1>1, ZenonT(30) DEF RingInv, Shapes, MoveAssignElements
  <1> HIDE DEF e, E
  <1>8. Ok(dst)' BY <1>1, <1>3, <1>4, <1>6, SMTT(30) DEF Ok, GrownHome
  <1>9. Ok(src)' BY <1>1, <1>5, <1>7, SMTT(30) DEF Ok
  <1>10. Content(dst)' = SubSeq(E, 1, n) BY <1>4, <1>6, SMTT(30) DEF Content, Elements
  <1>11. Content(src)' = SubSeq(E, n + 1, size_[src]) BY <1>5, <1>7 DEF Content, Elements
  <1>12. Shapes' BY ZenonT(30) DEF RingInv, Shapes, MoveAssignElements
  <1>13. \A r \in Queues \ {dst, src} : Same(r)
    BY ZenonT(30) DEF RingInv, Shapes, MoveAssignElements, Same
  <1> QED
    BY <1>1, <1>6, <1>7, <1>8, <1>9, <1>10, <1>11, <1>12, <1>13, TransferStep, ZenonT(30) DEF E

-----------------------------------------------------------------------------
(* Theorems *)

\* Every step keeps the invariant and is a step of the FIFO, or leaves it alone.
LEMMA RingStep ==
  ASSUME RingInv, [RingNext]_vars
  PROVE  RingInv' /\ [F!FifoNext]_AbstractItems
  <1>1. CASE UNCHANGED vars
    <2>1. \A q \in Queues : Same(q) BY <1>1 DEF Same, vars
    <2>2. Shapes' BY <1>1 DEF vars, RingInv, Shapes
    <2>3. RingInv' BY <2>1, <2>2, SameOk DEF RingInv
    <2>4. AbstractItems' = AbstractItems BY <1>1 DEF AbstractItems, Content, vars
    <2> QED BY <2>3, <2>4, SMTT(30)
  <1>2. ASSUME NEW q \in Queues, NEW a \in Allocators, Construct(q, a)
        PROVE  RingInv' /\ F!FifoNext
    BY <1>2, ConstructStep DEF F!FifoNext
  <1>3. ASSUME NEW q \in Queues, pop_front(q) \/ clear(q) \/ Destroy(q)
        PROVE  RingInv' /\ F!FifoNext
    BY <1>3, PopStep, ClearStep, DestroyStep DEF F!FifoNext
  <1>4. ASSUME NEW q \in Queues, NEW v \in Values, NEW new, Push(q, v, new)
        PROVE  RingInv' /\ F!FifoNext
    BY <1>4, PushStep DEF F!FifoNext
  <1>5. ASSUME NEW q \in Queues, NEW new, PushThrows(q, new)
        PROVE  RingInv' /\ UNCHANGED AbstractItems
    BY <1>5, PushThrowsStep
  <1>6. ASSUME NEW dst \in Queues, NEW src \in Queues,
               \/ MoveConstruct(dst, src)
               \/ MoveAssignPropagating(dst, src)
               \/ MoveAssignStealing(dst, src)
        PROVE  RingInv' /\ F!FifoNext
    BY <1>6, StealingMoves
  <1>7. ASSUME NEW dst \in Queues, NEW src \in Queues, NEW n, NEW new,
               MoveAssignElements(dst, src, n, new)
        PROVE  RingInv' /\ F!FifoNext
    BY <1>7, MoveElementsStep
  <1> QED BY <1>1, <1>2, <1>3, <1>4, <1>5, <1>6, <1>7 DEF RingNext

\* The invariant holds at first, when no queue is in its lifetime.
LEMMA RingStarts == ASSUME RingInit PROVE RingInv /\ F!FifoInit
  <1>1. Shapes BY DEF RingInit, Shapes
  <1>2. ASSUME NEW q \in Queues PROVE Ok(q)
    BY NoStorage DEF RingInit, Ok
  <1>3. AbstractItems = [q \in Queues |-> Gone] BY DEF RingInit, AbstractItems
  <1> QED BY <1>1, <1>2, <1>3 DEF RingInv, F!FifoInit

\* The invariant gives the properties that are checked.
LEMMA RingInvGives == ASSUME RingInv PROVE RingTypeOK /\ LiveSlots /\ StorageHome
  <1>1. StorageHome BY DEF RingInv, Ok, StorageHome
  <1>2. LiveSlots BY DEF RingInv, Ok, WellFormed, LiveSlots
  <1>3. \A q \in Queues :
          /\ cap_[q] \in Nat /\ head_[q] \in Nat /\ size_[q] \in Nat
          /\ data_[q] \in [0..(cap_[q] - 1) -> Values \cup {Raw}]
          /\ home[q] \in Allocators \cup {NoAllocator}
    BY DEF RingInv, Shapes, Ok, WellFormed
  <1>4. RingTypeOK BY <1>3 DEF RingInv, Shapes, RingTypeOK
  <1> QED BY <1>1, <1>2, <1>4

\* data_, head_, size_ and cap_ keep their shape in every ring: the elements fit
\* the allocated cells, in every sequence of pushes, pops, growth, moves and swaps.
THEOREM RingsKeepShape == RingSpec => []RingTypeOK
  <1>1. RingInit => RingInv BY RingStarts
  <1>2. RingInv /\ [RingNext]_vars => RingInv' BY RingStep
  <1>3. RingInv => RingTypeOK BY RingInvGives
  <1> QED BY <1>1, <1>2, <1>3, PTL DEF RingSpec

\* The elements of a ring are exactly its constructed cells, whatever the sequence
\* of operations.
THEOREM SlotsStayLive == RingSpec => []LiveSlots
  <1>1. RingInit => RingInv BY RingStarts
  <1>2. RingInv /\ [RingNext]_vars => RingInv' BY RingStep
  <1>3. RingInv => LiveSlots BY RingInvGives
  <1> QED BY <1>1, <1>2, <1>3, PTL DEF RingSpec

\* Storage is always freed through an allocator equal to the one it came from.
THEOREM StorageFindsHome == RingSpec => []StorageHome
  <1>1. RingInit => RingInv BY RingStarts
  <1>2. RingInv /\ [RingNext]_vars => RingInv' BY RingStep
  <1>3. RingInv => StorageHome BY RingInvGives
  <1> QED BY <1>1, <1>2, <1>3, PTL DEF RingSpec

\* ring_queue implements the FIFO the pipeline relies on.
THEOREM RingIsFifo == RingSpec => ImplementsFifo
  <1>1. RingInit => RingInv /\ F!FifoInit BY RingStarts
  <1>2. RingInv /\ [RingNext]_vars => RingInv' /\ [F!FifoNext]_AbstractItems BY RingStep
  <1> QED BY <1>1, <1>2, PTL DEF RingSpec, ImplementsFifo, F!FifoSpec

=============================================================================
