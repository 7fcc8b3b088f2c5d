-------------------------- MODULE ParserTreeProofs --------------------------
(*******************************************************************************)
(* The tree that parse_one() builds.  It is complete but for the containers    *)
(* under way (TreeInv): each of those is driven by one frame, which counts its *)
(* links, and no link names one of them.                                       *)
(*******************************************************************************)
EXTENDS ParserStateProofs

-----------------------------------------------------------------------------
(* The invariant *)

\* The links of node n come before link q.
Before(tr, n, q) ==
    /\ tr.nodes[n].first_child + tr.nodes[n].child_count <= q
    /\ tr.nodes[n].first_attr + tr.nodes[n].attr_count <= q

\* The containers under way, and the keys that wait for their values.
Open(st) == {st[j].node : j \in {i \in 1..Len(st) : Holds(st[i])}}
Keys(st) == {st[j].pending_key : j \in {i \in 1..Len(st) : st[i].pending_key # 0}}

\* Node f.node is the container that frame f drives.
Drives(tr, f) ==
    /\ f.node \in 1..Len(tr.nodes)
    /\ tr.nodes[f.node].len = f.expected
    /\ IF f.state = "array"
         THEN tr.nodes[f.node].kind \in Sequential /\ tr.nodes[f.node].child_count = f.produced
         ELSE tr.nodes[f.node].kind = "map" /\ tr.nodes[f.node].child_count = 2 * f.produced

\* The windows of a node lie within the links, and are complete unless it is open.
NodeOK(tr, n) ==
    /\ Before(tr, n, Len(tr.links) + 1)
    /\ tr.nodes[n].kind # "attribute" /\ tr.nodes[n].attr_count % 2 = 0

NodesOK(tr, open) ==
    \A n \in 1..Len(tr.nodes) :
        NodeOK(tr, n) /\ (n \notin open => tr.nodes[n].child_count = Inner(tr.nodes[n]))

\* A link names a node that is complete, and of which the own links come before.
LinksOK(tr, open) ==
    \A q \in 1..Len(tr.links) :
        tr.links[q] \in (1..Len(tr.nodes)) \ open /\ Before(tr, tr.links[q], q)

FramesOK(tr, st) ==
    /\ \A j \in 1..Len(st) : Holds(st[j]) => Drives(tr, st[j])
    /\ Keys(st) \subseteq (1..Len(tr.nodes)) \ Open(st)
    /\ \A i, j \in 1..Len(st) :
          Holds(st[i]) /\ Holds(st[j]) /\ i # j => st[i].node # st[j].node

AttrsOK(tr, pa) == pa.first + pa.count <= Len(tr.links) + 1 /\ pa.count % 2 = 0

TreeOK(tr, st) == NodesOK(tr, Open(st)) /\ LinksOK(tr, Open(st)) /\ FramesOK(tr, st)

TreeInv ==
    /\ TreeOK(tree_, stack_) /\ AttrsOK(tree_, pending_attrs_)
    /\ pc \in {"attach", "consume"} => child \in (1..Len(tree_.nodes)) \ Open(stack_)

-----------------------------------------------------------------------------
(* The tree *)

LEMMA OpenPush ==
  ASSUME NEW st \in Seq(Frames), NEW f \in Frames
  PROVE  /\ Open(Append(st, f)) = Open(st) \cup (IF Holds(f) THEN {f.node} ELSE {})
         /\ Keys(Append(st, f)) = Keys(st) \cup (IF f.pending_key # 0 THEN {f.pending_key} ELSE {})
  <1> DEFINE q == Append(st, f)
             n == Len(st)
  <1>1. n \in Nat /\ Len(q) = n + 1 /\ q[n + 1] = f /\ \A j \in 1..n : q[j] = st[j]
    BY PushedParts, Zenon
  <1>2. \A j \in 1..(n + 1) : j \in 1..n \/ j = n + 1 BY <1>1
  <1>3. 1..n \subseteq 1..(n + 1) /\ n + 1 \in 1..(n + 1) BY <1>1
  <1> HIDE DEF q
  <1>4. ASSUME NEW x PROVE x \in Open(q) <=> x \in Open(st) \/ (Holds(f) /\ x = f.node)
    <2>1. x \in Open(q) <=> \E j \in 1..(n + 1) : Holds(q[j]) /\ x = q[j].node
      BY <1>1, Zenon DEF Open
    <2>2. x \in Open(st) <=> \E j \in 1..n : Holds(st[j]) /\ x = st[j].node BY Zenon DEF Open
    <2> HIDE DEF n
    <2> QED BY <1>1, <1>2, <1>3, <2>1, <2>2, Zenon
  <1>5. ASSUME NEW x
        PROVE  x \in Keys(q) <=> x \in Keys(st) \/ (f.pending_key # 0 /\ x = f.pending_key)
    <2>1. x \in Keys(q) <=> \E j \in 1..(n + 1) : q[j].pending_key # 0 /\ x = q[j].pending_key
      BY <1>1, Zenon DEF Keys
    <2>2. x \in Keys(st) <=> \E j \in 1..n : st[j].pending_key # 0 /\ x = st[j].pending_key
      BY Zenon DEF Keys
    <2> HIDE DEF n
    <2> QED BY <1>1, <1>2, <1>3, <2>1, <2>2, Zenon
  <1>6. Open(q) = Open(st) \cup (IF Holds(f) THEN {f.node} ELSE {})
    <2>1. CASE Holds(f) BY <1>4, <2>1, Zenon
    <2>2. CASE ~Holds(f) BY <1>4, <2>2, Zenon
    <2> QED BY <2>1, <2>2
  <1>7. Keys(q) = Keys(st) \cup (IF f.pending_key # 0 THEN {f.pending_key} ELSE {})
    <2>1. CASE f.pending_key # 0
      <3> DEFINE k == f.pending_key
      <3>1. \A x : x \in Keys(q) <=> x \in Keys(st) \/ x = k BY <1>5, <2>1, Zenon
      <3> HIDE DEF k
      <3>2. Keys(q) = Keys(st) \cup {k} BY <3>1
      <3> QED BY <2>1, <3>2, Zenon DEF k
    <2>2. CASE f.pending_key = 0 BY <1>5, <2>2, Zenon
    <2> QED BY <2>1, <2>2
  <1> QED BY <1>6, <1>7, Zenon DEF q

LEMMA StackSplit ==
  ASSUME NEW st \in Seq(Frames), st # <<>>
  PROVE  /\ pop_back(st) \in Seq(Frames) /\ back(st) \in Frames
         /\ st = Append(pop_back(st), back(st))
  <1> DEFINE r == pop_back(st)
             q == Append(r, back(st))
  <1>1. /\ Len(st) \in Nat /\ Len(st) > 0
        /\ back(st) \in Frames /\ back(st) = st[Len(st)]
        /\ r \in Seq(Frames) /\ Len(r) = Len(st) - 1
        /\ \A j \in 1..(Len(st) - 1) : r[j] = st[j]
    BY TopFacts, Zenon
  <1>2. /\ q \in Seq(Frames) /\ Len(q) = Len(r) + 1
        /\ \A j \in 1..Len(r) : q[j] = r[j]
        /\ q[Len(r) + 1] = back(st)
    <2> DEFINE f == back(st)
    <2>1. r \in Seq(Frames) /\ f \in Frames BY <1>1, Zenon
    <2> HIDE DEF f, r
    <2> QED BY <2>1, PushFacts, ZenonT(30) DEF f
  <1> HIDE DEF q, r
  <1>3. Len(q) = Len(st) BY <1>1, <1>2
  <1>4. \A j \in 1..Len(st) : q[j] = st[j]
    <2> SUFFICES ASSUME NEW j \in 1..Len(st) PROVE q[j] = st[j] OBVIOUS
    <2>1. j \in 1..Len(r) \/ j = Len(r) + 1 BY <1>1
    <2>2. j = Len(r) + 1 => j = Len(st) BY <1>1
    <2>3. j \in 1..Len(r) => j \in 1..(Len(st) - 1) BY <1>1
    <2> QED BY <1>1, <1>2, <2>1, <2>2, <2>3, Zenon
  <1>5. q = st BY <1>2, <1>3, <1>4, SeqEqual, Zenon
  <1> QED BY <1>1, <1>5, Zenon DEF q, r

\* What a frame on top of the others adds to FramesOK.
OnTop(tr, st, f) ==
    /\ Holds(f) => Drives(tr, f) /\ f.node \notin Open(st) /\ f.node \notin Keys(st)
    /\ f.pending_key # 0 => /\ f.pending_key \in (1..Len(tr.nodes)) \ Open(st)
                            /\ Holds(f) => f.node # f.pending_key

LEMMA FramesPush ==
  ASSUME NEW st \in Seq(Frames), NEW f \in Frames, NEW tr
  PROVE  FramesOK(tr, Append(st, f)) <=> FramesOK(tr, st) /\ OnTop(tr, st, f)
  <1> DEFINE q == Append(st, f)
             n == Len(st)
             N == 1..Len(tr.nodes)
             Driven(s) == \A j \in 1..Len(s) : Holds(s[j]) => Drives(tr, s[j])
             Apart(s) == \A i, j \in 1..Len(s) :
                           Holds(s[i]) /\ Holds(s[j]) /\ i # j => s[i].node # s[j].node
  <1>1. n \in Nat /\ Len(q) = n + 1 /\ q[n + 1] = f /\ \A j \in 1..n : q[j] = st[j]
    BY PushedParts, Zenon
  <1>2. \A j \in 1..(n + 1) : j \in 1..n \/ j = n + 1 BY <1>1
  <1>3. 1..n \subseteq 1..(n + 1) /\ n + 1 \in 1..(n + 1) /\ \A j \in 1..n : j # n + 1 BY <1>1
  <1>4. /\ Open(q) = Open(st) \cup (IF Holds(f) THEN {f.node} ELSE {})
        /\ Keys(q) = Keys(st) \cup (IF f.pending_key # 0 THEN {f.pending_key} ELSE {})
    BY OpenPush, Zenon
  <1> HIDE DEF q
  <1>5. Driven(q) <=> Driven(st) /\ (Holds(f) => Drives(tr, f))
    <2> DEFINE m == n + 1
    <2>1. Driven(q) <=> \A j \in 1..m : Holds(q[j]) => Drives(tr, q[j]) BY <1>1, Zenon
    <2>2. Driven(st) <=> \A j \in 1..n : Holds(st[j]) => Drives(tr, st[j]) BY Zenon
    <2> HIDE DEF n, m
    <2> QED BY <1>1, <1>2, <1>3, <2>1, <2>2, Zenon DEF m
  <1>6. Apart(q) <=> Apart(st) /\ (Holds(f) => f.node \notin Open(st))
    <2> DEFINE m == n + 1
    <2>1. Apart(q) <=> \A i, j \in 1..m : Holds(q[i]) /\ Holds(q[j]) /\ i # j => q[i].node # q[j].node
      BY <1>1, Zenon
    <2>2. Apart(st) <=>
            \A i, j \in 1..n : Holds(st[i]) /\ Holds(st[j]) /\ i # j => st[i].node # st[j].node
      BY Zenon
    <2>3. f.node \in Open(st) <=> \E j \in 1..n : Holds(st[j]) /\ f.node = st[j].node
      BY Zenon DEF Open
    <2> HIDE DEF n, m, Apart
    <2>4. Apart(q) => Apart(st) BY <1>1, <1>3, <2>1, <2>2, Zenon DEF m
    <2>5. Apart(q) /\ Holds(f) => f.node \notin Open(st) BY <1>1, <1>3, <2>1, <2>3, Zenon DEF m
    <2>6. Apart(st) /\ (Holds(f) => f.node \notin Open(st)) => Apart(q)
      <3> SUFFICES ASSUME Apart(st), Holds(f) => f.node \notin Open(st),
                          NEW i \in 1..m, NEW j \in 1..m, Holds(q[i]), Holds(q[j]), i # j
                   PROVE  q[i].node # q[j].node
        BY <2>1, Zenon
      <3>1. (i \in 1..n \/ i = m) /\ (j \in 1..n \/ j = m) BY <1>2, Zenon DEF m
      <3>2. CASE i \in 1..n /\ j \in 1..n BY <1>1, <2>2, <3>2, Zenon
      <3>3. CASE i \in 1..n /\ j = m BY <1>1, <2>3, <3>3, Zenon DEF m
      <3>4. CASE i = m /\ j \in 1..n BY <1>1, <2>3, <3>4, Zenon DEF m
      <3> QED BY <3>1, <3>2, <3>3, <3>4
    <2> QED BY <2>4, <2>5, <2>6
  <1>7. Keys(q) \subseteq N \ Open(q) <=>
          /\ Keys(st) \subseteq N \ Open(st)
          /\ Holds(f) => f.node \notin Keys(st)
          /\ f.pending_key # 0 => f.pending_key \in N \ Open(st) /\ (Holds(f) => f.node # f.pending_key)
    <2> HIDE DEF N
    <2>1. CASE Holds(f) /\ f.pending_key # 0 BY <1>4, <2>1, Zenon
    <2>2. CASE Holds(f) /\ f.pending_key = 0 BY <1>4, <2>2, Zenon
    <2>3. CASE ~Holds(f) /\ f.pending_key # 0 BY <1>4, <2>3, Zenon
    <2>4. CASE ~Holds(f) /\ f.pending_key = 0 BY <1>4, <2>4, Zenon
    <2> QED BY <2>1, <2>2, <2>3, <2>4
  <1>8. FramesOK(tr, q) <=> Driven(q) /\ Keys(q) \subseteq N \ Open(q) /\ Apart(q)
    BY Zenon DEF FramesOK
  <1>9. FramesOK(tr, st) <=> Driven(st) /\ Keys(st) \subseteq N \ Open(st) /\ Apart(st)
    BY Zenon DEF FramesOK
  <1>10. OnTop(tr, st, f) <=>
           /\ Holds(f) => Drives(tr, f) /\ f.node \notin Open(st) /\ f.node \notin Keys(st)
           /\ f.pending_key # 0 => f.pending_key \in N \ Open(st) /\ (Holds(f) => f.node # f.pending_key)
    BY Zenon DEF OnTop
  <1> HIDE DEF Driven, Apart, N
  <1>11. FramesOK(tr, q) <=> FramesOK(tr, st) /\ OnTop(tr, st, f)
    BY <1>5, <1>6, <1>7, <1>8, <1>9, <1>10
  <1> QED BY <1>11, Zenon DEF q

\* A frame that holds no container, and keeps no key.
LEMMA IdlePush ==
  ASSUME NEW st \in Seq(Frames), NEW f \in Frames, ~Holds(f), f.pending_key = 0, NEW tr
  PROVE  /\ TreeOK(tr, Append(st, f)) <=> TreeOK(tr, st)
         /\ Open(Append(st, f)) = Open(st)
  <1>1. Open(Append(st, f)) = Open(st)
    <2>1. Open(Append(st, f)) = Open(st) \cup {} BY OpenPush, Zenon
    <2> QED BY <2>1, Zenon
  <1>2. OnTop(tr, st, f) BY Zenon DEF OnTop
  <1>3. FramesOK(tr, Append(st, f)) <=> FramesOK(tr, st) BY <1>2, FramesPush, Zenon
  <1> QED BY <1>1, <1>3, Zenon DEF TreeOK

LEMMA ValueIdle == ValueFrame \in Frames /\ ~Holds(ValueFrame) /\ ValueFrame.pending_key = 0
  <1>1. ValueFrame.state = "value" /\ ValueFrame.pending_key = 0 BY DEF ValueFrame, Frame
  <1> QED BY <1>1, EmptyTypes DEF Holds

\* The frames stay right as long as the open containers do not change.
LEMMA FramesKept ==
  ASSUME NEW st \in Seq(Frames), NEW old, NEW new, FramesOK(old, st),
         1..Len(old.nodes) \subseteq 1..Len(new.nodes),
         \A m \in 1..Len(old.nodes) : m \in Open(st) => new.nodes[m] = old.nodes[m]
  PROVE  FramesOK(new, st)
  <1>1. ASSUME NEW j \in 1..Len(st), Holds(st[j]) PROVE Drives(new, st[j])
    <2>1. Drives(old, st[j]) /\ st[j].node \in Open(st) BY <1>1, Zenon DEF FramesOK, Open
    <2>2. st[j].node \in 1..Len(old.nodes) BY <2>1, Zenon DEF Drives
    <2>3. new.nodes[st[j].node] = old.nodes[st[j].node] /\ st[j].node \in 1..Len(new.nodes)
      BY <2>1, <2>2, Zenon
    <2> QED BY <2>1, <2>3, Zenon DEF Drives
  <1>2. Keys(st) \subseteq (1..Len(new.nodes)) \ Open(st) BY Zenon DEF FramesOK
  <1> QED BY <1>1, <1>2, Zenon DEF FramesOK

\* A node is added: with a child still to come it is open, otherwise it is complete.
LEMMA AddedOK ==
  ASSUME tree_ \in Trees, NEW r \in Nodes, NEW tr, tr = [tree_ EXCEPT !.nodes = Append(@, r)],
         NEW open, NodesOK(tree_, open), LinksOK(tree_, open),
         r.kind # "attribute", r.child_count = 0, r.first_child <= Len(tree_.links) + 1,
         r.first_attr + r.attr_count <= Len(tree_.links) + 1, r.attr_count % 2 = 0
  PROVE  /\ NodesOK(tr, open \cup {NewIndex}) /\ LinksOK(tr, open \cup {NewIndex})
         /\ Inner(r) = 0 => NodesOK(tr, open) /\ LinksOK(tr, open)
  <1> DEFINE N == Len(tree_.nodes)
             M == NewIndex
             q == Len(tree_.links) + 1
  <1>1. /\ tr.links = tree_.links /\ Len(tr.nodes) = M
        /\ \A n \in 1..N : tr.nodes[n] = tree_.nodes[n]
        /\ tr.nodes[M] = r
    BY AddFacts
  <1>2. N \in Nat /\ M \in Nat /\ M = N + 1 BY AddFacts, Zenon
  <1> HIDE DEF N, M
  <1>3. \A n \in 1..M : n \in 1..N \/ n = M BY <1>2
  <1>4. 1..N \subseteq 1..M /\ \A n \in 1..N : n # M BY <1>2
  <1>5. NodeOK(tr, M)
    <2>1. r.first_child \in Nat /\ r.child_count \in Nat BY DEF Nodes
    <2>2. r.first_child + r.child_count <= q BY <2>1
    <2> QED BY <1>1, <2>2, Zenon DEF NodeOK, Before
  <1>6. ASSUME NEW n \in 1..N
        PROVE  NodeOK(tr, n) /\ (n \notin open => tr.nodes[n].child_count = Inner(tr.nodes[n]))
    <2>1. NodeOK(tree_, n) /\ (n \notin open => tree_.nodes[n].child_count = Inner(tree_.nodes[n]))
      BY Zenon DEF NodesOK, N
    <2>2. NodeOK(tr, n) BY <1>1, <2>1, Zenon DEF NodeOK, Before
    <2>3. tr.nodes[n] = tree_.nodes[n] BY <1>1, Zenon
    <2> QED BY <2>1, <2>2, <2>3, Zenon
  <1>7. ASSUME NEW i \in 1..Len(tr.links)
        PROVE  tr.links[i] \in (1..M) \ (open \cup {M}) /\ Before(tr, tr.links[i], i)
    <2>1. tr.links[i] \in (1..N) \ open /\ Before(tree_, tr.links[i], i)
      BY <1>1, Zenon DEF LinksOK, N
    <2>2. Before(tr, tr.links[i], i) BY <1>1, <2>1, Zenon DEF Before
    <2> QED BY <1>4, <2>1, <2>2, Zenon
  <1>8. NodesOK(tr, open \cup {M}) BY <1>1, <1>3, <1>5, <1>6, Zenon DEF NodesOK
  <1>9. LinksOK(tr, open \cup {M}) BY <1>1, <1>7, Zenon DEF LinksOK
  <1>10. ASSUME Inner(r) = 0 PROVE NodesOK(tr, open) /\ LinksOK(tr, open)
    <2>1. tr.nodes[M].child_count = Inner(tr.nodes[M]) BY <1>1, <1>10, Zenon
    <2>2. NodesOK(tr, open) BY <1>1, <1>3, <1>5, <1>6, <2>1, Zenon DEF NodesOK
    <2>3. LinksOK(tr, open) BY <1>1, <1>7, Zenon DEF LinksOK
    <2> QED BY <2>2, <2>3
  <1> QED BY <1>8, <1>9, <1>10, Zenon DEF M

\* Nodes are linked to node n, the open container that is driven, or (n = 0) to none, as
\* attributes.
LEMMA RelinkedOK ==
  ASSUME NEW old \in Trees, NEW new, NEW n \in Nat, NEW children \in Seq(Nat), NEW count \in Nat,
         Relinked(old, new, n, children, count), NEW open,
         NodesOK(old, open \cup {n}), LinksOK(old, open \cup {n}),
         \A i \in 1..Len(children) : children[i] \in (1..Len(old.nodes)) \ (open \cup {n}),
         n \in 1..Len(old.nodes) => count = old.nodes[n].child_count + Len(children)
  PROVE  /\ NodesOK(new, open \cup {n}) /\ LinksOK(new, open \cup {n})
         /\ (n \in 1..Len(old.nodes) => count = Inner(old.nodes[n])) =>
                NodesOK(new, open) /\ LinksOK(new, open)
  <1> DEFINE N == Len(old.nodes)
             a == Len(old.links)
             c == Len(children)
  <1>1. /\ N \in Nat /\ a \in Nat /\ c \in Nat /\ old.links \in Seq(Nat)
        /\ \A m \in 1..N : old.nodes[m] \in Nodes
    BY DEF Trees
  <1>2. /\ new.links = old.links \o children /\ Len(new.nodes) = N
        /\ \A m \in 1..N : SameNode(old.nodes[m], new.nodes[m])
        /\ \A m \in 1..N : m # n => new.nodes[m] = old.nodes[m]
        /\ n \in 1..N => /\ new.nodes[n].child_count = count
                         /\ new.nodes[n].first_child =
                              IF old.nodes[n].child_count = 0 THEN a + 1
                              ELSE old.nodes[n].first_child
    BY Zenon DEF Relinked
  <1>3. /\ Len(new.links) = a + c
        /\ \A i \in 1..(a + c) : new.links[i] = IF i <= a THEN old.links[i] ELSE children[i - a]
    BY <1>1, <1>2
  <1> HIDE DEF N, a, c
  <1>4. ASSUME NEW m \in 1..N
        PROVE  /\ NodeOK(new, m)
               /\ m \notin open \cup {n} => new.nodes[m].child_count = Inner(new.nodes[m])
    <2>1. /\ NodeOK(old, m)
          /\ m \notin open \cup {n} => old.nodes[m].child_count = Inner(old.nodes[m])
      BY Zenon DEF NodesOK, N
    <2>2. SameNode(old.nodes[m], new.nodes[m]) BY <1>2, Zenon
    <2> DEFINE x == old.nodes[m]
               y == new.nodes[m]
    <2>3. /\ x.first_child + x.child_count <= a + 1 /\ x.first_attr + x.attr_count <= a + 1
          /\ x.kind # "attribute" /\ x.attr_count % 2 = 0
      BY <2>1, Zenon DEF NodeOK, Before, a
    <2>4. /\ y.kind = x.kind /\ y.first_attr = x.first_attr /\ y.attr_count = x.attr_count
      BY <2>2, Zenon DEF SameNode
    <2>5. /\ x.first_child \in Nat /\ x.child_count \in Nat /\ x.first_attr \in Nat
          /\ x.attr_count \in Nat
      BY Zenon, <1>1 DEF Nodes
    <2>6. y.first_child + y.child_count <= a + c + 1
      <3>1. CASE m # n
        <4>1. y = x BY <1>2, <3>1, Zenon
        <4> HIDE DEF x, y
        <4> QED BY SMTT(15), <1>1, <2>3, <2>5, <4>1
      <3>2. CASE m = n
        <4>1. /\ y.child_count = count /\ count = x.child_count + c
              /\ y.first_child = IF x.child_count = 0 THEN a + 1 ELSE x.first_child
          BY <1>2, <3>2, Zenon DEF N, c
        <4> DEFINE u == x.first_child
                   v == x.child_count
        <4>2. u \in Nat /\ v \in Nat /\ u + v <= a + 1 BY <2>3, <2>5, Zenon
        <4>3. y.first_child + y.child_count = (IF v = 0 THEN a + 1 ELSE u) + (v + c)
          BY <4>1, Zenon
        <4> HIDE DEF u, v
        <4>4. (IF v = 0 THEN a + 1 ELSE u) + (v + c) <= a + c + 1 BY <1>1, <4>2
        <4> QED BY <4>3, <4>4, Zenon
      <3> QED BY <3>1, <3>2
    <2>7. y.first_attr + y.attr_count <= a + c + 1
      <3> HIDE DEF x, y
      <3> QED BY SMTT(15), <1>1, <2>3, <2>4, <2>5
    <2>8. NodeOK(new, m) BY <1>3, <2>3, <2>4, <2>6, <2>7, Zenon DEF NodeOK, Before
    <2>9. m \notin open \cup {n} => y = x BY <1>2, Zenon
    <2> QED BY <2>1, <2>8, <2>9, Zenon
  <1>5. ASSUME NEW i \in 1..(a + c)
        PROVE  new.links[i] \in (1..N) \ (open \cup {n}) /\ Before(new, new.links[i], i)
    <2> DEFINE l == new.links[i]
    <2>1. l \in (1..N) \ (open \cup {n}) /\ Before(old, l, i)
      <3>1. CASE i <= a
        <4>1. i \in 1..a /\ l = old.links[i] BY <1>1, <1>3, <3>1
        <4> QED BY <4>1, Zenon DEF LinksOK, N, a
      <3>2. CASE i > a
        <4>1. i - a \in 1..c /\ l = children[i - a] /\ a + 1 <= i BY <1>1, <1>3, <3>2
        <4>2. l \in (1..N) \ (open \cup {n}) BY <4>1, Zenon DEF c, N
        <4>3. Before(old, l, a + 1) BY <4>2, Zenon DEF NodesOK, NodeOK, N, a
        <4>4. Before(old, l, i)
          <5> DEFINE x == old.nodes[l]
          <5>1. x \in Nodes BY <1>1, <4>2, Zenon
          <5>2. /\ x.first_child + x.child_count <= a + 1
                /\ x.first_attr + x.attr_count <= a + 1
            BY <4>3, Zenon DEF Before
          <5> HIDE DEF x
          <5>3. /\ x.first_child \in Nat /\ x.child_count \in Nat
                /\ x.first_attr \in Nat /\ x.attr_count \in Nat
            BY <5>1 DEF Nodes
          <5> DEFINE u == x.first_child + x.child_count
                     v == x.first_attr + x.attr_count
          <5>4. u \in Nat /\ v \in Nat
            <6> DEFINE u1 == x.first_child
                       u2 == x.child_count
                       v1 == x.first_attr
                       v2 == x.attr_count
            <6>1. u1 \in Nat /\ u2 \in Nat /\ v1 \in Nat /\ v2 \in Nat BY <5>3, Zenon
            <6> HIDE DEF u1, u2, v1, v2
            <6>2. u1 + u2 \in Nat /\ v1 + v2 \in Nat BY <6>1
            <6> QED BY <6>2, Zenon DEF u1, u2, v1, v2
          <5>5. u <= a + 1 /\ v <= a + 1 /\ a + 1 <= i BY <4>1, <5>2, Zenon
          <5> HIDE DEF u, v
          <5>6. u <= i /\ v <= i BY <1>1, <5>4, <5>5
          <5> QED BY <5>6, Zenon DEF Before, x, u, v
        <4> QED BY <4>2, <4>4, Zenon
      <3> QED BY <1>1, <3>1, <3>2
    <2>2. new.nodes[l] = old.nodes[l] BY <1>2, <2>1, Zenon
    <2> QED BY <2>1, <2>2, Zenon DEF Before
  <1>6. NodesOK(new, open \cup {n}) BY <1>2, <1>4, Zenon DEF NodesOK
  <1>7. LinksOK(new, open \cup {n}) BY <1>2, <1>3, <1>5, Zenon DEF LinksOK
  <1>8. ASSUME n \in 1..N => count = Inner(old.nodes[n])
        PROVE  NodesOK(new, open) /\ LinksOK(new, open)
    <2>1. ASSUME n \in 1..N PROVE new.nodes[n].child_count = Inner(new.nodes[n])
      <3>1. SameNode(old.nodes[n], new.nodes[n]) BY <1>2, <2>1, Zenon
      <3>2. Inner(new.nodes[n]) = Inner(old.nodes[n]) BY <3>1, Zenon DEF SameNode, Inner
      <3> QED BY <1>2, <1>8, <2>1, <3>2, Zenon
    <2>2. NodesOK(new, open) BY <1>2, <1>4, <2>1, Zenon DEF NodesOK
    <2>3. LinksOK(new, open) BY <1>2, <1>3, <1>5, Zenon DEF LinksOK
    <2> QED BY <2>2, <2>3
  <1> QED BY <1>6, <1>7, <1>8, Zenon DEF N

LEMMA TreeEmpty == TreeOK(NewTree, <<>>) /\ AttrsOK(NewTree, NoAttributes)
  <1>1. Len(<<>>) = 0 /\ 1..0 = {} OBVIOUS
  <1>2. NewTree.nodes = <<>> /\ NewTree.links = <<>> BY DEF NewTree
  <1>3. AttrsOK(NewTree, NoAttributes) BY <1>1, <1>2 DEF AttrsOK, NoAttributes
  <1>4. Keys(<<>>) = {} BY <1>1 DEF Keys
  <1>5. TreeOK(NewTree, <<>>) BY <1>1, <1>2, <1>4, Zenon DEF TreeOK, NodesOK, LinksOK, FramesOK
  <1> QED BY <1>3, <1>5

LEMMA TreeInit == ParserInit => TreeInv
  <1> SUFFICES ASSUME ParserInit PROVE TreeInv OBVIOUS
  <1>1. tree_ = NewTree /\ stack_ = <<>> /\ pending_attrs_ = NoAttributes /\ pc = "read"
    BY DEF ParserInit
  <1>2. pc \notin {"attach", "consume"} BY SMTT(15), <1>1
  <1> QED BY <1>1, <1>2, TreeEmpty, Zenon DEF TreeInv

\* An element or a pair is linked to the container that the innermost frame drives.
LEMMA ProducedTree ==
  ASSUME stack_ \in Seq(Frames), stack_ # <<>>, tree_ \in Trees, TreeOK(tree_, stack_),
         NEW f \in Frames, Produced(f), Holds(back(stack_)), Holds(f), f.node = back(stack_).node,
         f.pending_key = 0, f.expected = back(stack_).expected,
         f.state = "array" <=> back(stack_).state = "array",
         NEW children \in Seq(Nat), NEW count \in Nat,
         tree_' = LinkChildren(f.node, children, count),
         \A i \in 1..Len(children) : children[i] \in (1..Len(tree_.nodes)) \ Open(stack_),
         count = tree_.nodes[f.node].child_count + Len(children),
         count = IF f.state = "array" THEN f.produced ELSE 2 * f.produced,
         f.produced = f.expected => count = Inner(tree_.nodes[f.node])
  PROVE  /\ TreeOK(tree_', stack_') /\ tree_'.links = tree_.links \o children
         /\ pc' \in {"attach", "consume"} => child' \in (1..Len(tree_'.nodes)) \ Open(stack_')
  <1> DEFINE g == back(stack_)
             q == pop_back(stack_)
             n == f.node
             N == Len(tree_.nodes)
             O == Open(q)
  <1>1. q \in Seq(Frames) /\ g \in Frames /\ stack_ = Append(q, g) BY StackSplit, Zenon
  <1>2. n \in Nat BY DEF Frames
  <1>3. Open(stack_) = O \cup {n} BY <1>1, OpenPush, Zenon
  <1>4. FramesOK(tree_, q) /\ OnTop(tree_, q, g) BY <1>1, FramesPush, Zenon DEF TreeOK
  <1>5. Drives(tree_, g) /\ n \notin O /\ n \notin Keys(q) BY <1>4, Zenon DEF OnTop
  <1>6. n \in 1..N BY <1>5, Zenon DEF Drives
  <1>7. Relinked(tree_, tree_', n, children, count) BY <1>2, LinkFacts, Zenon
  <1>8. /\ tree_'.links = tree_.links \o children /\ Len(tree_'.nodes) = N
        /\ \A m \in 1..N : SameNode(tree_.nodes[m], tree_'.nodes[m])
        /\ \A m \in 1..N : m # n => tree_'.nodes[m] = tree_.nodes[m]
        /\ tree_'.nodes[n].child_count = count
    BY <1>6, <1>7, Zenon DEF Relinked
  <1>9. /\ NodesOK(tree_', O \cup {n}) /\ LinksOK(tree_', O \cup {n})
        /\ count = Inner(tree_.nodes[n]) => NodesOK(tree_', O) /\ LinksOK(tree_', O)
    <2>1. NodesOK(tree_, O \cup {n}) /\ LinksOK(tree_, O \cup {n}) BY <1>3, Zenon DEF TreeOK
    <2>2. \A i \in 1..Len(children) : children[i] \in (1..Len(tree_.nodes)) \ (O \cup {n})
      BY <1>3, Zenon
    <2>3. n \in 1..Len(tree_.nodes) => count = tree_.nodes[n].child_count + Len(children) OBVIOUS
    <2> DEFINE new == tree_'
    <2>4. Relinked(tree_, new, n, children, count) BY <1>7, Zenon
    <2> HIDE DEF O, n, new
    <2>5. /\ NodesOK(new, O \cup {n}) /\ LinksOK(new, O \cup {n})
          /\ (n \in 1..Len(tree_.nodes) => count = Inner(tree_.nodes[n])) =>
                NodesOK(new, O) /\ LinksOK(new, O)
      BY <1>2, <2>1, <2>2, <2>3, <2>4, RelinkedOK, Zenon
    <2> QED BY <2>5, Zenon DEF new
  <1>10. FramesOK(tree_', q)
    <2>1. 1..N \subseteq 1..Len(tree_'.nodes) BY <1>8, Zenon
    <2>2. \A m \in 1..N : m \in Open(q) => tree_'.nodes[m] = tree_.nodes[m] BY <1>5, <1>8, Zenon
    <2> DEFINE new == tree_'
    <2>3. /\ 1..Len(tree_.nodes) \subseteq 1..Len(new.nodes)
          /\ \A m \in 1..Len(tree_.nodes) : m \in Open(q) => new.nodes[m] = tree_.nodes[m]
      BY <2>1, <2>2, Zenon
    <2> HIDE DEF new, q
    <2>4. FramesOK(new, q) BY <1>1, <1>4, <2>3, FramesKept, Zenon
    <2> QED BY <2>4, Zenon DEF new
  <1>11. CASE f.produced = f.expected
    <2>1. stack_' = q /\ child' = n BY <1>11, Zenon DEF Produced
    <2>2. TreeOK(tree_', q) BY <1>9, <1>10, <1>11, Zenon DEF TreeOK
    <2>3. n \in (1..Len(tree_'.nodes)) \ Open(q) BY <1>5, <1>6, <1>8, Zenon
    <2> QED BY <1>8, <2>1, <2>2, <2>3, Zenon
  <1>12. CASE f.produced # f.expected
    <2> DEFINE r == Append(q, f)
    <2>1. stack_' = Append(r, ValueFrame) /\ pc' = "loop" BY <1>12, Zenon DEF Produced, ReplaceTop
    <2>2. r \in Seq(Frames) BY <1>1, Pushed, Zenon
    <2>3. Drives(tree_', f)
      <3>1. SameNode(tree_.nodes[n], tree_'.nodes[n]) BY <1>6, <1>8, Zenon
      <3>2. /\ tree_'.nodes[n].len = tree_.nodes[n].len
            /\ tree_'.nodes[n].kind = tree_.nodes[n].kind
        BY <3>1, Zenon DEF SameNode
      <3>3. /\ tree_.nodes[n].len = f.expected
            /\ IF f.state = "array" THEN tree_.nodes[n].kind \in Sequential
               ELSE tree_.nodes[n].kind = "map"
        <4>1. CASE f.state = "array" BY <1>5, <4>1, Zenon DEF Drives
        <4>2. CASE f.state # "array" BY <1>5, <4>2, Zenon DEF Drives
        <4> QED BY <4>1, <4>2
      <3>4. CASE f.state = "array" BY <1>6, <1>8, <3>2, <3>3, <3>4, Zenon DEF Drives
      <3>5. CASE f.state # "array" BY <1>6, <1>8, <3>2, <3>3, <3>5, Zenon DEF Drives
      <3> QED BY <3>4, <3>5
    <2>4. OnTop(tree_', q, f) BY <1>5, <2>3, Zenon DEF OnTop
    <2>5. FramesOK(tree_', r) BY <1>1, <1>10, <2>4, FramesPush, Zenon
    <2>6. Open(r) = O \cup {n} BY <1>1, OpenPush, Zenon
    <2>7. TreeOK(tree_', r) BY <1>9, <2>5, <2>6, Zenon DEF TreeOK
    <2> HIDE DEF r
    <2>8. TreeOK(tree_', stack_') BY <2>1, <2>2, <2>7, IdlePush, ValueIdle, Zenon
    <2>9. pc' \notin {"attach", "consume"} BY <2>1
    <2> QED BY <1>8, <2>8, <2>9, Zenon
  <1> QED BY Zenon, <1>11, <1>12

LEMMA IdlePop ==
  ASSUME NEW st \in Seq(Frames), st # <<>>, ~Holds(back(st)), NEW tr, TreeOK(tr, st)
  PROVE  TreeOK(tr, pop_back(st)) /\ Open(pop_back(st)) = Open(st)
  <1> DEFINE q == pop_back(st)
             g == back(st)
  <1>1. q \in Seq(Frames) /\ g \in Frames /\ st = Append(q, g) BY StackSplit, Zenon
  <1>2. Open(st) = Open(q)
    <2>1. Open(st) = Open(q) \cup {} BY <1>1, OpenPush, Zenon
    <2> QED BY <2>1, Zenon
  <1>3. FramesOK(tr, q) BY <1>1, FramesPush, Zenon DEF TreeOK
  <1> QED BY <1>2, <1>3, Zenon DEF TreeOK

\* The node of an accepted token goes into the tree.
LEMMA AcceptedTree ==
  ASSUME Types, TreeInv, Decision = "ok", FrontToken.kind # "attribute", AddNode(FrontToken),
         NEW q \in Seq(Frames), TreeOK(tree_, q)
  PROVE  LET r == RawNode(FrontToken)
         IN  /\ NodesOK(tree_', Open(q) \cup {NewIndex}) /\ LinksOK(tree_', Open(q) \cup {NewIndex})
             /\ Inner(r) = 0 => NodesOK(tree_', Open(q)) /\ LinksOK(tree_', Open(q))
             /\ FramesOK(tree_', q) /\ AttrsOK(tree_', pending_attrs_')
             /\ NewIndex \in Nat /\ NewIndex = Len(tree_'.nodes)
             /\ Open(q) \subseteq 1..Len(tree_.nodes) /\ Keys(q) \subseteq 1..Len(tree_.nodes)
             /\ NewIndex \notin 1..Len(tree_.nodes) /\ NewIndex \in 1..Len(tree_'.nodes)
             /\ tree_'.nodes[NewIndex] = r
             /\ r.kind = FrontToken.kind /\ r.len = FrontToken.len /\ r.child_count = 0
  <1> DEFINE t == FrontToken
             r == RawNode(t)
             new == tree_'
             a == Len(tree_.links)
  <1>1. /\ stream \in Streams /\ buf_ \in Buffers /\ InOrder(buf_) /\ tree_ \in Trees
        /\ pending_attrs_ \in [first : Nat, count : Nat]
    BY Zenon DEF Types
  <1>2. t \in Tokens /\ Bytes(t) <= size(buf_) BY <1>1, FrontFacts, Zenon
  <1>3. new = [tree_ EXCEPT !.nodes = Append(@, r)] /\ pending_attrs_' = NoAttributes
    BY Zenon DEF AddNode
  <1> HIDE DEF t
  <1>4. /\ r \in Nodes /\ r.kind = t.kind /\ r.len = t.len /\ r.child_count = 0
        /\ r.first_child \in {1, a + 1}
        /\ r.first_attr = pending_attrs_.first
        /\ r.attr_count = pending_attrs_.count
    BY <1>1, <1>2, NodeFacts, Zenon
  <1> HIDE DEF r, new
  <1>5. /\ new.links = tree_.links
        /\ Len(new.nodes) = NewIndex /\ NewIndex \in Nat /\ NewIndex = Len(tree_.nodes) + 1
        /\ Len(tree_.nodes) \in Nat
        /\ \A n \in 1..Len(tree_.nodes) : new.nodes[n] = tree_.nodes[n]
        /\ new.nodes[NewIndex] = r
    BY <1>1, <1>3, <1>4, AddFacts
  <1>6. a \in Nat BY <1>1 DEF Trees
  <1>7. r.first_child <= a + 1 BY <1>4, <1>6
  <1>8. r.first_attr + r.attr_count <= a + 1 /\ r.attr_count % 2 = 0
    BY <1>4, Zenon DEF TreeInv, AttrsOK
  <1>9. r.kind # "attribute" BY <1>4, Zenon DEF t
  <1>10. NodesOK(tree_, Open(q)) /\ LinksOK(tree_, Open(q)) /\ FramesOK(tree_, q)
    BY Zenon DEF TreeOK
  <1>11. /\ NodesOK(new, Open(q) \cup {NewIndex}) /\ LinksOK(new, Open(q) \cup {NewIndex})
         /\ Inner(r) = 0 => NodesOK(new, Open(q)) /\ LinksOK(new, Open(q))
    <2> DEFINE open == Open(q)
    <2>1. NodesOK(tree_, open) /\ LinksOK(tree_, open) BY <1>10, Zenon
    <2> HIDE DEF open
    <2>2. /\ NodesOK(new, open \cup {NewIndex}) /\ LinksOK(new, open \cup {NewIndex})
          /\ Inner(r) = 0 => NodesOK(new, open) /\ LinksOK(new, open)
      BY Zenon, <1>1, <1>3, <1>4, <1>7, <1>8, <1>9, <2>1, AddedOK
    <2> QED BY <2>2, Zenon DEF open
  <1>12. /\ NewIndex \notin 1..Len(tree_.nodes) /\ NewIndex \in 1..Len(new.nodes)
         /\ 1..Len(tree_.nodes) \subseteq 1..Len(new.nodes)
    <2> DEFINE m == Len(tree_.nodes)
               k == NewIndex
    <2>1. m \in Nat /\ k = m + 1 /\ Len(new.nodes) = k BY <1>5, Zenon
    <2> HIDE DEF m, k
    <2>2. k \notin 1..m /\ k \in 1..k /\ 1..m \subseteq 1..k BY <2>1
    <2> QED BY <2>1, <2>2, Zenon DEF m, k
  <1>13. FramesOK(new, q) BY <1>5, <1>10, <1>12, FramesKept, Zenon
  <1>14. Open(q) \subseteq 1..Len(tree_.nodes) /\ Keys(q) \subseteq 1..Len(tree_.nodes)
    BY <1>10, Zenon DEF FramesOK, Open, Drives
  <1>15. AttrsOK(new, NoAttributes)
    <2>1. NoAttributes.first = 1 /\ NoAttributes.count = 0 /\ 0 % 2 = 0 BY DEF NoAttributes
    <2>2. 1 + 0 <= a + 1 BY <1>6
    <2> QED BY <1>5, <2>1, <2>2, Zenon DEF AttrsOK
  <1> QED BY <1>3, <1>4, <1>5, <1>11, <1>12, <1>13, <1>14, <1>15, Zenon DEF t, r, new

LEMMA AttrsGrow ==
  ASSUME NEW old \in Trees, NEW new, NEW kv \in Seq(Nat), new.links = old.links \o kv,
         NEW pa \in [first : Nat, count : Nat], AttrsOK(old, pa)
  PROVE  /\ AttrsOK(new, pa)
         /\ Len(kv) = 2 => AttrsOK(new, push(pa, old.links, kv))
  <1> DEFINE a == Len(old.links)
             c == Len(kv)
             u == pa.first
             v == pa.count
  <1>1. a \in Nat /\ c \in Nat /\ u \in Nat /\ v \in Nat /\ Len(new.links) = a + c BY DEF Trees
  <1>2. u + v <= a + 1 /\ v % 2 = 0 BY Zenon DEF AttrsOK
  <1>3. /\ push(pa, old.links, kv).first = IF v = 0 THEN a + 1 ELSE u
        /\ push(pa, old.links, kv).count = v + c
    BY DEF push
  <1> HIDE DEF a, c, u, v
  <1>4. u + v <= a + c + 1 BY <1>1, <1>2
  <1>5. AttrsOK(new, pa) BY <1>1, <1>2, <1>4, Zenon DEF AttrsOK, u, v
  <1>6. ASSUME c = 2 PROVE AttrsOK(new, push(pa, old.links, kv))
    <2>1. (IF v = 0 THEN a + 1 ELSE u) + (v + c) <= a + c + 1 BY <1>1, <1>2, <1>6
    <2>2. (v + c) % 2 = 0 BY <1>1, <1>2, <1>6
    <2> QED BY <1>1, <1>3, <2>1, <2>2, Zenon DEF AttrsOK
  <1> QED BY <1>5, <1>6, Zenon DEF c

LEMMA TreeNext == Types /\ FramesInv /\ TreeInv /\ [ParserNext]_vars => TreeInv'
  <1> SUFFICES ASSUME Types, FramesInv, TreeInv, [ParserNext]_vars PROVE TreeInv' OBVIOUS
  <1>1. /\ stream \in Streams /\ buf_ \in Buffers /\ InOrder(buf_) /\ tree_ \in Trees
        /\ stack_ \in Seq(Frames) /\ child \in Nat
        /\ pending_attrs_ \in [first : Nat, count : Nat]
    BY Zenon DEF Types
  <1> DEFINE top == back(stack_)
             t == FrontToken
             N == 1..Len(tree_.nodes)
  <1>2. /\ TreeOK(tree_, stack_) /\ AttrsOK(tree_, pending_attrs_)
        /\ pc \in {"attach", "consume"} => child \in N \ Open(stack_)
    BY Zenon DEF TreeInv
  <1>3. stack_ # <<>> => top \in Frames /\ FrameFits(top)
    BY <1>1, StackedPop, Zenon DEF FramesInv
  <1>4. CASE UNCHANGED <<tree_, stack_, pending_attrs_, child, pc>>
    BY <1>2, <1>4, Zenon DEF TreeInv
  <1>5. ASSUME UNCHANGED <<tree_, pending_attrs_>>, TreeOK(tree_, stack_'),
               pc' \notin {"attach", "consume"}
        PROVE  TreeInv'
    BY <1>2, <1>5, Zenon DEF TreeInv
  <1>6. CASE Prepare \/ NeedMore \/ ParseFails \/ \E n \in 1..(End(stream).first - 1) : Commit(n)
    <2>1. UNCHANGED <<tree_, stack_, pending_attrs_>> /\ pc' \in {"read", "reading", "failed", "parse"}
      BY <1>6, Zenon DEF Prepare, NeedMore, ParseFails, Commit
    <2> QED BY <1>2, <1>5, <2>1
  <1>7. CASE ParseRefused
    <2>1. UNCHANGED <<tree_, stack_, pending_attrs_, child>> /\ (pc' = pc \/ pc' = "failed")
      BY <1>7, Zenon DEF ParseRefused
    <2> QED BY <1>2, <1>4, <1>5, <2>1
  <1>8. CASE ParseOne
    <2>1. /\ UNCHANGED <<tree_, pending_attrs_>> /\ pc' = "loop"
          /\ stack_' = IF stack_ = <<>> THEN <<ValueFrame>> ELSE stack_
      BY <1>8, Zenon DEF ParseOne
    <2>2. TreeOK(tree_, stack_')
      <3>1. CASE stack_ = <<>>
        <4>1. <<ValueFrame>> = Append(<<>>, ValueFrame) OBVIOUS
        <4>2. <<>> \in Seq(Frames) BY EmptyTypes, Zenon
        <4>3. TreeOK(tree_, Append(<<>>, ValueFrame)) BY <1>2, <3>1, <4>2, IdlePush, ValueIdle, Zenon
        <4> QED BY <2>1, <3>1, <4>1, <4>3, Zenon
      <3>2. CASE stack_ # <<>> BY <1>2, <2>1, <3>2, Zenon
      <3> QED BY <3>1, <3>2
    <2> QED BY <1>5, <2>1, <2>2
  <1>9. CASE DriveValue
    <2>1. UNCHANGED <<tree_, pending_attrs_>> /\ pc' = "loop" /\ stack_' = Append(stack_, ValueFrame)
      BY <1>9, Zenon DEF DriveValue
    <2>2. TreeOK(tree_, stack_') BY <1>1, <1>2, <2>1, IdlePush, ValueIdle, Zenon
    <2> QED BY <1>5, <2>1, <2>2
  <1>10. Decision = "ok" => t \in Tokens /\ (t.kind = "attribute" => t.len >= 0)
    BY <1>1, FrontFacts, Zenon
  <1> HIDE DEF t
  <1>11. CASE AcceptAttribute
    <2>1. /\ Decision = "ok" /\ t.kind = "attribute" /\ stack_' = start_attribute(t)
          /\ UNCHANGED <<tree_, pending_attrs_>> /\ pc' = "loop"
      BY <1>11, Zenon DEF AcceptAttribute, ParsingValue, t
    <2>2. TreeOK(tree_, stack_')
      <3>1. CASE t.len = 0 BY <1>2, <2>1, <3>1, Zenon DEF start_attribute
      <3>2. CASE t.len # 0
        <4> DEFINE f == Frame("attribute", t.len, 0)
        <4>1. stack_' = Append(stack_, f) BY <2>1, <3>2, Zenon DEF start_attribute
        <4>2. t.len \in Nat BY <1>10, <2>1 DEF Tokens
        <4>3. f \in Frames /\ ~Holds(f) /\ f.pending_key = 0 BY <4>2 DEF Frame, Frames, Holds
        <4> HIDE DEF f
        <4> QED BY <1>1, <1>2, <4>1, <4>3, IdlePush, Zenon
      <3> QED BY <3>1, <3>2
    <2> QED BY <1>5, <2>1, <2>2
  <1> DEFINE q == pop_back(stack_)
             new == tree_'
             k == NewIndex
             r == RawNode(t)
  <1>12. ASSUME stack_ # <<>>, top.state = "value", Decision = "ok", t.kind # "attribute",
                AddNode(t)
         PROVE  /\ q \in Seq(Frames)
                /\ NodesOK(new, Open(q) \cup {k}) /\ LinksOK(new, Open(q) \cup {k})
                /\ Inner(r) = 0 => NodesOK(new, Open(q)) /\ LinksOK(new, Open(q))
                /\ FramesOK(new, q) /\ AttrsOK(new, pending_attrs_')
                /\ k \in Nat /\ k \in 1..Len(new.nodes)
                /\ k \notin Open(q) /\ k \notin Keys(q)
                /\ new.nodes[k] = r
                /\ r.kind = t.kind /\ r.len = t.len /\ r.child_count = 0
    <2>1. ~Holds(top) BY <1>12 DEF Holds
    <2>2. TreeOK(tree_, q) /\ q \in Seq(Frames) BY <1>1, <1>2, <1>12, <2>1, IdlePop, StackSplit, Zenon
    <2>3. /\ NodesOK(new, Open(q) \cup {k}) /\ LinksOK(new, Open(q) \cup {k})
          /\ Inner(r) = 0 => NodesOK(new, Open(q)) /\ LinksOK(new, Open(q))
          /\ FramesOK(new, q) /\ AttrsOK(new, pending_attrs_')
          /\ k \in Nat /\ k \in 1..Len(new.nodes)
          /\ Open(q) \subseteq N /\ Keys(q) \subseteq N /\ k \notin N
          /\ new.nodes[k] = r
          /\ r.kind = t.kind /\ r.len = t.len /\ r.child_count = 0
      <3> HIDE DEF q
      <3> QED BY <1>12, <2>2, AcceptedTree, Zenon DEF t
    <2> QED BY <2>2, <2>3, Zenon
  <1>13. CASE AcceptContainer
    <2>1. /\ stack_ # <<>> /\ top.state = "value" /\ Decision = "ok"
          /\ t.kind \in Containers /\ t.len > 0 /\ AddNode(t) /\ pc' = "loop"
          /\ stack_' = start_container(t)
      BY <1>13, Zenon DEF AcceptContainer, ParsingValue, t
    <2>2. t.kind # "attribute" BY <2>1 DEF Containers, Sequential
    <2>3. /\ q \in Seq(Frames)
          /\ NodesOK(new, Open(q) \cup {k}) /\ LinksOK(new, Open(q) \cup {k})
          /\ FramesOK(new, q) /\ AttrsOK(new, pending_attrs_')
          /\ k \in Nat /\ k \in 1..Len(new.nodes)
          /\ k \notin Open(q) /\ k \notin Keys(q)
          /\ new.nodes[k].kind = t.kind /\ new.nodes[k].len = t.len /\ new.nodes[k].child_count = 0
      BY <1>12, <2>1, <2>2, Zenon
    <2> DEFINE s == IF t.kind = "map" THEN "map_key" ELSE "array"
               f == Frame(s, t.len, k)
    <2>4. t.len \in Nat BY <1>10, <2>1 DEF Tokens
    <2>5. s \in {"map_key", "array"} /\ stack_' = Append(q, f)
      BY <2>1, Zenon DEF start_container, ReplaceTop
    <2>6. s = "array" <=> t.kind # "map" OBVIOUS
    <2> HIDE DEF s, k
    <2>7. /\ f \in Frames /\ f.state = s /\ f.produced = 0 /\ f.expected = t.len
          /\ f.node = k /\ f.pending_key = 0
      BY <2>3, <2>4, <2>5 DEF Frame, Frames
    <2> HIDE DEF f, q, new
    <2>8. Holds(f) BY <2>5, <2>7 DEF Holds
    <2>9. Drives(new, f)
      <3>1. CASE s = "array"
        <4>1. t.kind \in Sequential BY <2>1, <2>6, <3>1 DEF Containers
        <4> QED BY <2>3, <2>7, <3>1, <4>1, Zenon DEF Drives
      <3>2. CASE s # "array"
        <4>1. t.kind = "map" /\ 0 = 2 * 0 BY <2>6, <3>2
        <4> QED BY <2>3, <2>7, <3>2, <4>1, Zenon DEF Drives
      <3> QED BY <3>1, <3>2
    <2>10. OnTop(new, q, f) BY <2>3, <2>7, <2>9, Zenon DEF OnTop
    <2>11. FramesOK(new, Append(q, f)) BY <2>3, <2>7, <2>10, FramesPush, Zenon
    <2>12. Open(Append(q, f)) = Open(q) \cup {k} BY <2>3, <2>7, <2>8, OpenPush, Zenon
    <2>13. TreeOK(new, Append(q, f)) BY <2>3, <2>11, <2>12, Zenon DEF TreeOK
    <2>14. pc' \notin {"attach", "consume"} BY <2>1
    <2> QED BY <2>3, <2>5, <2>13, <2>14, Zenon DEF TreeInv, new
  <1>14. CASE AcceptValue
    <2>1. /\ stack_ # <<>> /\ top.state = "value" /\ Decision = "ok"
          /\ t.kind # "attribute" /\ (t.kind \in Containers => t.len <= 0)
          /\ AddNode(t) /\ stack_' = q /\ child' = k
      BY <1>14, Zenon DEF AcceptValue, ParsingValue, t
    <2>2. Inner(r) = 0
      <3>1. r.kind = t.kind /\ r.len = t.len /\ t.len \in Int
        BY <1>10, <1>12, <2>1 DEF Tokens
      <3> HIDE DEF r
      <3> QED BY SMTT(15), <2>1, <3>1 DEF Inner, Containers, Sequential
    <2>3. /\ NodesOK(new, Open(q)) /\ LinksOK(new, Open(q)) /\ FramesOK(new, q)
          /\ AttrsOK(new, pending_attrs_') /\ k \in (1..Len(new.nodes)) \ Open(q)
      BY <1>12, <2>1, <2>2, Zenon
    <2> QED BY <2>1, <2>3, Zenon DEF TreeInv, TreeOK
  <1>15. CASE AttachRoot
    <2>1. /\ UNCHANGED <<tree_, stack_, pending_attrs_, child>> /\ pc = "attach" /\ pc' = "consume"
      BY <1>15, Zenon DEF AttachRoot
    <2>2. pc \in {"attach", "consume"} BY <2>1
    <2> QED BY <1>2, <2>1, <2>2, Zenon DEF TreeInv
  <1> HIDE DEF k, r, new
  <1>16. ASSUME stack_ # <<>>
         PROVE  /\ q \in Seq(Frames) /\ top \in Frames /\ FrameFits(top) /\ stack_ = Append(q, top)
                /\ FramesOK(tree_, q) /\ OnTop(tree_, q, top)
                /\ Holds(top) => Drives(tree_, top) /\ Open(stack_) = Open(q) \cup {top.node}
                /\ ~Holds(top) => Open(stack_) = Open(q)
                /\ top.pending_key # 0 => top.pending_key \in N \ Open(stack_)
    <2>1. q \in Seq(Frames) /\ top \in Frames /\ stack_ = Append(q, top) /\ FrameFits(top)
      BY <1>1, <1>3, <1>16, StackSplit, Zenon
    <2>2. FramesOK(tree_, q) /\ OnTop(tree_, q, top) BY <1>2, <2>1, FramesPush, Zenon DEF TreeOK
    <2>3. /\ Open(stack_) = Open(q) \cup (IF Holds(top) THEN {top.node} ELSE {})
          /\ Keys(stack_) = Keys(q) \cup (IF top.pending_key # 0 THEN {top.pending_key} ELSE {})
      BY <2>1, OpenPush, Zenon
    <2>4. Holds(top) => Open(stack_) = Open(q) \cup {top.node} BY <2>3, Zenon
    <2>5. ~Holds(top) => Open(stack_) = Open(q) BY <2>3, Zenon
    <2>6. Keys(stack_) \subseteq N \ Open(stack_) BY <1>2, Zenon DEF TreeOK, FramesOK
    <2>7. top.pending_key # 0 => top.pending_key \in Keys(stack_)
      <3> DEFINE p == top.pending_key
      <3>1. p # 0 => Keys(stack_) = Keys(q) \cup {p} BY <2>3, Zenon
      <3> HIDE DEF p
      <3>2. p # 0 => p \in Keys(stack_) BY <3>1, Zenon
      <3> QED BY <3>2, Zenon DEF p
    <2>8. Holds(top) => Drives(tree_, top) BY <2>2, Zenon DEF OnTop
    <2> QED BY <2>1, <2>2, <2>4, <2>5, <2>6, <2>7, <2>8, Zenon
  <1>17. pc = "attach" => child \in N \ Open(stack_) BY <1>2
  <1> HIDE DEF q
  <1>18. CASE AttachElement
    <2> DEFINE f == Element(top)
               count == f.produced
               node == tree_.nodes[f.node]
    <2>1. /\ stack_ # <<>> /\ top.state = "array" /\ Produced(f) /\ pc = "attach"
          /\ tree_' = LinkChildren(f.node, <<child>>, count) /\ pending_attrs_' = pending_attrs_
      BY <1>18, Zenon DEF AttachElement, Attaching, Element
    <2>2. top \in Frames /\ FrameFits(top) BY <1>3, <2>1, Zenon
    <2>3. /\ f \in Frames /\ f.state = top.state /\ f.produced = top.produced + 1
          /\ f.pending_key = top.pending_key /\ f.node = top.node /\ f.expected = top.expected
          /\ top.produced \in Nat /\ top.expected \in Nat
      BY <2>2, FrameUpdates, Zenon
    <2> HIDE DEF f
    <2>4. Holds(top) /\ Holds(f) /\ f.pending_key = 0 /\ top.produced < top.expected
      BY <2>1, <2>2, <2>3 DEF FrameFits, Holds
    <2>5. node.len = top.expected /\ node.kind \in Sequential /\ node.child_count = top.produced
      BY <1>16, <2>1, <2>3, <2>4, Zenon DEF Drives
    <2>6. <<child>> \in Seq(Nat) /\ Len(<<child>>) = 1 /\ <<child>>[1] = child /\ 1..1 = {1}
      BY <1>1
    <2>7. \A i \in 1..Len(<<child>>) : <<child>>[i] \in N \ Open(stack_)
      BY <1>17, <2>1, <2>6, Zenon
    <2>8. count \in Nat /\ count = node.child_count + Len(<<child>>)
      <3> HIDE DEF node
      <3> QED BY <2>3, <2>5, <2>6
    <2>9. count = IF f.state = "array" THEN f.produced ELSE 2 * f.produced BY <2>1, <2>3, Zenon
    <2>10. f.produced = f.expected => count = Inner(node)
      <3> HIDE DEF node
      <3>1. node.len > 0 BY <2>3, <2>4, <2>5
      <3>2. Inner(node) = node.len BY <2>5, <3>1, InnerFacts, Zenon
      <3> QED BY <2>3, <2>5, <3>2, Zenon
    <2>11. f.state = "array" <=> top.state = "array" BY <2>3, Zenon
    <2>12. /\ TreeOK(tree_', stack_') /\ tree_'.links = tree_.links \o <<child>>
           /\ pc' \in {"attach", "consume"} => child' \in (1..Len(tree_'.nodes)) \ Open(stack_')
      <3> DEFINE ch == <<child>>
      <3>1. /\ ch \in Seq(Nat) /\ tree_' = LinkChildren(f.node, ch, count)
            /\ count = node.child_count + Len(ch)
            /\ \A i \in 1..Len(ch) : ch[i] \in N \ Open(stack_)
        BY <2>1, <2>6, <2>7, <2>8, Zenon
      <3> HIDE DEF ch, count
      <3> QED BY <1>1, <1>2, <2>1, <2>3, <2>4, <2>8, <2>9, <2>10, <2>11, <3>1, ProducedTree, Zenon DEF ch
    <2>13. AttrsOK(tree_', pending_attrs_) BY <1>1, <1>2, <2>6, <2>12, AttrsGrow, Zenon
    <2> QED BY <2>1, <2>12, <2>13, Zenon DEF TreeInv
  <1>19. CASE AttachEntry
    <2> DEFINE f == Entry(top)
               count == 2 * f.produced
               node == tree_.nodes[f.node]
               kv == <<top.pending_key, child>>
    <2>1. /\ stack_ # <<>> /\ top.state = "map_value" /\ Produced(f) /\ pc = "attach"
          /\ tree_' = LinkChildren(f.node, kv, count) /\ pending_attrs_' = pending_attrs_
      BY <1>19, Zenon DEF AttachEntry, Attaching, Entry
    <2>2. top \in Frames /\ FrameFits(top) BY <1>3, <2>1, Zenon
    <2>3. /\ f \in Frames /\ f.state = "map_key" /\ f.produced = top.produced + 1
          /\ f.pending_key = 0 /\ f.node = top.node /\ f.expected = top.expected
          /\ top.produced \in Nat /\ top.expected \in Nat /\ top.pending_key \in Nat
      BY <2>2, FrameUpdates, Zenon
    <2> HIDE DEF f
    <2>4. Holds(top) /\ Holds(f) /\ top.pending_key # 0 /\ top.produced < top.expected
      BY <2>1, <2>2, <2>3 DEF FrameFits, Holds
    <2>5. node.len = top.expected /\ node.kind = "map" /\ node.child_count = 2 * top.produced
      <3>1. top.state # "array" BY <2>1
      <3> QED BY <1>16, <2>1, <2>3, <2>4, <3>1, Zenon DEF Drives
    <2>6. kv \in Seq(Nat) /\ Len(kv) = 2 /\ kv[1] = top.pending_key /\ kv[2] = child /\ 1..2 = {1, 2}
      BY <1>1, <2>3
    <2> HIDE DEF kv
    <2>7. \A i \in 1..Len(kv) : kv[i] \in N \ Open(stack_)
      <3>1. top.pending_key \in N \ Open(stack_) BY <1>16, <2>1, <2>4, Zenon
      <3> QED BY <1>17, <2>1, <2>6, <3>1, Zenon
    <2>8. count \in Nat /\ count = node.child_count + Len(kv)
      <3> HIDE DEF node
      <3> QED BY SMTT(15), <2>3, <2>5, <2>6
    <2>9. count = IF f.state = "array" THEN f.produced ELSE 2 * f.produced
      <3>1. f.state # "array" BY <2>3
      <3> QED BY <3>1, Zenon
    <2>10. f.produced = f.expected => count = Inner(node)
      <3> HIDE DEF node
      <3>1. node.len > 0 BY <2>3, <2>4, <2>5
      <3>2. Inner(node) = 2 * node.len BY <2>5, <3>1, InnerFacts, Zenon
      <3> QED BY <2>3, <2>5, <3>2, Zenon
    <2>11. f.state = "array" <=> top.state = "array" BY <2>1, <2>3
    <2>12. /\ TreeOK(tree_', stack_') /\ tree_'.links = tree_.links \o kv
           /\ pc' \in {"attach", "consume"} => child' \in (1..Len(tree_'.nodes)) \ Open(stack_')
      <3> HIDE DEF count
      <3> QED BY <1>1, <1>2, <2>1, <2>3, <2>4, <2>6, <2>7, <2>8, <2>9, <2>10, <2>11, ProducedTree, Zenon
    <2>13. AttrsOK(tree_', pending_attrs_) BY <1>1, <1>2, <2>6, <2>12, AttrsGrow, Zenon
    <2> QED BY <2>1, <2>12, <2>13, Zenon DEF TreeInv
  <1>20. ASSUME NEW s, pc = "attach", stack_ # <<>>, KeepKey(s),
                \/ top.state = "map_key" /\ s = "map_value"
                \/ top.state = "attribute" /\ s = "attribute"
         PROVE  TreeInv'
    <2> DEFINE f == Keyed(top, s, child)
    <2>1. /\ stack_' = Append(Append(q, f), ValueFrame) /\ pc' = "loop"
          /\ UNCHANGED <<tree_, pending_attrs_>>
      BY <1>20, Zenon DEF KeepKey, Keyed, ReplaceTop, q
    <2>2. /\ q \in Seq(Frames) /\ top \in Frames /\ FramesOK(tree_, q) /\ OnTop(tree_, q, top)
          /\ Holds(top) => Drives(tree_, top) /\ Open(stack_) = Open(q) \cup {top.node}
          /\ ~Holds(top) => Open(stack_) = Open(q)
      BY <1>16, <1>20, Zenon
    <2>3. /\ f \in Frames /\ f.state = s /\ f.produced = top.produced
          /\ f.pending_key = child /\ f.node = top.node /\ f.expected = top.expected
      <3> DEFINE g == top
                 c == child
      <3>1. g \in Frames /\ c \in Nat BY <1>1, <2>2, Zenon
      <3> HIDE DEF g, c
      <3>2. /\ Keyed(g, s, c) \in Frames
            /\ Keyed(g, s, c).state = s /\ Keyed(g, s, c).produced = g.produced
            /\ Keyed(g, s, c).pending_key = c
            /\ Keyed(g, s, c).node = g.node /\ Keyed(g, s, c).expected = g.expected
        BY Zenon, <1>20, <3>1 DEF Frames, Keyed
      <3> QED BY <3>2, Zenon DEF g, c
    <2> HIDE DEF f, top
    <2>4. child \in N \ Open(stack_) BY <1>17, <1>20, Zenon
    <2>5. f.state # "array" /\ top.state # "array" /\ (Holds(f) <=> Holds(top))
      BY <1>20, <2>3 DEF Holds
    <2>6. Holds(f) => Drives(tree_, f) BY <2>2, <2>3, <2>5, Zenon DEF Drives
    <2>7. /\ Holds(f) => f.node \notin Open(q) /\ f.node \notin Keys(q) /\ f.node # child
          /\ child \in N \ Open(q)
      BY <2>2, <2>3, <2>4, <2>5, Zenon DEF OnTop
    <2>8. OnTop(tree_, q, f) BY <2>3, <2>6, <2>7, Zenon DEF OnTop
    <2>9. FramesOK(tree_, Append(q, f)) BY <2>2, <2>3, <2>8, FramesPush, Zenon
    <2>10. Open(Append(q, f)) = Open(stack_)
      <3>1. Open(Append(q, f)) = Open(q) \cup (IF Holds(f) THEN {f.node} ELSE {})
        BY <2>2, <2>3, OpenPush, Zenon
      <3>2. CASE Holds(f) BY <2>2, <2>3, <2>5, <3>1, <3>2, Zenon
      <3>3. CASE ~Holds(f)
        <4>1. Open(Append(q, f)) = Open(q) \cup {} BY <3>1, <3>3, Zenon
        <4> QED BY <2>2, <2>5, <3>3, <4>1, Zenon
      <3> QED BY <3>2, <3>3
    <2>11. TreeOK(tree_, Append(q, f)) BY <1>2, <2>9, <2>10, Zenon DEF TreeOK
    <2>12. Append(q, f) \in Seq(Frames) BY <2>2, <2>3, Pushed, Zenon
    <2>13. TreeOK(tree_, stack_') BY <2>1, <2>11, <2>12, IdlePush, ValueIdle, Zenon
    <2>14. pc' \notin {"attach", "consume"} BY <2>1
    <2> QED BY <1>5, <2>1, <2>13, <2>14
  <1>21. CASE AttachKey \/ AttachAttributeKey
    BY <1>20, <1>21, Zenon DEF AttachKey, AttachAttributeKey, Attaching
  <1>22. CASE AttachAttribute
    <2> DEFINE f == Pair(top)
               kv == <<top.pending_key, child>>
    <2>1. /\ stack_ # <<>> /\ top.state = "attribute" /\ top.pending_key # 0
          /\ pc = "attach" /\ pc' = "loop"
          /\ pending_attrs_' = push(pending_attrs_, tree_.links, kv)
          /\ tree_' = [tree_ EXCEPT !.links = @ \o kv]
          /\ stack_' = IF f.produced = f.expected THEN pop_back(stack_)
                       ELSE Append(ReplaceTop(stack_, f), ValueFrame)
      BY <1>22, Zenon DEF AttachAttribute, Attaching, Pair
    <2>2. /\ q \in Seq(Frames) /\ top \in Frames /\ FramesOK(tree_, q)
          /\ ~Holds(top) => Open(stack_) = Open(q)
          /\ top.pending_key \in N \ Open(stack_)
      BY <1>16, <2>1, Zenon
    <2>3. /\ f \in Frames /\ f.state = top.state /\ f.pending_key = 0 /\ top.pending_key \in Nat
      BY <2>2, FrameUpdates, Zenon
    <2>4. ~Holds(top) /\ ~Holds(f) BY <2>1, <2>3 DEF Holds
    <2> HIDE DEF f
    <2> DEFINE O == Open(q)
    <2>5. Open(stack_) = O BY <2>2, <2>4, Zenon
    <2>6. kv \in Seq(Nat) /\ Len(kv) = 2 /\ kv[1] = top.pending_key /\ kv[2] = child /\ 1..2 = {1, 2}
      BY <1>1, <2>3
    <2> HIDE DEF kv
    <2>7. \A i \in 1..Len(kv) : kv[i] \in N \ O BY <1>17, <2>1, <2>2, <2>5, <2>6, Zenon
    <2>8. /\ tree_' \in Trees /\ tree_'.nodes = tree_.nodes /\ tree_'.links = tree_.links \o kv
      <3>1. tree_.nodes \in Seq(Nodes) /\ tree_.links \in Seq(Nat) BY <1>1 DEF Trees
      <3>2. tree_' = [nodes |-> tree_.nodes, links |-> tree_.links \o kv] BY Zenon, <1>1, <2>1 DEF Trees
      <3>3. tree_.links \o kv \in Seq(Nat) BY <2>6, <3>1, ConcatProperties, Zenon
      <3>4. tree_' \in Trees BY <3>1, <3>2, <3>3, TreeType, Zenon
      <3>5. tree_'.nodes = tree_.nodes /\ tree_'.links = tree_.links \o kv BY <3>2
      <3> QED BY <3>4, <3>5
    <2>9. 0 \notin N /\ \A m \in N : m # 0 OBVIOUS
    <2>10. Relinked(tree_, tree_', 0, kv, 0)
      <3>1. \A m \in N : tree_.nodes[m] \in Nodes BY <1>1 DEF Trees
      <3>2. \A m \in N : SameNode(tree_.nodes[m], tree_'.nodes[m]) BY <2>8, <3>1, Zenon DEF SameNode
      <3> QED BY <2>8, <2>9, <3>2, Zenon DEF Relinked
    <2>11. NodesOK(tree_', O) /\ LinksOK(tree_', O)
      <3>1. NodesOK(tree_, O) /\ LinksOK(tree_, O) BY <1>2, <2>5, Zenon DEF TreeOK
      <3> HIDE DEF O
      <3>2. NodesOK(tree_, O \cup {0}) BY <3>1, Zenon DEF NodesOK
      <3>3. LinksOK(tree_, O \cup {0}) BY <2>9, <3>1, Zenon DEF LinksOK
      <3>4. \A i \in 1..Len(kv) : kv[i] \in (1..Len(tree_.nodes)) \ (O \cup {0}) BY <2>7, <2>9, Zenon
      <3> DEFINE z == 0
                 nw == tree_'
      <3>5. /\ z \in Nat /\ z \notin 1..Len(tree_.nodes) /\ Relinked(tree_, nw, z, kv, z)
            /\ NodesOK(tree_, O \cup {z}) /\ LinksOK(tree_, O \cup {z})
            /\ \A i \in 1..Len(kv) : kv[i] \in (1..Len(tree_.nodes)) \ (O \cup {z})
        BY SMTT(15), <2>9, <2>10, <3>2, <3>3, <3>4
      <3> HIDE DEF z, nw
      <3>6. NodesOK(nw, O) /\ LinksOK(nw, O) BY <1>1, <2>6, <3>5, RelinkedOK, Zenon
      <3> QED BY <3>6, Zenon DEF nw
    <2>12. FramesOK(tree_', q)
      <3> DEFINE nw == tree_'
      <3>1. nw.nodes = tree_.nodes BY <2>8, Zenon
      <3> HIDE DEF nw
      <3>2. FramesOK(nw, q) BY <2>2, <3>1, FramesKept, Zenon
      <3> QED BY <3>2, Zenon DEF nw
    <2>13. TreeOK(tree_', q) BY <2>11, <2>12, Zenon DEF TreeOK
    <2>14. TreeOK(tree_', stack_')
      <3> DEFINE nw == tree_'
      <3>1. TreeOK(nw, q) BY <2>13, Zenon
      <3> HIDE DEF nw
      <3>2. CASE f.produced = f.expected BY <2>1, <3>1, <3>2, Zenon DEF q, nw
      <3>3. CASE f.produced # f.expected
        <4>1. stack_' = Append(Append(q, f), ValueFrame) BY <2>1, <3>3, Zenon DEF ReplaceTop, q
        <4>2. TreeOK(nw, Append(q, f)) /\ Append(q, f) \in Seq(Frames)
          BY <2>2, <2>3, <2>4, <3>1, IdlePush, Pushed, Zenon
        <4>3. TreeOK(nw, Append(Append(q, f), ValueFrame)) BY <4>2, IdlePush, ValueIdle, Zenon
        <4> QED BY <4>1, <4>3, Zenon DEF nw
      <3> QED BY <3>2, <3>3
    <2>15. AttrsOK(tree_', pending_attrs_') BY <1>1, <1>2, <2>1, <2>6, <2>8, AttrsGrow, Zenon
    <2>16. pc' \notin {"attach", "consume"} BY <2>1
    <2> QED BY <2>14, <2>15, <2>16, Zenon DEF TreeInv
  <1>23. CASE Consume \/ \E s \in Streams : Reset(s)
    <2>1. tree_' = NewTree /\ stack_' = <<>> /\ pending_attrs_' = NoAttributes /\ pc' \in {"parse", "read"}
      BY <1>23, Zenon DEF Consume, Reset
    <2>2. pc' \notin {"attach", "consume"} BY <2>1
    <2> QED BY <2>1, <2>2, TreeEmpty, Zenon DEF TreeInv
  <1>24. CASE UNCHANGED vars BY <1>4, <1>24, Zenon DEF vars
  <1> QED BY <1>6, <1>7, <1>8, <1>9, <1>11, <1>13, <1>14, <1>15, <1>18, <1>19, <1>21, <1>22, <1>23,
             <1>24, Zenon DEF ParserNext

LEMMA TreeFacts ==
  ASSUME Types, FramesInv, TreeInv
  PROVE  TreeSound
  <1> DEFINE N == 1..Len(tree_.nodes)
             a == Len(tree_.links)
  <1>1. DOMAIN tree_.nodes = N /\ DOMAIN tree_.links = 1..a BY DEF Types, Trees
  <1>2. NodesOK(tree_, Open(stack_)) /\ LinksOK(tree_, Open(stack_)) BY Zenon DEF TreeInv, TreeOK
  <1>3. \A i \in 1..a : tree_.links[i] \in N /\ Before(tree_, tree_.links[i], i)
    BY <1>2, Zenon DEF LinksOK
  <1>4. \A n \in N : /\ Before(tree_, n, a + 1) /\ tree_.nodes[n].kind # "attribute"
                     /\ tree_.nodes[n].attr_count % 2 = 0
    BY <1>2, Zenon DEF NodesOK, NodeOK
  <1>5. ASSUME pc = "consume"
        PROVE  child \in N /\ \A n \in N : tree_.nodes[n].child_count = Inner(tree_.nodes[n])
    <2>1. stack_ = <<>> BY <1>5 DEF FramesInv
    <2>2. Len(<<>>) = 0 /\ 1..0 = {} OBVIOUS
    <2>3. \A n : n \notin Open(stack_) BY <2>1, <2>2, Zenon DEF Open
    <2>4. child \in N BY <1>5 DEF TreeInv
    <2> QED BY <1>2, <2>3, <2>4, Zenon DEF NodesOK
  <1> QED BY <1>1, <1>3, <1>4, <1>5, Zenon DEF TreeSound, Before

\* Every link of the raw tree names a complete node whose own links come before it, and
\* in the tree that is handed out every node has all its children and whole pairs of
\* attributes: build_message() stays within the tree and ends.
THEOREM TreesSound == ParserSpec => []TreeSound
  <1>1. ParserInit => TreeInv BY TreeInit
  <1>2. StateInv /\ TreeInv /\ [ParserNext]_vars => TreeInv' BY TreeNext, Zenon DEF StateInv
  <1>3. StateInv /\ TreeInv => TreeSound BY TreeFacts, Zenon DEF StateInv
  <1> QED BY <1>1, <1>2, <1>3, StateInvariant, PTL DEF ParserSpec

=============================================================================
