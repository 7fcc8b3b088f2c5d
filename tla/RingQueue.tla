----------------------------- MODULE RingQueue -----------------------------
(***************************************************************************)
(* detail::ring_queue: a FIFO in a ring buffer that grows by doubling.     *)
(* Slots of raw memory are modelled one by one, so that a slot that is     *)
(* read before it is constructed, or constructed twice, is visible.        *)
(* Every object is used by one thread (the pipeline's strand).             *)
(***************************************************************************)
EXTENDS Integers, Sequences, FiniteSets

CONSTANTS Queues, Values,
          Raw,            \* a slot without an object
          Gone,           \* the content of a queue outside its lifetime
          NoAllocator,    \* there is no storage
          Allocators,     \* allocator values; equal ones may free each other's memory
          MinCapacity,    \* 8 in the code
          MaxDoublings,   \* bound: how often one growth doubles
          MaxLength       \* bound: elements in one queue

ASSUME RingAssumption ==
    /\ MinCapacity \in Nat \ {0} /\ MaxDoublings \in Nat /\ MaxLength \in Nat
    /\ Raw \notin Values
    /\ NoAllocator \notin Allocators
    /\ Gone \notin Seq(Values)

VARIABLES
    propagates,   \* propagate_on_container_move_assignment, a trait of the type
    alive,        \* alive[q]: the object q is in its lifetime
    alloc_,       \* alloc_[q]
    home,         \* home[q]: the allocator that allocated data_[q], NoAllocator for nullptr
    data_,        \* data_[q]: the slots 0 .. cap_ - 1
    cap_,
    head_,
    size_

vars == <<propagates, alive, alloc_, home, data_, cap_, head_, size_>>

NoSlots == [i \in {} |-> Raw]

RingInit ==
    /\ propagates \in BOOLEAN
    /\ alive = [q \in Queues |-> FALSE]
    /\ alloc_ \in [Queues -> Allocators]
    /\ home = [q \in Queues |-> NoAllocator]
    /\ data_ = [q \in Queues |-> NoSlots]
    /\ cap_ = [q \in Queues |-> 0]
    /\ head_ = [q \in Queues |-> 0]
    /\ size_ = [q \in Queues |-> 0]

-----------------------------------------------------------------------------
(* Slots *)

Slot(head, i, cap) == (head + i) % cap

\* The slots of the n elements that start at head.
Window(head, n, cap) == {Slot(head, i, cap) : i \in 0..(n - 1)}

\* at(i) for every i: what q holds, oldest first.
Content(q) == [i \in 1..size_[q] |-> data_[q][Slot(head_[q], i - 1, cap_[q])]]

Max2(a, b) == IF a > b THEN a ELSE b

\* new is the capacity after ensure_capacity(need) in a queue of capacity cap.
GrowsTo(cap, need, new) ==
    IF cap >= need
      THEN new = cap
      ELSE /\ new \in Nat /\ new >= need
           /\ \E k \in 0..MaxDoublings :
                 /\ new = Max2(MinCapacity, cap) * 2^k
                 /\ k > 0 => new < 2 * need

Capacities(cap) == {cap} \cup {Max2(MinCapacity, cap) * 2^k : k \in 0..MaxDoublings}

\* Mutant: one slot more than was allocated is filled.
Grown_beyond(q, new) ==
    IF new = cap_[q]
      THEN data_[q]
      ELSE [i \in 0..new |->
              IF i < size_[q] THEN data_[q][Slot(head_[q], i, cap_[q])] ELSE Raw]

\* Mutant: the slots are copied as they lie, without unwrapping the ring.
Grown_wrapped(q, new) ==
    IF new = cap_[q]
      THEN data_[q]
      ELSE [i \in 0..(new - 1) |-> IF i < size_[q] THEN data_[q][i] ELSE Raw]

\* The slots of q after ensure_capacity() made room for new slots: the elements
\* are moved to the front, and the old storage is destroyed.
Grown(q, new) ==
    IF new = cap_[q]
      THEN data_[q]
      ELSE [i \in 0..(new - 1) |->
              IF i < size_[q] THEN data_[q][Slot(head_[q], i, cap_[q])] ELSE Raw]

\* Mutant: head_ keeps its place in the new storage.
GrownHead_kept(q, new) == head_[q]

GrownHead(q, new) == IF new = cap_[q] THEN head_[q] ELSE 0

GrownHome(q, new) == IF new = cap_[q] THEN home[q] ELSE alloc_[q]

-----------------------------------------------------------------------------
(* Operations *)

\* The default constructor, with any allocator value.
Construct(q, a) ==
    /\ ~alive[q]
    /\ alive' = [alive EXCEPT ![q] = TRUE]
    /\ alloc_' = [alloc_ EXCEPT ![q] = a]
    /\ UNCHANGED <<propagates, home, data_, cap_, head_, size_>>

\* dst takes the storage of src, which is left without any.
steal_storage(dst, src) ==
    /\ home' = [home EXCEPT ![dst] = home[src], ![src] = NoAllocator]
    /\ data_' = [data_ EXCEPT ![dst] = data_[src], ![src] = NoSlots]
    /\ cap_' = [cap_ EXCEPT ![dst] = cap_[src], ![src] = 0]
    /\ head_' = [head_ EXCEPT ![dst] = head_[src], ![src] = 0]
    /\ size_' = [size_ EXCEPT ![dst] = size_[src], ![src] = 0]

MoveConstruct(dst, src) ==
    /\ ~alive[dst] /\ alive[src]
    /\ alive' = [alive EXCEPT ![dst] = TRUE]
    /\ alloc_' = [alloc_ EXCEPT ![dst] = alloc_[src]]
    /\ steal_storage(dst, src)
    /\ UNCHANGED propagates

\* emplace_back() of v, after which the queue has capacity new.
Push(q, v, new) ==
    /\ alive[q] /\ size_[q] < MaxLength
    /\ GrowsTo(cap_[q], size_[q] + 1, new)
    /\ data_' = [data_ EXCEPT ![q] =
                   [Grown(q, new) EXCEPT ![Slot(GrownHead(q, new), size_[q], new)] = v]]
    /\ head_' = [head_ EXCEPT ![q] = GrownHead(q, new)]
    /\ home' = [home EXCEPT ![q] = GrownHome(q, new)]
    /\ cap_' = [cap_ EXCEPT ![q] = new]
    /\ size_' = [size_ EXCEPT ![q] = @ + 1]
    /\ UNCHANGED <<propagates, alive, alloc_>>

\* emplace_back() that throws. When the allocation, or a copy made by
\* ensure_capacity(), throws, nothing changes (a stuttering step); when the
\* construction of the new element throws, the growth stays. Moving an element does not throw, as for the
\* items of the pipeline: a move that threw half way would leave the elements
\* before it moved from.
PushThrows(q, new) ==
    /\ alive[q] /\ size_[q] < MaxLength
    /\ GrowsTo(cap_[q], size_[q] + 1, new)
    /\ data_' = [data_ EXCEPT ![q] = Grown(q, new)]
    /\ head_' = [head_ EXCEPT ![q] = GrownHead(q, new)]
    /\ home' = [home EXCEPT ![q] = GrownHome(q, new)]
    /\ cap_' = [cap_ EXCEPT ![q] = new]
    /\ UNCHANGED <<propagates, alive, alloc_, size_>>

\* head_ after n calls of pop_front() in q.
PoppedHead(q, n) ==
    IF n = size_[q] THEN 0 ELSE Slot(head_[q], n, cap_[q])

\* The slots after n calls of pop_front(): each destroys the element at head_.
Popped(q, n) ==
    [i \in DOMAIN data_[q] |-> IF i \in Window(head_[q], n, cap_[q]) THEN Raw ELSE data_[q][i]]

pop_front(q) ==
    /\ alive[q] /\ size_[q] > 0
    /\ data_' = [data_ EXCEPT ![q] = Popped(q, 1)]
    /\ head_' = [head_ EXCEPT ![q] = PoppedHead(q, 1)]
    /\ size_' = [size_ EXCEPT ![q] = @ - 1]
    /\ UNCHANGED <<propagates, alive, alloc_, home, cap_>>

clear(q) ==
    /\ alive[q]
    /\ data_' = [data_ EXCEPT ![q] = Popped(q, size_[q])]
    /\ head_' = [head_ EXCEPT ![q] = 0]
    /\ size_' = [size_ EXCEPT ![q] = 0]
    /\ UNCHANGED <<propagates, alive, alloc_, home, cap_>>

\* clear() and the deallocation: the object ends without storage.
Destroy(q) ==
    /\ alive[q]
    /\ alive' = [alive EXCEPT ![q] = FALSE]
    /\ home' = [home EXCEPT ![q] = NoAllocator]
    /\ data_' = [data_ EXCEPT ![q] = NoSlots]
    /\ cap_' = [cap_ EXCEPT ![q] = 0]
    /\ head_' = [head_ EXCEPT ![q] = 0]
    /\ size_' = [size_ EXCEPT ![q] = 0]
    /\ UNCHANGED <<propagates, alloc_>>

\* Mutant: storage is stolen whatever the allocators are.
can_steal_storage_from_always(dst, src) == TRUE

can_steal_storage_from(dst, src) == alloc_[dst] = alloc_[src]

\* Move assignment with a propagating allocator: clear_and_deallocate(), then
\* the allocator and the storage of src.
MoveAssignPropagating(dst, src) ==
    /\ propagates
    /\ alive[dst] /\ alive[src] /\ dst # src
    /\ alloc_' = [alloc_ EXCEPT ![dst] = alloc_[src]]
    /\ steal_storage(dst, src)
    /\ UNCHANGED <<propagates, alive>>

MoveAssignStealing(dst, src) ==
    /\ ~propagates
    /\ alive[dst] /\ alive[src] /\ dst # src
    /\ can_steal_storage_from(dst, src)
    /\ steal_storage(dst, src)
    /\ UNCHANGED <<propagates, alive, alloc_>>

\* Move assignment between different allocators: dst is cleared and takes the
\* elements one by one. n of them have been moved when the loop ends or a call of
\* emplace_back() throws; new is the capacity of dst then.
MoveAssignElements(dst, src, n, new) ==
    /\ ~propagates
    /\ alive[dst] /\ alive[src] /\ dst # src
    /\ ~can_steal_storage_from(dst, src)
    /\ n \in 0..size_[src]
    /\ \/ GrowsTo(cap_[dst], n, new)
       \/ n < size_[src] /\ GrowsTo(cap_[dst], n + 1, new)
    /\ data_' = [data_ EXCEPT
         ![dst] = [i \in 0..(new - 1) |-> IF i < n THEN Content(src)[i + 1] ELSE Raw],
         ![src] = Popped(src, n)]
    /\ home' = [home EXCEPT ![dst] = GrownHome(dst, new)]
    /\ cap_' = [cap_ EXCEPT ![dst] = new]
    /\ head_' = [head_ EXCEPT ![dst] = 0, ![src] = PoppedHead(src, n)]
    /\ size_' = [size_ EXCEPT ![dst] = n, ![src] = @ - n]
    /\ UNCHANGED <<propagates, alive, alloc_>>

RingNext ==
    \/ \E q \in Queues, a \in Allocators : Construct(q, a)
    \/ \E q \in Queues : pop_front(q)
    \/ \E q \in Queues : clear(q)
    \/ \E q \in Queues : Destroy(q)
    \/ \E q \in Queues : \E new \in Capacities(cap_[q]), v \in Values : Push(q, v, new)
    \/ \E q \in Queues : \E new \in Capacities(cap_[q]) : PushThrows(q, new)
    \/ \E dst, src \in Queues : MoveConstruct(dst, src)
    \/ \E dst, src \in Queues : MoveAssignPropagating(dst, src)
    \/ \E dst, src \in Queues : MoveAssignStealing(dst, src)
    \/ \E dst, src \in Queues : \E n \in 0..size_[src], new \in Capacities(cap_[dst]) :
          MoveAssignElements(dst, src, n, new)

RingSpec == RingInit /\ [][RingNext]_vars

-----------------------------------------------------------------------------
(* Properties *)

RingTypeOK ==
    /\ propagates \in BOOLEAN
    /\ alive \in [Queues -> BOOLEAN]
    /\ alloc_ \in [Queues -> Allocators]
    /\ home \in [Queues -> Allocators \cup {NoAllocator}]
    /\ cap_ \in [Queues -> Nat] /\ head_ \in [Queues -> Nat] /\ size_ \in [Queues -> Nat]
    /\ DOMAIN data_ = Queues
    /\ \A q \in Queues : data_[q] \in [0..(cap_[q] - 1) -> Values \cup {Raw}]

\* No element is leaked, destroyed twice or read before it is constructed: in
\* the storage of every queue exactly the slots of the window that starts at
\* head_ and has size_ elements hold an object, through wrap-around, growth and
\* every kind of move.
LiveSlots ==
    \A q \in Queues :
        /\ size_[q] <= cap_[q]
        /\ cap_[q] > 0 => head_[q] < cap_[q]
        /\ \A i \in 0..(cap_[q] - 1) :
              data_[q][i] # Raw <=> i \in Window(head_[q], size_[q], cap_[q])

\* Storage is given back to an allocator that may free it: the storage of a
\* queue, if it has any, was allocated by an allocator equal to alloc_, which is
\* the one clear_and_deallocate(), ensure_capacity() and the destructor use.
StorageHome ==
    \A q \in Queues : home[q] = (IF cap_[q] = 0 THEN NoAllocator ELSE alloc_[q])

\* The ring buffer implements the FIFO: every operation does to the contents
\* what Fifo says, and one that throws loses nothing.
AbstractItems == [q \in Queues |-> IF alive[q] THEN Content(q) ELSE Gone]

F == INSTANCE Fifo WITH items <- AbstractItems

ImplementsFifo == F!FifoSpec

=============================================================================
