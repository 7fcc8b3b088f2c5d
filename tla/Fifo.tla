-------------------------------- MODULE Fifo --------------------------------
(***************************************************************************)
(* What detail::ring_queue promises its users (detail/ring_queue.hpp): a   *)
(* queue of values that are taken out in the order in which they were put  *)
(* in, and that a move hands over to another queue without loss, copy or   *)
(* reordering.                                                             *)
(***************************************************************************)
EXTENDS Sequences, Naturals

CONSTANTS Queues,   \* the queue objects
          Values,   \* the elements
          Gone      \* the content of an object outside its lifetime

VARIABLE items      \* items[q]: the elements of q, oldest first

Live(q) == items[q] # Gone

FifoInit == items = [q \in Queues |-> Gone]

Create(q) ==
    /\ ~Live(q)
    /\ items' = [items EXCEPT ![q] = <<>>]

PutLast(q, v) ==
    /\ Live(q)
    /\ items' = [items EXCEPT ![q] = Append(@, v)]

TakeFirst(q) ==
    /\ Live(q) /\ items[q] # <<>>
    /\ items' = [items EXCEPT ![q] = Tail(@)]

Empty(q) ==
    /\ Live(q)
    /\ items' = [items EXCEPT ![q] = <<>>]

\* dst, old or new, loses what it had and takes the first n elements of src.
\* Only a move that is interrupted by an exception leaves elements in src.
Transfer(dst, src, n) ==
    /\ dst # src /\ Live(src)
    /\ items' = [items EXCEPT ![dst] = SubSeq(items[src], 1, n),
                              ![src] = SubSeq(items[src], n + 1, Len(items[src]))]

Discard(q) ==
    /\ Live(q)
    /\ items' = [items EXCEPT ![q] = Gone]

FifoNext ==
    \/ \E q \in Queues : Create(q) \/ TakeFirst(q) \/ Empty(q) \/ Discard(q)
    \/ \E q \in Queues, v \in Values : PutLast(q, v)
    \/ \E dst, src \in Queues : Live(src) /\ \E n \in 0..Len(items[src]) : Transfer(dst, src, n)

FifoSpec == FifoInit /\ [][FifoNext]_items

=============================================================================
