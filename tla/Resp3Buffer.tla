---------------------------- MODULE Resp3Buffer ----------------------------
(***************************************************************************)
(* resp3::buffer as operations on a record.  mem is the vector, so that    *)
(* position i of the code is mem[i + 1]: the unread bytes are              *)
(* mem[read_pos + 1 .. write_pos].  storage names the memory block, which  *)
(* changes when the vector grows: a position is only meaningful together   *)
(* with its block.                                                         *)
(***************************************************************************)
EXTENDS Integers, Sequences

CONSTANTS InitialCapacity,   \* 4096 in the code
          MinRead,           \* the default of prepare(), 4096 in the code
          NoByte             \* a position nothing was written to

ASSUME BufferAssumption == InitialCapacity \in Nat /\ MinRead \in Nat \ {0}

Capacity(b) == Len(b.mem)

Writable(b) == Capacity(b) - b.write_pos

size(b) == b.write_pos - b.read_pos

NewBuffer ==
    LET cap == IF InitialCapacity = 0 THEN 1 ELSE InitialCapacity
    IN  [mem |-> [i \in 1..cap |-> NoByte], storage |-> 1, read_pos |-> 0, write_pos |-> 0]

\* new is the size of the vector after ensure_writable(MinRead): it is doubled until
\* MinRead bytes fit behind write_pos.
GrowsTo(b, new) ==
    IF Writable(b) >= MinRead
      THEN new = Capacity(b)
      ELSE /\ new \in Nat /\ new - b.write_pos >= MinRead
           /\ \E k \in 1..MinRead :
                 new = Capacity(b) * 2^k /\ (new \div 2) - b.write_pos < MinRead

Capacities(b) == {Capacity(b) * 2^k : k \in 0..MinRead}

\* Mutant: the space of the bytes already parsed is reused before the buffer grows.
prepare_reusing(b, new) ==
    LET c == [b EXCEPT !.mem = [i \in 1..Capacity(b) |->
                                  IF i <= size(b) THEN b.mem[b.read_pos + i] ELSE b.mem[i]],
                       !.read_pos = 0, !.write_pos = size(b)]
    IN  IF new = Capacity(b)
          THEN b
        ELSE IF Writable(c) >= MinRead
          THEN c
        ELSE [c EXCEPT !.mem = [i \in 1..new |-> IF i <= Capacity(b) THEN c.mem[i] ELSE NoByte],
                       !.storage = @ + 1]

\* The vector gets the size new. The bytes keep their positions, in a new block.
prepare(b, new) ==
    IF new = Capacity(b)
      THEN b
      ELSE [b EXCEPT !.mem = [i \in 1..new |-> IF i <= Capacity(b) THEN b.mem[i] ELSE NoByte],
                     !.storage = @ + 1]

\* bytes are written to the prepared space and committed.
commit(b, bytes) ==
    [b EXCEPT !.mem = [i \in 1..Capacity(b) |->
                         IF i \in (b.write_pos + 1)..(b.write_pos + Len(bytes))
                           THEN bytes[i - b.write_pos] ELSE b.mem[i]],
              !.write_pos = @ + Len(bytes)]

consume(b, n) == [b EXCEPT !.read_pos = @ + n]

reset(b) == [b EXCEPT !.read_pos = 0, !.write_pos = 0]

\* Mutant: the positions change and the bytes stay.
compact_in_place(b) == [b EXCEPT !.read_pos = 0, !.write_pos = size(b)]

\* The unread bytes move to the front of the same block.
compact(b) ==
    [b EXCEPT !.mem = [i \in 1..Capacity(b) |->
                         IF i <= size(b) THEN b.mem[b.read_pos + i] ELSE b.mem[i]],
              !.read_pos = 0,
              !.write_pos = size(b)]

=============================================================================
