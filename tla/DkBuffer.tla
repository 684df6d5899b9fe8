------------------------------ MODULE DkBuffer ------------------------------
(***************************************************************************)
(* dk_buffer, the growing byte buffer under the bytecode, the data stack   *)
(* and the call stack.  A buffer is its header: size, capacity and the     *)
(* number of the heap block that holds its data.  heap_realloc may extend  *)
(* the block in place or move it; when it moves, the number changes and a  *)
(* raw pointer into the old block dangles.  Sizes are in the unit of the   *)
(* module that uses the buffer (8-byte words, bytes).                      *)
(***************************************************************************)
EXTENDS Integers

CONSTANT InitialCapacity   \* kilobytes(4)

ASSUME CapacityAssumption == InitialCapacity \in Nat \ {0}

Buffer      == [size : Nat, capacity : Nat, block : Nat]
EmptyBuffer == [size |-> 0, capacity |-> 0, block |-> 0]

(* The pointer dk_buffer_push returns: a place in one heap block.          *)
Pointer     == [block : Nat, off : Nat]

Grows(b, n)     == b.size + n > b.capacity
(* Not the code: grows by one instead of doubling.                         *)
NextCapacityByOne(b) == IF b.capacity = 0 THEN InitialCapacity ELSE b.capacity + 1
NextCapacity(b) == IF b.capacity = 0 THEN InitialCapacity ELSE 2 * b.capacity

(* Not the code: reallocates but forgets buffer->capacity = next_size.      *)
PushWithoutCapacity(b, n, moved) ==
    [b EXCEPT !.size = @ + n, !.block = IF b.capacity = 0 THEN @ + 1 ELSE @]

(* dk_buffer_push: at most one doubling, moving the block if moved says so *)
(* (a first allocation is always a new block).                             *)
Push(b, n, moved) ==
    IF Grows(b, n)
    THEN [size     |-> b.size + n,
          capacity |-> NextCapacity(b),
          block    |-> IF moved \/ b.capacity = 0 THEN b.block + 1 ELSE b.block]
    ELSE [b EXCEPT !.size = @ + n]

(* The assertion after the growth: one doubling was enough.                *)
PushFits(b, n) == b.size + n <= IF Grows(b, n) THEN NextCapacity(b) ELSE b.capacity

(* Not the code: computes the returned pointer before growing.             *)
PushedBeforeGrowth(before, after) == [block |-> before.block, off |-> before.size]

Pushed(before, after) == [block |-> after.block, off |-> before.size]

(* dk_buffer_pop, and the assertions of pop, get and read.                 *)
PopFits(b, n)      == n <= b.size
Pop(b, n)          == [b EXCEPT !.size = @ - n]
GetFits(b, pos, n) == pos + n <= b.size

(* A dereference of p reads or writes freed memory.                        *)
Stale(b, p) == p.block # b.block
=============================================================================
