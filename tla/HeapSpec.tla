------------------------------ MODULE HeapSpec ------------------------------
(***************************************************************************)
(* What malloc and free promise: an allocated block overlaps no other one, *)
(* and stays what it is until it is freed.  Counting the outstanding       *)
(* allocations tells a block handed out twice from one handed out once.    *)
(***************************************************************************)
EXTENDS Integers

CONSTANT Block     \* the blocks there can be: records [base, len]

VARIABLES
  owned,           \* the blocks that callers own
  outstanding      \* allocations made and not yet given back

Overlap(x, y) == x.base < y.base + y.len /\ y.base < x.base + x.len

HeapSpecInit == owned = {} /\ outstanding = 0

Alloc(x) ==
  /\ \A y \in owned : ~Overlap(x, y)
  /\ owned' = owned \cup {x}
  /\ outstanding' = outstanding + 1

Release(x) ==
  /\ x \in owned
  /\ owned' = owned \ {x}
  /\ outstanding' = outstanding - 1

HeapSpecNext == \E x \in Block : Alloc(x) \/ Release(x)

Spec == HeapSpecInit /\ [][HeapSpecNext]_<<owned, outstanding>>
=============================================================================
