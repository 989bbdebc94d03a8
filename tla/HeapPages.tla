----------------------------- MODULE HeapPages -----------------------------
(***************************************************************************)
(* The memory that both halves of kernel/core/alloc.c share: the pages     *)
(* that sbrk has handed out and the "size" word of the bin header at the   *)
(* front of each bin.  Pages are numbered from the start of the heap.      *)
(***************************************************************************)
EXTENDS BinGeometry

CONSTANT MaxPages    \* bound: the pages the heap may grow to

ASSUME MaxPagesAssumption == MaxPages \in Nat

\* Size arithmetic does not wrap before the heap is full.
ASSUME WordAssumption == WORD > MaxPages * PAGE_SIZE

Page == 0 .. MaxPages - 1

VARIABLES
  heapEnd,           \* pages handed out so far (heap_end of mem.c)
  hdrSize            \* header->size of the bin that starts at a page

\* The size word of a page on which no bin header has been written yet.
Untouched == -1

\* sbrk(PAGE_SIZE * n).  Running out of frames halts the machine inside
\* alloc_frame, so there is no step beyond MaxPages.
Sbrk(n) ==
  /\ heapEnd + n <= MaxPages
  /\ heapEnd' = heapEnd + n

IsBig(p) == hdrSize[p] > NUM_BINS

HeapInit ==
  /\ heapEnd = 0
  /\ hdrSize = [p \in Page |-> Untouched]
=============================================================================
