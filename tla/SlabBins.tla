------------------------------ MODULE SlabBins ------------------------------
(***************************************************************************)
(* The small bins of kernel/core/alloc.c.  A page of bucket b is cut into  *)
(* Cells(b) cells; its free cells form a stack threaded through the cells, *)
(* and the pages of a bucket that have a free cell form a list from which  *)
(* klmalloc always takes the first page.                                   *)
(*                                                                         *)
(* A pointer is <<page, cell>>: klfree recovers the page by masking the    *)
(* low bits of the address, which is sound because a cell never leaves its *)
(* page (checked in BinSizes).                                             *)
(***************************************************************************)
EXTENDS HeapPages, Sequences, Functions

VARIABLES
  binHead,   \* klmalloc_bin_head: the list of pages of each bucket
  stack,     \* header->head of a small page: its free cells, top first
  live       \* the cells that callers own (history: no code keeps it)

slabVars == <<heapEnd, hdrSize, binHead, stack, live>>

SlabInit ==
  /\ HeapInit
  /\ binHead = [b \in SmallBin |-> <<>>]
  /\ stack = [p \in Page |-> <<>>]
  /\ live = {}
-----------------------------------------------------------------------------
\* A mistake: the loop that links the cells ends one cell too early.
FreshStack_Short(b) == [i \in 1 .. Cells(b) - 1 |-> i - 1]

\* A mistake: every cell is linked to the first.
FreshStack_Looped(b) == [i \in 1 .. Cells(b) |-> 0]

\* The page klmalloc pops a cell from, and its stack at that moment: the
\* first page of the bucket's list, or a fresh one whose cells are linked in
\* address order.
FreshStack(b) == [i \in 1 .. Cells(b) |-> i - 1]

TopPage(b) == IF binHead[b] = <<>> THEN heapEnd ELSE Head(binHead[b])

TopStack(b) == IF binHead[b] = <<>> THEN FreshStack(b) ELSE stack[TopPage(b)]

\* The pointer that klmalloc returns for bucket b.
NextCell(b) == <<TopPage(b), Head(TopStack(b))>>

\* if (!bin_header): take a page from sbrk and make it a bin of bucket b.
GrowBin(b) ==
  IF binHead[b] = <<>>
    THEN /\ Sbrk(1)
         /\ hdrSize' = [hdrSize EXCEPT ![heapEnd] = b]
    ELSE UNCHANGED <<heapEnd, hdrSize>>

\* The pages behind the one klmalloc takes.
RestOfList(b) == IF binHead[b] = <<>> THEN <<>> ELSE Tail(binHead[b])

\* klmalloc_list_decouple: the list starts at the page klmalloc took unless
\* its stack has just become empty.
DecoupleIfEmpty(b) ==
  IF Tail(TopStack(b)) = <<>>
    THEN RestOfList(b)
    ELSE <<TopPage(b)>> \o RestOfList(b)

\* klmalloc of a size that falls in bucket b.
MallocSmall(b) ==
  /\ GrowBin(b)
  /\ stack' = [stack EXCEPT ![TopPage(b)] = Tail(TopStack(b))]
  /\ binHead' = [binHead EXCEPT ![b] = DecoupleIfEmpty(b)]
  /\ live' = live \cup {NextCell(b)}

\* A mistake: a page that was full is not put back on its bucket's list.
FreeSmall_NoReinsert(p, c) ==
  /\ <<p, c>> \in live
  /\ ~IsBig(p)
  /\ stack' = [stack EXCEPT ![p] = <<c>> \o @]
  /\ live' = live \ {<<p, c>>}
  /\ UNCHANGED <<heapEnd, hdrSize, binHead>>

\* A mistake: the page is put on the list even when it is there already.
FreeSmall_AlwaysInsert(p, c) ==
  /\ <<p, c>> \in live
  /\ ~IsBig(p)
  /\ binHead' = [binHead EXCEPT ![hdrSize[p]] = <<p>> \o @]
  /\ stack' = [stack EXCEPT ![p] = <<c>> \o @]
  /\ live' = live \ {<<p, c>>}
  /\ UNCHANGED <<heapEnd, hdrSize>>

\* klfree of a cell its caller owns.
FreeSmall(p, c) ==
  /\ <<p, c>> \in live
  /\ ~IsBig(p)
  /\ binHead' = IF stack[p] = <<>>
                  THEN [binHead EXCEPT ![hdrSize[p]] = <<p>> \o @]
                  ELSE binHead
  /\ stack' = [stack EXCEPT ![p] = <<c>> \o @]
  /\ live' = live \ {<<p, c>>}
  /\ UNCHANGED <<heapEnd, hdrSize>>

\* The other half of the allocator takes n pages for a big bin.
GrowForBigBin(n) ==
  /\ Sbrk(n)
  /\ hdrSize' = [hdrSize EXCEPT ![heapEnd] = BigBinSize(n)]
  /\ UNCHANGED <<binHead, stack, live>>

SlabNext ==
  \/ \E b \in SmallBin : MallocSmall(b)
  \/ \E ptr \in live : FreeSmall(ptr[1], ptr[2])
  \/ \E n \in 1 .. MaxPages : GrowForBigBin(n)

SlabSpec == SlabInit /\ [][SlabNext]_slabVars
-----------------------------------------------------------------------------
(* Invariants.                                                             *)

LiveCells(p) == {ptr[2] : ptr \in {q \in live : q[1] = p}}

\* The words of the allocator hold what their C types hold; in particular no
\* pointer names a cell in front of the first one, where the header is.
SlabTypeOK ==
  /\ heapEnd \in 0 .. MaxPages
  /\ hdrSize \in [Page -> Int]
  /\ binHead \in [SmallBin -> Seq(Page)]
  /\ stack \in [Page -> Seq(Nat)]
  /\ live \subseteq Page \X Nat

\* Pages that klmalloc has not made into a small bin hold no cells, and the
\* pages behind the heap's end carry no header.
OnlySmallPagesHaveCells ==
  \A p \in Page :
    /\ p >= heapEnd => hdrSize[p] = Untouched
    /\ hdrSize[p] \notin SmallBin => stack[p] = <<>> /\ LiveCells(p) = {}

\* Every cell of a small page is either free, and then on the page's stack
\* once, or owned by one caller: klmalloc and klfree neither lose a cell nor
\* hand one out twice.
CellsPartition ==
  \A p \in Page : hdrSize[p] \in SmallBin =>
    /\ IsInjective(stack[p])
    /\ Range(stack[p]) \cap LiveCells(p) = {}
    /\ Range(stack[p]) \cup LiveCells(p) = 0 .. Cells(hdrSize[p]) - 1

\* The list of a bucket holds, once each, exactly the bucket's pages that
\* have a free cell.  klmalloc_list_decouple relies on it (it unlinks the
\* first page whatever page it is given), and so does klfree, which decides
\* from the stack alone whether a page is on the list.
ListExact ==
  \A b \in SmallBin :
    /\ IsInjective(binHead[b])
    /\ Range(binHead[b]) = {p \in Page : hdrSize[p] = b /\ stack[p] # <<>>}

\* Whatever small size is asked for next, the pointer klmalloc would return
\* is nobody's.
NextCellIsFree ==
  \A b \in SmallBin :
    binHead[b] # <<>> \/ heapEnd < MaxPages => NextCell(b) \notin live
-----------------------------------------------------------------------------
(* Action property.                                                        *)

\* A bucket takes a page from sbrk only when all its pages are full: free
\* cells are never stranded on a page that klmalloc no longer finds.
GrowStep ==
  \A b \in SmallBin :
    (\E p \in Page : hdrSize[p] # b /\ hdrSize'[p] = b)
      => \A q \in Page : hdrSize[q] = b => stack[q] = <<>>

GrowOnlyWhenFull == [][GrowStep]_slabVars
=============================================================================
