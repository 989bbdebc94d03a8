------------------------------ MODULE KlMalloc ------------------------------
(***************************************************************************)
(* malloc, free, realloc and calloc of kernel/core/alloc.c: the small and  *)
(* the big bins behind one interface, sharing the heap's pages.            *)
(*                                                                         *)
(* Nothing else runs on the heap while a call is in progress (the handlers *)
(* of interrupts do not allocate), so a call is one step; realloc, which   *)
(* calls klmalloc and then klfree, is two, with "pending" in between.      *)
(***************************************************************************)
EXTENDS SlabBins, BigBins

CONSTANTS
  SmallRequest,      \* bound: the small sizes that callers ask for
  CallocArgs,        \* bound: the pairs <<nmemb, size>> given to calloc
  ReallocMayShrink   \* TRUE if callers may realloc to less than they had

ASSUME RequestAssumption ==
  /\ SmallRequest \subseteq 1 .. WORD - 1
  /\ CallocArgs \subseteq (0 .. WORD - 1) \X (0 .. WORD - 1)
  /\ ReallocMayShrink \in BOOLEAN

VARIABLES
  asked,        \* the size each owned block was asked for (history)
  outstanding,  \* allocations made and not yet freed (history)
  pending,      \* the block that a realloc has copied and is about to free
  overrun       \* TRUE once realloc has written past the end of a block

klVars == <<slabVars, bigVars, asked, outstanding, pending, overrun>>

Request == SmallRequest \cup BigRequest
NoPtr == <<>>

KlInit ==
  /\ SlabInit
  /\ BigInit
  /\ asked = [ptr \in {} |-> 0]
  /\ outstanding = 0
  /\ pending = NoPtr
  /\ overrun = FALSE
-----------------------------------------------------------------------------
\* A pointer is <<page, cell>>; the one cell of a big bin is cell 0.
OwnedPtrs == live \cup (bigLive \X {0})

\* klmalloc(size), for a size other than 0.
Klmalloc(size) ==
  \/ \E b \in SmallBin :
       /\ b = BinSize(size)
       /\ MallocSmall(b)
       /\ UNCHANGED <<skipVars, chainVars, avail, bigLive>>
  \/ /\ BinSize(size) = BIG_BIN
     /\ MallocBig(size)
     /\ UNCHANGED <<binHead, stack, live>>

\* The pointer that klmalloc(size) returns.
Returned(size) ==
  IF BinSize(size) = BIG_BIN
    THEN <<IF FindBest(size) = Nil THEN heapEnd ELSE FindBest(size), 0>>
    ELSE NextCell(BinSize(size))

\* klfree(ptr), which goes by header->size alone.
Klfree(ptr) ==
  IF IsBig(ptr[1])
    THEN /\ \E lv \in Level : FreeBig(ptr[1], lv)
         /\ UNCHANGED <<binHead, stack, live>>
    ELSE /\ FreeSmall(ptr[1], ptr[2])
         /\ UNCHANGED <<skipVars, chainVars, avail, bigLive>>

\* The caller's view of the same: n bytes asked for and got at ptr.
Granted(ptr, n) ==
  /\ asked' = [q \in DOMAIN asked \cup {ptr} |-> IF q = ptr THEN n ELSE asked[q]]
  /\ outstanding' = outstanding + 1

Returns(ptr) ==
  /\ asked' = [q \in DOMAIN asked \ {ptr} |-> asked[q]]
  /\ outstanding' = outstanding - 1
-----------------------------------------------------------------------------
(* The four calls.  malloc(0), calloc of 0 bytes and free(NULL) do nothing *)
(* and realloc(NULL, n) is malloc(n): they need no actions.                *)

Malloc(size) ==
  /\ Klmalloc(size)
  /\ Granted(Returned(size), size)
  /\ UNCHANGED <<pending, overrun>>

\* The block is for n elements of size bytes, the product is a size_t.
Calloc(n, size) ==
  LET product == (n * size) % WORD
  IN /\ product > 0
     /\ Klmalloc(product)
     /\ Granted(Returned(product), n * size)
     /\ UNCHANGED <<pending, overrun>>

\* free(ptr), and realloc(ptr, 0).
Free(ptr) ==
  /\ Klfree(ptr)
  /\ Returns(ptr)
  /\ UNCHANGED <<pending, overrun>>

\* A mistake: the header is taken for a part of the block.
HasRoom_CountsHeader(ptr, size) == hdrSize[ptr[1]] + BIG_HDR >= size

\* header_old->size >= size, whatever kind of bin header_old is.
HasRoom(ptr, size) == hdrSize[ptr[1]] >= size

\* The caller may use size bytes of the block it has.
ReallocInPlace(ptr, size) ==
  /\ HasRoom(ptr, size)
  /\ asked' = [asked EXCEPT ![ptr] = size]
  /\ UNCHANGED <<slabVars, bigVars, outstanding, pending, overrun>>

\* A mistake: the cell size of the bucket above is copied.
OldSize_OffByOne(ptr) ==
  IF hdrSize[ptr[1]] < BIG_BIN THEN CellSize(hdrSize[ptr[1]] + 1) ELSE hdrSize[ptr[1]]

\* old_size of klrealloc: what it copies.
OldSize(ptr) ==
  IF hdrSize[ptr[1]] < BIG_BIN THEN CellSize(hdrSize[ptr[1]]) ELSE hdrSize[ptr[1]]

\* Bytes from a pointer to the end of its cell.
Capacity(ptr) == IF IsBig(ptr[1]) THEN hdrSize[ptr[1]] ELSE CellSize(hdrSize[ptr[1]])

\* klmalloc and memcpy.
ReallocCopy(ptr, size) ==
  /\ ~HasRoom(ptr, size)
  /\ Klmalloc(size)
  /\ \E newptr \in {Returned(size)} :
       /\ Granted(newptr, size)
       /\ overrun' = (OldSize(ptr) > Capacity(newptr)')
  /\ pending' = ptr

\* klfree of the old block.
ReallocFree ==
  /\ pending # NoPtr
  /\ Klfree(pending)
  /\ Returns(pending)
  /\ pending' = NoPtr
  /\ UNCHANGED overrun

KlNext ==
  /\ ~overrun
  /\ \/ ReallocFree
     \/ /\ pending = NoPtr
        /\ \/ \E size \in Request : Malloc(size)
           \/ \E a \in CallocArgs : Calloc(a[1], a[2])
           \/ \E ptr \in OwnedPtrs : Free(ptr)
           \/ \E ptr \in OwnedPtrs, size \in Request :
                /\ ReallocMayShrink \/ size >= asked[ptr]
                /\ ReallocInPlace(ptr, size) \/ ReallocCopy(ptr, size)

KlSpec == KlInit /\ [][KlNext]_klVars
-----------------------------------------------------------------------------
(* Invariants.                                                             *)

KlTypeOK ==
  /\ SlabTypeOK
  /\ BigTypeOK
  /\ DOMAIN asked = OwnedPtrs
  /\ outstanding \in Nat
  /\ pending \in OwnedPtrs \cup {NoPtr}
  /\ overrun \in BOOLEAN

\* A block is as large as what was asked of malloc, calloc or realloc,
\* whichever bin it came from and however often it was reused or resized.
CapacityEnough == \A ptr \in DOMAIN asked : asked[ptr] <= Capacity(ptr)

\* realloc copies no more than the new block holds ("Be sure to only copy as
\* much as was in the old block", alloc.c:860-864).
NoOverrun == ~overrun

\* The bytes of an owned block.
BlockOf(ptr) ==
  [base |-> ptr[1] * PAGE_SIZE + IF IsBig(ptr[1]) THEN BIG_HDR
                                 ELSE CellOffset(hdrSize[ptr[1]], ptr[2]),
   len |-> Capacity(ptr)]

\* No owned block reaches a header, which stands at the start of every page
\* that has a size word, or the heap's end.
BlocksClearOfHeaders ==
  \A ptr \in OwnedPtrs :
    LET x == BlockOf(ptr)
    IN /\ x.base + x.len <= heapEnd * PAGE_SIZE
       /\ \A p \in Page : hdrSize[p] # Untouched =>
            LET header == IF IsBig(p) THEN BIG_HDR ELSE BIN_HDR
            IN \/ x.base + x.len <= p * PAGE_SIZE
               \/ x.base >= p * PAGE_SIZE + header

-----------------------------------------------------------------------------
(* Refinement: the allocator implements HeapSpec.                          *)

AllBlocks ==
  {[base |-> p * PAGE_SIZE + CellOffset(b, c), len |-> CellSize(b)] :
      p \in Page, b \in SmallBin, c \in 0 .. Cells(0)}
  \cup
  {[base |-> p * PAGE_SIZE + BIG_HDR, len |-> BigBinSize(n)] :
      p \in Page, n \in 1 .. MaxPages}

Heap == INSTANCE HeapSpec WITH
          Block <- AllBlocks,
          owned <- {BlockOf(ptr) : ptr \in OwnedPtrs}

\* malloc, free, realloc and calloc hand out disjoint blocks and never move,
\* shrink or take back a block that its owner has not freed.
ImplementsHeapSpec == Heap!Spec
=============================================================================
