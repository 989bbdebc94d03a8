-------------------------- MODULE KlMalloc_proofs --------------------------
(***************************************************************************)
(* The whole allocator implements its two halves: seen through the         *)
(* variables of SlabBins or of BigBins, malloc, calloc, realloc and free   *)
(* take only steps that that half allows.  So what is proved of the halves *)
(* holds of the allocator as callers see it; and from both it follows that *)
(* the allocator implements HeapSpec.                                      *)
(***************************************************************************)
EXTENDS KlMalloc, SlabBins_proofs, BigBins_proofs

\* What a step of the allocator is: klmalloc, klfree, or neither.
LEMMA KlStepCases ==
  ASSUME [KlNext]_klVars
  PROVE  \/ \E size \in Int : Klmalloc(size)
         \/ \E ptr : Klfree(ptr)
         \/ UNCHANGED <<slabVars, bigVars>>
<1>1. CASE ReallocFree
  BY <1>1 DEF ReallocFree
<1>2. ASSUME NEW size \in Request, Malloc(size)
      PROVE  \E n \in Int : Klmalloc(n)
  BY <1>2, BigRequestAssumption, RequestAssumption DEF Request, Malloc
<1>3. ASSUME NEW a \in CallocArgs, Calloc(a[1], a[2])
      PROVE  \E n \in Int : Klmalloc(n)
  <2>1. a[1] \in Int /\ a[2] \in Int
    BY RequestAssumption
  <2>2. a[1] * a[2] \in Int
    BY <2>1
  <2>3. (a[1] * a[2]) % WORD \in Int
    BY <2>2, GeometryAssumption
  <2> QED BY <1>3, <2>3 DEF Calloc
<1>4. ASSUME NEW ptr \in OwnedPtrs, Free(ptr)
      PROVE  Klfree(ptr)
  BY <1>4 DEF Free
<1>5. ASSUME NEW ptr \in OwnedPtrs, NEW size \in Request, ReallocInPlace(ptr, size)
      PROVE  UNCHANGED <<slabVars, bigVars>>
  BY <1>5 DEF ReallocInPlace
<1>6. ASSUME NEW ptr \in OwnedPtrs, NEW size \in Request, ReallocCopy(ptr, size)
      PROVE  \E n \in Int : Klmalloc(n)
  BY <1>6, BigRequestAssumption, RequestAssumption DEF Request, ReallocCopy
<1>7. CASE UNCHANGED klVars
  BY <1>7 DEF klVars
<1> QED BY <1>1, <1>2, <1>3, <1>4, <1>5, <1>6, <1>7 DEF KlNext

\* klmalloc is a step of SlabBins, whichever bin serves the request.
LEMMA KlmallocIsSlabStep ==
  ASSUME SlabTypeOK, NEW size \in Int, Klmalloc(size)
  PROVE  [SlabNext]_slabVars
<1>1. CASE \E b \in SmallBin : MallocSmall(b)
  BY <1>1 DEF SlabNext
<1>2. CASE MallocBig(size) /\ UNCHANGED <<binHead, stack, live>>
  <2>1. CASE ReuseBin(size)
    BY <2>1, <1>2 DEF ReuseBin, slabVars
  <2>2. CASE NewBin(size)
    <3>1. Sbrk(PagesFor(size))
      BY <2>2 DEF NewBin
    <3>2. PagesFor(size) \in 1 .. MaxPages
      BY <3>1, PagesForFacts DEF Sbrk, SlabTypeOK
    <3>3. GrowForBigBin(PagesFor(size))
      BY <3>1, <2>2, <1>2 DEF NewBin, GrowForBigBin
    <3> QED BY <3>2, <3>3 DEF SlabNext
  <2> QED BY <1>2, <2>1, <2>2 DEF MallocBig
<1> QED BY <1>1, <1>2 DEF Klmalloc

\* So is klfree.
LEMMA KlfreeIsSlabStep ==
  ASSUME NEW ptr, Klfree(ptr)
  PROVE  [SlabNext]_slabVars
<1>1. CASE IsBig(ptr[1])
  BY <1>1 DEF Klfree, FreeBig, slabVars
<1>2. CASE ~IsBig(ptr[1])
  <2>1. FreeSmall(ptr[1], ptr[2])
    BY <1>2 DEF Klfree
  <2>2. PICK q \in live : q = <<ptr[1], ptr[2]>>
    BY <2>1 DEF FreeSmall
  <2>3. FreeSmall(q[1], q[2])
    BY <2>1, <2>2
  <2> QED BY <2>3 DEF SlabNext
<1> QED BY <1>1, <1>2

LEMMA KlStepIsSlabStep ==
  ASSUME SlabTypeOK, [KlNext]_klVars
  PROVE  [SlabNext]_slabVars
BY KlStepCases, KlmallocIsSlabStep, KlfreeIsSlabStep

LEMMA KlInitInv == KlInit => SlabInit
BY DEF KlInit

LEMMA KlSlabInvariant == KlSpec => []SlabInv
<1>1. KlInit => SlabInv
  BY KlInitInv, InitInv
<1>2. SlabInv /\ [KlNext]_klVars => SlabInv'
  <2>1. SlabInv => SlabTypeOK
    BY DEF SlabInv
  <2> QED BY <2>1, KlStepIsSlabStep, StepInv
<1> QED BY <1>1, <1>2, PTL DEF KlSpec
-----------------------------------------------------------------------------
\* The allocator implements the specification of its small bins.
THEOREM KlImplementsSlab == KlSpec => SlabSpec
<1>1. SlabInv /\ [KlNext]_klVars => [SlabNext]_slabVars
  <2>1. SlabInv => SlabTypeOK
    BY DEF SlabInv
  <2> QED BY <2>1, KlStepIsSlabStep
<1> QED BY <1>1, KlInitInv, KlSlabInvariant, PTL DEF KlSpec, SlabSpec

\* Therefore no cell of a small page is lost, or owned twice, by any sequence
\* of malloc, calloc, realloc and free that mixes small and big blocks.
THEOREM KlCellsPartition == KlSpec => []CellsPartition
BY KlImplementsSlab, SlabCellsPartition, PTL

\* The list of a bucket names exactly its pages with a free cell, also while
\* big bins are taken and given back in between.
THEOREM KlListExact == KlSpec => []ListExact
BY KlImplementsSlab, SlabListExact, PTL

\* The pointer that the next small malloc would return is nobody's.
THEOREM KlNextCellIsFree == KlSpec => []NextCellIsFree
BY KlImplementsSlab, SlabNextCellIsFree, PTL

\* A call that makes a page into a small bin finds the bucket's pages full.
THEOREM KlGrowOnlyWhenFull == KlSpec => GrowOnlyWhenFull
BY KlImplementsSlab, SlabGrowOnlyWhenFull, PTL
-----------------------------------------------------------------------------
(* The big-bin half.                                                       *)

\* klmalloc is a step of BigBins, whichever bin serves the request.
LEMMA KlmallocIsBigStep ==
  ASSUME NEW size \in Int, Klmalloc(size)
  PROVE  [AnyBigNext]_bigVars
<1>1. ASSUME NEW b \in SmallBin, MallocSmall(b), UNCHANGED <<skipVars, chainVars, avail, bigLive>>
      PROVE  [AnyBigNext]_bigVars
  <2>1. CASE binHead[b] = <<>>
    <3>1. GrowForSmallBin(b)
      BY <1>1, <2>1 DEF MallocSmall, GrowBin, GrowForSmallBin
    <3> QED BY <3>1 DEF AnyBigNext
  <2>2. CASE binHead[b] # <<>>
    BY <1>1, <2>2 DEF MallocSmall, GrowBin, bigVars
  <2> QED BY <2>1, <2>2
<1>2. CASE MallocBig(size)
  BY <1>2 DEF AnyBigNext
<1> QED BY <1>1, <1>2 DEF Klmalloc

\* So is klfree.
LEMMA KlfreeIsBigStep ==
  ASSUME NEW ptr, Klfree(ptr)
  PROVE  [AnyBigNext]_bigVars
<1>1. CASE IsBig(ptr[1])
  <2>1. PICK lv \in Level : FreeBig(ptr[1], lv)
    BY <1>1 DEF Klfree
  <2>2. ptr[1] \in bigLive
    BY <2>1 DEF FreeBig
  <2> QED BY <2>1, <2>2 DEF AnyBigNext
<1>2. CASE ~IsBig(ptr[1])
  BY <1>2 DEF Klfree, FreeSmall, bigVars
<1> QED BY <1>1, <1>2

LEMMA KlStepIsBigStep ==
  ASSUME [KlNext]_klVars
  PROVE  [AnyBigNext]_bigVars
BY KlStepCases, KlmallocIsBigStep, KlfreeIsBigStep

LEMMA KlBigInvariant == KlSpec => [](BigInv /\ ChainInv)
<1>1. KlInit => BigInv /\ ChainInv
  BY BigInitInv, ChainInit DEF KlInit, SlabInit, BigBinsInit
<1>2. BigInv /\ ChainInv /\ [KlNext]_klVars => BigInv' /\ ChainInv'
  BY KlStepIsBigStep, BigStepKeepsBigInv, BigStepKeepsChain
<1> QED BY <1>1, <1>2, PTL DEF KlSpec

\* The skip list stays one while small bins take pages in between.
THEOREM KlSkipListExact == KlSpec => []SkipListExact
BY KlBigInvariant, BigInvSkipListExact, PTL

\* klmalloc takes the best fit among all free big bins, whatever calls came
\* before.
THEOREM KlBestFit == KlSpec => []FindBestIsBestFit
BY KlBigInvariant, BigInvBestFit, PTL

\* The chain of big bins stays in the order of addresses.
THEOREM KlChain == KlSpec => []ChainInAddressOrder
BY KlBigInvariant, ChainInvOrder, PTL
-----------------------------------------------------------------------------
(* Where the bins are.                                                     *)

HasHeader(p) == hdrSize[p] # Untouched

\* The address behind the bin that starts at a page.
SpanEnd(p) ==
  IF IsBig(p) THEN p * PAGE_SIZE + BIG_HDR + hdrSize[p]
  ELSE p * PAGE_SIZE + PAGE_SIZE

SizeWordOK(v) == v \in SmallBin \/ \E n \in 1 .. MaxPages : v = BigBinSize(n)

\* Size words are bucket numbers or the sizes of runs of pages, and no bin
\* reaches into the next one or past the heap's end.
SpansInv ==
  \A p \in Page : HasHeader(p) =>
    /\ SizeWordOK(hdrSize[p])
    /\ p < heapEnd
    /\ SpanEnd(p) <= heapEnd * PAGE_SIZE
    /\ \A q \in Page : p < q /\ HasHeader(q) => SpanEnd(p) <= q * PAGE_SIZE

\* All that a step does to the size words is to write one at the heap's end.
GrowsBy(n, v) ==
  /\ Sbrk(n)
  /\ hdrSize' = [hdrSize EXCEPT ![heapEnd] = v]
  /\ IF v \in SmallBin THEN n = 1 ELSE v = BigBinSize(n)

LEMMA SlabStepGrows ==
  ASSUME SlabTypeOK, [SlabNext]_slabVars
  PROVE  \/ UNCHANGED <<heapEnd, hdrSize>>
         \/ \E n \in 1 .. MaxPages, v \in Int : GrowsBy(n, v)
<1>1. ASSUME NEW b \in SmallBin, MallocSmall(b), binHead[b] = <<>>
      PROVE  \E n \in 1 .. MaxPages, v \in Int : GrowsBy(n, v)
  <2>1. Sbrk(1) /\ hdrSize' = [hdrSize EXCEPT ![heapEnd] = b]
    BY <1>1 DEF MallocSmall, GrowBin
  <2>2. 1 \in 1 .. MaxPages /\ b \in Int
    BY <2>1, ConstantFacts DEF Sbrk, SlabTypeOK
  <2> QED BY <2>1, <2>2 DEF GrowsBy
<1>2. ASSUME NEW b \in SmallBin, MallocSmall(b), binHead[b] # <<>>
      PROVE  UNCHANGED <<heapEnd, hdrSize>>
  BY <1>2 DEF MallocSmall, GrowBin
<1>3. ASSUME NEW ptr \in live, FreeSmall(ptr[1], ptr[2])
      PROVE  UNCHANGED <<heapEnd, hdrSize>>
  BY <1>3 DEF FreeSmall
<1>4. ASSUME NEW n \in 1 .. MaxPages, GrowForBigBin(n)
      PROVE  \E m \in 1 .. MaxPages, v \in Int : GrowsBy(m, v)
  BY <1>4, BigBinSizeFacts DEF GrowForBigBin, GrowsBy
<1>5. CASE UNCHANGED slabVars
  BY <1>5 DEF slabVars
<1> QED BY <1>1, <1>2, <1>3, <1>4, <1>5 DEF SlabNext

\* The bin at the heap's end begins where all others have ended.
LEMMA GrowsKeepsSpans ==
  ASSUME SlabTypeOK, SpansInv, NEW n \in 1 .. MaxPages, NEW v \in Int, GrowsBy(n, v)
  PROVE  /\ SpansInv'
         /\ \A p \in Page : HasHeader(p) => hdrSize'[p] = hdrSize[p]
<1> PICK e : e = heapEnd
  OBVIOUS
<1>1. /\ e \in Page /\ e \in Nat /\ heapEnd' = e + n /\ e + n <= MaxPages
      /\ n \in Nat /\ n >= 1 /\ PAGE_SIZE \in Nat
  BY ConstantFacts, GeometryAssumption DEF SlabTypeOK, GrowsBy, Sbrk, Page
<1>2. \A p \in Page : hdrSize'[p] = IF p = e THEN v ELSE hdrSize[p]
  BY DEF SlabTypeOK, GrowsBy
<1>3. IF v \in SmallBin THEN n = 1 ELSE v = BigBinSize(n)
  BY DEF GrowsBy
<1>4. ~HasHeader(e)
  BY <1>1 DEF SpansInv
<1>5. \A p \in Page : HasHeader(p) => hdrSize'[p] = hdrSize[p] /\ p # e
  BY <1>2, <1>4
<1>6. \A p \in Page : HasHeader(p)' <=> HasHeader(p) \/ p = e
  <2>1. v # Untouched
    BY <1>3, BigBinSizeFacts, ConstantFacts DEF Untouched
  <2> QED BY <1>2, <1>4, <2>1 DEF HasHeader
<1>7. e * PAGE_SIZE <= (e + n) * PAGE_SIZE /\ e * PAGE_SIZE \in Nat /\ n * PAGE_SIZE \in Nat
      /\ (e + n) * PAGE_SIZE = e * PAGE_SIZE + n * PAGE_SIZE
  <2>1. n * PAGE_SIZE >= 0
    BY <1>1
  <2> QED BY <1>1, <2>1
<1>8. ASSUME NEW p \in Page, HasHeader(p)
      PROVE  /\ SizeWordOK(hdrSize[p])' /\ p < heapEnd'
             /\ SpanEnd(p)' <= heapEnd' * PAGE_SIZE
             /\ \A q \in Page : p < q /\ HasHeader(q)' => SpanEnd(p)' <= q * PAGE_SIZE
  <2>1. hdrSize'[p] = hdrSize[p] /\ SpanEnd(p)' = SpanEnd(p)
    BY <1>5, <1>8 DEF SpanEnd, IsBig
  <2>2. /\ SizeWordOK(hdrSize[p]) /\ p < e /\ SpanEnd(p) <= e * PAGE_SIZE
        /\ \A q \in Page : p < q /\ HasHeader(q) => SpanEnd(p) <= q * PAGE_SIZE
    BY <1>8 DEF SpansInv
  <2>3. SpanEnd(p) \in Int /\ p \in Int
    <3>1. hdrSize[p] \in Int /\ p \in Int /\ p * PAGE_SIZE \in Int /\ BIG_HDR \in Int
      BY <1>1, ConstantFacts, GeometryAssumption DEF SlabTypeOK
    <3> QED BY <1>1, <3>1 DEF SpanEnd
  <2>4. SizeWordOK(hdrSize[p])'
    BY <2>1, <2>2 DEF SizeWordOK
  <2> HIDE DEF SpanEnd
  <2>5. SpanEnd(p)' <= heapEnd' * PAGE_SIZE /\ p < heapEnd'
    BY <1>1, <1>7, <2>1, <2>2, <2>3
  <2> QED BY <1>6, <2>1, <2>2, <2>4, <2>5
<1>9. /\ SizeWordOK(hdrSize[e])' /\ e < heapEnd'
      /\ SpanEnd(e)' <= heapEnd' * PAGE_SIZE
      /\ \A q \in Page : e < q /\ HasHeader(q)' => SpanEnd(e)' <= q * PAGE_SIZE
  <2>1. hdrSize'[e] = v /\ SizeWordOK(v)
    BY <1>1, <1>2, <1>3 DEF SizeWordOK
  <2>2. SpanEnd(e)' <= heapEnd' * PAGE_SIZE
    <3>1. CASE v \in SmallBin
      <4>1. ~(v > NUM_BINS) /\ n = 1
        BY <1>3, <3>1, ConstantFacts
      <4>2. SpanEnd(e)' = e * PAGE_SIZE + PAGE_SIZE
        BY <2>1, <4>1 DEF SpanEnd, IsBig
      <4> QED BY <1>1, <1>7, <4>1, <4>2
    <3>2. CASE v \notin SmallBin
      <4>1. v = n * PAGE_SIZE - BIG_HDR /\ v > NUM_BINS
        BY <1>3, <3>2, BigBinSizeFacts
      <4>2. SpanEnd(e)' = e * PAGE_SIZE + BIG_HDR + v
        BY <2>1, <4>1 DEF SpanEnd, IsBig
      <4> QED BY <1>1, <1>7, <4>1, <4>2, GeometryAssumption
    <3> QED BY <3>1, <3>2
  <2>3. \A q \in Page : HasHeader(q)' => ~(e < q)
    <3>1. \A q \in Page : HasHeader(q) => q < e /\ q \in Int
      BY ConstantFacts DEF SpansInv
    <3> QED BY <1>1, <1>6, <3>1
  <2> QED BY <1>1, <2>1, <2>2, <2>3 DEF SizeWordOK
<1>10. SpansInv'
  BY <1>6, <1>8, <1>9 DEF SpansInv
<1> QED BY <1>5, <1>10

LEMMA KlStepKeepsSpans ==
  ASSUME SlabTypeOK, SpansInv, [KlNext]_klVars
  PROVE  /\ SpansInv'
         /\ \A p \in Page : HasHeader(p) => hdrSize'[p] = hdrSize[p]
<1>1. CASE UNCHANGED <<heapEnd, hdrSize>>
  BY <1>1 DEF SpansInv, HasHeader, SizeWordOK, SpanEnd, IsBig
<1>2. CASE \E n \in 1 .. MaxPages, v \in Int : GrowsBy(n, v)
  BY <1>2, GrowsKeepsSpans
<1> QED BY <1>1, <1>2, KlStepIsSlabStep, SlabStepGrows
-----------------------------------------------------------------------------
(* The blocks that callers own.                                            *)

\* A size word tells a small bin, a big one and no bin apart.
LEMMA SizeWordFacts ==
  /\ \A v \in SmallBin : /\ v # Untouched /\ ~(v > NUM_BINS)
                         /\ CellSize(v) \in Nat /\ CellSize(v) > v /\ CellSize(v) > 0
  /\ \A v \in Int : v > NUM_BINS => v # Untouched /\ v \notin SmallBin
<1>1. \A v \in SmallBin : v \in Nat /\ v < NUM_BINS
  BY ConstantFacts
<1>2. \A v \in SmallBin : CellSize(v) \in Nat /\ CellSize(v) > v
  BY CellFacts
<1>3. NUM_BINS \in Nat
  BY ConstantFacts
<1> QED BY <1>1, <1>2, <1>3 DEF Untouched

\* What the memory's invariants say of a pointer that a caller has: it is a
\* cell of a small page, or the one cell of a big bin.
IsCell(ptr) ==
  /\ ptr \in live
  /\ hdrSize[ptr[1]] \in SmallBin
  /\ ptr[2] \in 0 .. Cells(hdrSize[ptr[1]]) - 1

IsBigBlock(ptr) == ptr[1] \in bigLive /\ ptr[2] = 0 /\ ptr \notin live

LEMMA OwnedFacts ==
  ASSUME SlabInv, BigInv, NEW ptr \in OwnedPtrs
  PROVE  /\ ptr = <<ptr[1], ptr[2]>> /\ ptr[1] \in Page /\ ptr[2] \in Nat
         /\ HasHeader(ptr[1])
         /\ IF IsBig(ptr[1]) THEN IsBigBlock(ptr) ELSE IsCell(ptr)
<1>1. SlabTypeOK /\ OnlySmallPagesHaveCells /\ CellsPartition /\ BigTypeOK /\ OwnersInv
  BY DEF SlabInv, BigInv
<1>2. CASE ptr \in live
  <2>1. ptr = <<ptr[1], ptr[2]>> /\ ptr[1] \in Page /\ ptr[2] \in Nat
    BY <1>1, <1>2 DEF SlabTypeOK
  <2>2. ptr[2] \in LiveCells(ptr[1])
    BY <1>2 DEF LiveCells
  <2>3. hdrSize[ptr[1]] \in SmallBin
    BY <1>1, <2>1, <2>2 DEF OnlySmallPagesHaveCells
  <2>4. ptr[2] \in 0 .. Cells(hdrSize[ptr[1]]) - 1
    BY <1>1, <2>1, <2>2, <2>3 DEF CellsPartition
  <2>5. ~IsBig(ptr[1]) /\ HasHeader(ptr[1])
    BY <2>3, SizeWordFacts DEF IsBig, HasHeader
  <2> QED BY <1>2, <2>1, <2>3, <2>4, <2>5 DEF IsCell
<1>3. CASE ptr \in bigLive \X {0}
  <2>1. ptr = <<ptr[1], ptr[2]>> /\ ptr[1] \in bigLive /\ ptr[2] = 0
    BY <1>3
  <2>2. ptr[1] \in Page /\ IsBig(ptr[1])
    BY <1>1, <2>1 DEF OwnersInv, BigPages
  <2>3. HasHeader(ptr[1]) /\ hdrSize[ptr[1]] \notin SmallBin
    <3>1. hdrSize[ptr[1]] \in Int
      BY <1>1, <2>2 DEF SlabTypeOK
    <3> QED BY <2>2, <3>1, SizeWordFacts DEF IsBig, HasHeader
  <2>4. ptr \notin live
    <3>1. ptr \in live => ptr[2] \in LiveCells(ptr[1])
      BY DEF LiveCells
    <3> QED BY <1>1, <2>2, <2>3, <3>1 DEF OnlySmallPagesHaveCells
  <2> QED BY <2>1, <2>2, <2>3, <2>4 DEF IsBigBlock
<1> QED BY <1>2, <1>3 DEF OwnedPtrs

\* A block lies between the header of its bin and the bin's end.
LEMMA BlockFacts ==
  ASSUME SlabInv, BigInv, NEW ptr \in OwnedPtrs
  PROVE  LET x == BlockOf(ptr)
             header == IF IsBig(ptr[1]) THEN BIG_HDR ELSE BIN_HDR
         IN /\ x.base \in Int /\ x.len \in Nat /\ x.len > 0
            /\ ptr[1] * PAGE_SIZE + header <= x.base
            /\ x.base + x.len <= SpanEnd(ptr[1])
<1> DEFINE p == ptr[1]
           c == ptr[2]
           base == BlockOf(ptr).base
           len == BlockOf(ptr).len
<1>1. /\ p \in Page /\ p \in Nat /\ c \in Nat /\ hdrSize[p] \in Int
      /\ IF IsBig(p) THEN IsBigBlock(ptr) ELSE IsCell(ptr)
  BY OwnedFacts, ConstantFacts DEF SlabInv, SlabTypeOK
<1>2. /\ base = p * PAGE_SIZE + (IF IsBig(p) THEN BIG_HDR ELSE CellOffset(hdrSize[p], c))
      /\ len = IF IsBig(p) THEN hdrSize[p] ELSE CellSize(hdrSize[p])
  BY DEF BlockOf, Capacity
<1>3. PAGE_SIZE \in Nat /\ BIG_HDR \in Nat /\ BIN_HDR \in Nat /\ p * PAGE_SIZE \in Nat
  BY <1>1, GeometryAssumption
<1> HIDE DEF p, c, base, len
<1>4. CASE IsBig(p)
  <2>1. hdrSize[p] > 0
    BY <1>1, <1>4, ConstantFacts DEF IsBig
  <2>2. SpanEnd(p) = p * PAGE_SIZE + BIG_HDR + hdrSize[p]
    BY <1>4 DEF SpanEnd
  <2> QED BY <1>1, <1>2, <1>3, <1>4, <2>1, <2>2 DEF p, base, len
<1>5. CASE ~IsBig(p)
  <2>1. hdrSize[p] \in SmallBin /\ c \in 0 .. Cells(hdrSize[p]) - 1
    BY <1>1, <1>5 DEF IsCell, p, c
  <2>2. /\ CellOffset(hdrSize[p], c) \in Nat /\ CellOffset(hdrSize[p], c) >= BIN_HDR
        /\ CellOffset(hdrSize[p], c) + CellSize(hdrSize[p]) <= PAGE_SIZE
    BY <2>1, CellInPage
  <2>3. CellSize(hdrSize[p]) \in Nat /\ CellSize(hdrSize[p]) > 0
    BY <2>1, SizeWordFacts
  <2>4. SpanEnd(p) = p * PAGE_SIZE + PAGE_SIZE
    BY <1>5 DEF SpanEnd
  <2> QED BY <1>2, <1>3, <1>5, <2>2, <2>3, <2>4 DEF p, base, len
<1> QED BY <1>4, <1>5

\* No owned block reaches a header.
LEMMA BlocksClear == SlabInv /\ BigInv /\ SpansInv => BlocksClearOfHeaders
<1> SUFFICES ASSUME SlabInv, BigInv, SpansInv, NEW ptr \in OwnedPtrs
             PROVE  LET x == BlockOf(ptr)
                    IN /\ x.base + x.len <= heapEnd * PAGE_SIZE
                       /\ \A p \in Page : hdrSize[p] # Untouched =>
                            LET header == IF IsBig(p) THEN BIG_HDR ELSE BIN_HDR
                            IN \/ x.base + x.len <= p * PAGE_SIZE
                               \/ x.base >= p * PAGE_SIZE + header
  BY DEF BlocksClearOfHeaders
<1> DEFINE q == ptr[1]
           base == BlockOf(ptr).base
           len == BlockOf(ptr).len
           Header(p) == IF IsBig(p) THEN BIG_HDR ELSE BIN_HDR
<1>1. q \in Page /\ HasHeader(q)
  BY OwnedFacts
<1>2. base \in Int /\ len \in Nat /\ q * PAGE_SIZE + Header(q) <= base /\ base + len <= SpanEnd(q)
  BY BlockFacts
<1> HIDE DEF q, base, len
<1>3. \A p \in Page : HasHeader(p) =>
        /\ SpanEnd(p) \in Int /\ p * PAGE_SIZE + Header(p) <= SpanEnd(p) /\ Header(p) \in Nat
        /\ p * PAGE_SIZE \in Int
        /\ SpanEnd(p) <= heapEnd * PAGE_SIZE
        /\ \A r \in Page : p < r /\ HasHeader(r) => SpanEnd(p) <= r * PAGE_SIZE
  <2> SUFFICES ASSUME NEW p \in Page, HasHeader(p)
               PROVE  /\ SpanEnd(p) \in Int /\ p * PAGE_SIZE + Header(p) <= SpanEnd(p)
                      /\ Header(p) \in Nat /\ p * PAGE_SIZE \in Int
    BY DEF SpansInv
  <2>1. /\ p \in Nat /\ p * PAGE_SIZE \in Nat /\ hdrSize[p] \in Int /\ PAGE_SIZE \in Nat
        /\ BIG_HDR \in Nat /\ BIN_HDR \in Nat
    BY ConstantFacts, GeometryAssumption DEF SlabInv, SlabTypeOK
  <2>2. CASE IsBig(p)
    <3>1. hdrSize[p] > 0
      BY <2>1, <2>2, ConstantFacts DEF IsBig
    <3> QED BY <2>1, <2>2, <3>1 DEF SpanEnd
  <2>3. CASE ~IsBig(p)
    <3>1. hdrSize[p] \in SmallBin
      <4>1. hdrSize[p] \in SmallBin \/ \E n \in 1 .. MaxPages : hdrSize[p] = BigBinSize(n)
        BY DEF SpansInv, SizeWordOK
      <4> QED BY <2>3, <4>1, BigBinSizeFacts DEF IsBig
    <3>2. CellSize(hdrSize[p]) \in Nat /\ Cells(hdrSize[p]) \in Nat
          /\ BIN_HDR + Cells(hdrSize[p]) * CellSize(hdrSize[p]) <= PAGE_SIZE
      BY <3>1, CellFacts
    <3>3. BIN_HDR <= PAGE_SIZE
      BY <2>1, <3>2
    <3> QED BY <2>1, <2>3, <3>3 DEF SpanEnd
  <2> QED BY <2>2, <2>3
<1> HIDE DEF Header, SpanEnd
<1>4. heapEnd * PAGE_SIZE \in Int
  BY GeometryAssumption DEF SlabInv, SlabTypeOK
<1>5. base + len <= heapEnd * PAGE_SIZE
  BY <1>1, <1>2, <1>3, <1>4
<1>6. ASSUME NEW p \in Page, HasHeader(p)
      PROVE  base + len <= p * PAGE_SIZE \/ base >= p * PAGE_SIZE + Header(p)
  <2>1. p \in Int /\ q \in Int
    BY <1>1, ConstantFacts
  <2>2. CASE p = q
    BY <1>2, <2>2
  <2>3. CASE q < p
    BY <1>1, <1>2, <1>3, <1>6, <2>3
  <2>4. CASE p < q
    <3>1. SpanEnd(p) <= q * PAGE_SIZE /\ p * PAGE_SIZE + Header(p) <= SpanEnd(p)
      BY <1>1, <1>3, <1>6, <2>4
    <3> QED BY <1>1, <1>2, <1>3, <1>6, <3>1
  <2> QED BY <2>1, <2>2, <2>3, <2>4
<1> QED BY <1>5, <1>6 DEF HasHeader, Header, base, len

\* Two owned blocks do not overlap.
LEMMA BlocksApart ==
  ASSUME SlabInv, BigInv, SpansInv,
         NEW ptr \in OwnedPtrs, NEW other \in OwnedPtrs, ptr # other
  PROVE  ~Heap!Overlap(BlockOf(ptr), BlockOf(other)) /\ BlockOf(ptr) # BlockOf(other)
<1> DEFINE A == BlockOf(ptr)
           B == BlockOf(other)
           p == ptr[1]
           q == other[1]
<1>1. /\ p \in Page /\ q \in Page /\ HasHeader(p) /\ HasHeader(q)
      /\ ptr = <<p, ptr[2]>> /\ other = <<q, other[2]>>
      /\ ptr[2] \in Nat /\ other[2] \in Nat
  BY OwnedFacts
<1>2. /\ A.base \in Int /\ A.len \in Nat /\ A.len > 0 /\ B.base \in Int /\ B.len \in Nat /\ B.len > 0
      /\ p * PAGE_SIZE <= A.base /\ q * PAGE_SIZE <= B.base
      /\ A.base + A.len <= SpanEnd(p) /\ B.base + B.len <= SpanEnd(q)
  <2>1. BIG_HDR \in Nat /\ BIN_HDR \in Nat /\ p * PAGE_SIZE \in Int /\ q * PAGE_SIZE \in Int
    BY <1>1, ConstantFacts, GeometryAssumption
  <2>2. p * PAGE_SIZE + (IF IsBig(p) THEN BIG_HDR ELSE BIN_HDR) <= A.base
        /\ A.base \in Int /\ A.len \in Nat /\ A.len > 0 /\ A.base + A.len <= SpanEnd(p)
    BY BlockFacts
  <2>3. q * PAGE_SIZE + (IF IsBig(q) THEN BIG_HDR ELSE BIN_HDR) <= B.base
        /\ B.base \in Int /\ B.len \in Nat /\ B.len > 0 /\ B.base + B.len <= SpanEnd(q)
    BY BlockFacts
  <2> HIDE DEF A, B, p, q
  <2> QED BY <2>1, <2>2, <2>3
<1>3. \A r \in Page : r * PAGE_SIZE \in Int /\ r \in Int
  BY ConstantFacts, GeometryAssumption
<1>4. \A r \in Page : HasHeader(r) => SpanEnd(r) \in Int
  <2>1. \A r \in Page : hdrSize[r] \in Int
    BY DEF SlabInv, SlabTypeOK
  <2> QED BY <1>3, <2>1, GeometryAssumption DEF SpanEnd
\* In the same page, the cells differ.
<1>5. ASSUME p = q
      PROVE  A.base + A.len <= B.base \/ B.base + B.len <= A.base
  <2>1. ~IsBig(p) /\ IsCell(ptr) /\ IsCell(other) /\ ptr[2] # other[2]
    <3>1. IsBig(p) => ptr[2] = 0 /\ other[2] = 0
      BY <1>5, OwnedFacts DEF IsBigBlock
    <3>2. ptr[2] # other[2]
      BY <1>1, <1>5
    <3> QED BY <1>5, <3>1, <3>2, OwnedFacts
  <2>2. /\ A.base = p * PAGE_SIZE + CellOffset(hdrSize[p], ptr[2])
        /\ B.base = p * PAGE_SIZE + CellOffset(hdrSize[p], other[2])
        /\ A.len = CellSize(hdrSize[p]) /\ B.len = CellSize(hdrSize[p])
    BY <1>5, <2>1 DEF BlockOf, Capacity
  <2>3. hdrSize[p] \in SmallBin
    BY <2>1 DEF IsCell
  <2>4. /\ CellOffset(hdrSize[p], ptr[2]) \in Int /\ CellOffset(hdrSize[p], other[2]) \in Int
        /\ CellSize(hdrSize[p]) \in Nat /\ p * PAGE_SIZE \in Int
    <3>1. CellSize(hdrSize[p]) \in Nat
      BY <2>3, CellFacts
    <3>2. ptr[2] * CellSize(hdrSize[p]) \in Int /\ other[2] * CellSize(hdrSize[p]) \in Int
      BY <1>1, <3>1
    <3> QED BY <1>1, <1>3, <3>1, <3>2, GeometryAssumption DEF CellOffset
  <2>5. ptr[2] < other[2] =>
          CellOffset(hdrSize[p], ptr[2]) + CellSize(hdrSize[p]) <= CellOffset(hdrSize[p], other[2])
    BY <1>1, <2>3, CellsApart
  <2>6. other[2] < ptr[2] =>
          CellOffset(hdrSize[p], other[2]) + CellSize(hdrSize[p]) <= CellOffset(hdrSize[p], ptr[2])
    BY <1>1, <2>3, CellsApart
  <2>7. ptr[2] < other[2] \/ other[2] < ptr[2]
    BY <1>1, <2>1
  <2> HIDE DEF A, B, p, q
  <2> QED BY <2>2, <2>4, <2>5, <2>6, <2>7
<1> HIDE DEF A, B, p, q
<1>6. ASSUME p < q PROVE A.base + A.len <= B.base
  <2>1. SpanEnd(p) <= q * PAGE_SIZE
    BY <1>1, <1>6 DEF SpansInv
  <2> QED BY <1>1, <1>2, <1>3, <1>4, <2>1
<1>7. ASSUME q < p PROVE B.base + B.len <= A.base
  <2>1. SpanEnd(q) <= p * PAGE_SIZE
    BY <1>1, <1>7 DEF SpansInv
  <2> QED BY <1>1, <1>2, <1>3, <1>4, <2>1
<1>8. A.base + A.len <= B.base \/ B.base + B.len <= A.base
  BY <1>1, <1>3, <1>5, <1>6, <1>7
<1>9. ~Heap!Overlap(A, B) /\ A # B
  BY <1>2, <1>8 DEF Heap!Overlap
<1> QED BY <1>9 DEF A, B
-----------------------------------------------------------------------------
(* What the calls do to what callers own.                                  *)

\* The bin that klmalloc(size) returns a cell of.
Serves(size, v) ==
  \/ v \in SmallBin /\ v = BinSize(size)
  \/ /\ BinSize(size) = BIG_BIN
     /\ v > NUM_BINS
     /\ \/ v >= size
        \/ PagesFor(size) \in 1 .. MaxPages /\ v = BigBinSize(PagesFor(size))

\* A small request is served by a cell that nobody has.
LEMMA MallocSmallGives ==
  ASSUME SlabInv, BigInv, NEW b \in SmallBin, MallocSmall(b), bigLive' = bigLive
  PROVE  /\ NextCell(b) \notin OwnedPtrs
         /\ OwnedPtrs' = OwnedPtrs \cup {NextCell(b)}
         /\ hdrSize'[NextCell(b)[1]] = b
<1>1. GrowBin(b) /\ live' = live \cup {NextCell(b)}
  BY DEF MallocSmall
<1>2. /\ binHead[b] # <<>> \/ heapEnd < MaxPages
      /\ hdrSize'[TopPage(b)] = b /\ hdrSize[TopPage(b)] \in {b, Untouched}
  BY <1>1, GrowBinFacts
<1>3. NextCell(b) \notin live
  BY <1>2, NextCellFacts
<1>4. TopPage(b) \notin bigLive
  <2>1. ~(b > NUM_BINS) /\ ~(Untouched > NUM_BINS)
    BY SizeWordFacts, ConstantFacts DEF Untouched
  <2>2. bigLive \subseteq BigPages
    BY DEF BigInv, OwnersInv
  <2> QED BY <1>2, <2>1, <2>2 DEF BigPages, IsBig
<1>5. NextCell(b) \notin bigLive \X {0}
  BY <1>4 DEF NextCell
<1>6. NextCell(b)[1] = TopPage(b)
  BY DEF NextCell
<1> QED BY <1>1, <1>2, <1>3, <1>5, <1>6 DEF OwnedPtrs

\* A big request is served by the best free bin, or by a new one behind all
\* others.
LEMMA MallocBigGives ==
  ASSUME SlabInv, BigInv, NEW size \in Int, BinSize(size) = BIG_BIN, MallocBig(size),
         live' = live
  PROVE  /\ Returned(size) \notin OwnedPtrs
         /\ OwnedPtrs' = OwnedPtrs \cup {Returned(size)}
         /\ Serves(size, hdrSize'[Returned(size)[1]])
<1> DEFINE p == IF FindBest(size) = Nil THEN heapEnd ELSE FindBest(size)
<1>1. Returned(size) = <<p, 0>>
  BY DEF Returned
<1>2. /\ BigTypeOK /\ avail \cap bigLive = {} /\ avail \cup bigLive = BigPages
      /\ \A q \in Page : q >= heapEnd => hdrSize[q] = Untouched
      /\ SlabTypeOK /\ OnlySmallPagesHaveCells
  BY DEF BigInv, OwnersInv, SlabInv
<1>3. /\ p \in Page /\ p \notin bigLive /\ bigLive' = bigLive \cup {p}
      /\ hdrSize[p] \notin SmallBin
      /\ hdrSize'[p] > NUM_BINS
      /\ \/ hdrSize'[p] >= size
         \/ PagesFor(size) \in 1 .. MaxPages /\ hdrSize'[p] = BigBinSize(PagesFor(size))
  <2>1. CASE ReuseBin(size)
    <3>1. PICK rank \in [Node -> Nat], on \in [Level -> SUBSET Page] : Represents(rank, on)
      BY DEF BigInv, SkipListInv
    <3>2. p = FindBest(size) /\ bigLive' = bigLive \cup {p} /\ hdrSize' = hdrSize
          /\ FindBest(size) # Nil
      BY <2>1 DEF ReuseBin
    <3>3. p \in Enough(size)
      BY <1>2, <3>1, <3>2, FindBestIsFirstFit DEF IsFirstFit
    <3>4. p \in avail /\ hdrSize[p] >= size
      BY <3>3 DEF Enough
    <3>5. p \in Page /\ hdrSize[p] > NUM_BINS
      BY <1>2, <3>4 DEF BigPages, IsBig
    <3>6. hdrSize[p] \notin SmallBin
      BY <1>2, <3>5, SizeWordFacts DEF BigTypeOK
    <3> HIDE DEF p
    <3> QED BY <1>2, <3>2, <3>4, <3>5, <3>6
  <2>2. CASE NewBin(size)
    <3>1. /\ p = heapEnd /\ bigLive' = bigLive \cup {heapEnd}
          /\ hdrSize' = [hdrSize EXCEPT ![heapEnd] = BigBinSize(PagesFor(size))]
      BY <2>2 DEF NewBin
    <3>2. /\ heapEnd \in Page /\ BigBinSize(PagesFor(size)) \in Int
          /\ BigBinSize(PagesFor(size)) > NUM_BINS /\ PagesFor(size) \in 1 .. MaxPages
      BY <1>2, <2>2, NewBinFacts
    <3>3. hdrSize[heapEnd] = Untouched /\ heapEnd \in Int
      BY <1>2, <3>2, ConstantFacts DEF BigTypeOK
    <3>4. ~(Untouched > NUM_BINS) /\ Untouched \notin SmallBin
      BY SizeWordFacts, ConstantFacts DEF Untouched
    <3>5. hdrSize'[heapEnd] = BigBinSize(PagesFor(size))
      BY <1>2, <3>1, <3>2 DEF BigTypeOK
    <3>6. heapEnd \notin bigLive
      BY <1>2, <3>3, <3>4 DEF BigPages, IsBig
    <3> QED BY <3>1, <3>2, <3>3, <3>4, <3>5, <3>6
  <2> QED BY <2>1, <2>2 DEF MallocBig
<1> HIDE DEF p
<1>4. <<p, 0>> \notin live
  <2>1. <<p, 0>> \in live => 0 \in LiveCells(p)
    BY DEF LiveCells
  <2> QED BY <1>2, <1>3, <2>1 DEF OnlySmallPagesHaveCells
<1>5. <<p, 0>>[1] = p
  OBVIOUS
<1>6. OwnedPtrs' = OwnedPtrs \cup {<<p, 0>>}
  BY <1>3 DEF OwnedPtrs
<1>7. <<p, 0>> \notin OwnedPtrs
  BY <1>3, <1>4 DEF OwnedPtrs
<1> QED BY <1>1, <1>3, <1>5, <1>6, <1>7 DEF Serves

LEMMA KlmallocGives ==
  ASSUME SlabInv, BigInv, NEW size \in Int, Klmalloc(size)
  PROVE  /\ Returned(size) \notin OwnedPtrs
         /\ OwnedPtrs' = OwnedPtrs \cup {Returned(size)}
         /\ Serves(size, hdrSize'[Returned(size)[1]])
<1>1. ASSUME NEW b \in SmallBin, b = BinSize(size), MallocSmall(b), bigLive' = bigLive
      PROVE  /\ Returned(size) \notin OwnedPtrs
             /\ OwnedPtrs' = OwnedPtrs \cup {Returned(size)}
             /\ Serves(size, hdrSize'[Returned(size)[1]])
  <2>1. BinSize(size) # BIG_BIN
    BY <1>1, ConstantFacts DEF SmallBin
  <2>2. Returned(size) = NextCell(b)
    BY <1>1, <2>1 DEF Returned
  <2> QED BY <1>1, <2>2, MallocSmallGives DEF Serves
<1>2. CASE BinSize(size) = BIG_BIN /\ MallocBig(size) /\ live' = live
  BY <1>2, MallocBigGives
<1> QED BY <1>1, <1>2 DEF Klmalloc

\* klfree takes back the block it is given and no other.
LEMMA KlfreeTakes ==
  ASSUME SlabInv, BigInv, NEW ptr \in OwnedPtrs, Klfree(ptr)
  PROVE  /\ OwnedPtrs' = OwnedPtrs \ {ptr}
         /\ UNCHANGED <<heapEnd, hdrSize>>
<1>1. /\ ptr = <<ptr[1], ptr[2]>>
      /\ IF IsBig(ptr[1]) THEN IsBigBlock(ptr) ELSE IsCell(ptr)
  BY OwnedFacts
<1>2. CASE IsBig(ptr[1])
  <2>1. ptr = <<ptr[1], 0>> /\ ptr[1] \in bigLive /\ ptr \notin live
    BY <1>1, <1>2 DEF IsBigBlock
  <2>2. PICK lv \in Level : FreeBig(ptr[1], lv) /\ live' = live
    BY <1>2 DEF Klfree
  <2>3. bigLive' = bigLive \ {ptr[1]} /\ UNCHANGED <<heapEnd, hdrSize>>
    BY <2>2 DEF FreeBig
  <2> QED BY <2>1, <2>2, <2>3 DEF OwnedPtrs
<1>3. CASE ~IsBig(ptr[1])
  <2>1. FreeSmall(ptr[1], ptr[2]) /\ bigLive' = bigLive
    BY <1>3 DEF Klfree
  <2>2. live' = live \ {ptr} /\ UNCHANGED <<heapEnd, hdrSize>>
    BY <1>1, <2>1 DEF FreeSmall
  <2>3. bigLive \subseteq BigPages
    BY DEF BigInv, OwnersInv
  <2>4. ptr \notin bigLive \X {0}
    BY <1>1, <1>3, <2>3 DEF BigPages
  <2> QED BY <2>1, <2>2, <2>4 DEF OwnedPtrs
<1> QED BY <1>2, <1>3
-----------------------------------------------------------------------------
(* The books: what the callers' view and the memory have in common.        *)

BooksInv ==
  /\ DOMAIN asked = OwnedPtrs
  /\ IsFiniteSet(OwnedPtrs)
  /\ outstanding = Cardinality(OwnedPtrs)
  /\ pending \in OwnedPtrs \cup {NoPtr}
  /\ overrun \in BOOLEAN

KlInv == SlabInv /\ BigInv /\ ChainInv /\ SpansInv /\ BooksInv

\* klmalloc and the caller's note of it.
Gives(size, n) == Klmalloc(size) /\ Granted(Returned(size), n)

\* klfree and the caller's note of it.
Takes(ptr) == Klfree(ptr) /\ Returns(ptr)

\* realloc that leaves the block where it is.
Resizes(ptr, n) ==
  /\ HasRoom(ptr, n)
  /\ asked' = [asked EXCEPT ![ptr] = n]
  /\ UNCHANGED <<slabVars, bigVars, outstanding>>

LEMMA RequestFacts ==
  /\ WORD \in Nat /\ WORD > 0
  /\ \A size \in Request : size \in 1 .. WORD - 1
  /\ \A a \in CallocArgs : /\ a[1] \in Nat /\ a[2] \in Nat /\ a[1] * a[2] \in Nat
                           /\ (a[1] * a[2]) % WORD \in 0 .. WORD - 1
<1>1. WORD \in Nat /\ WORD > 0
  BY GeometryAssumption
<1>2. \A size \in Request : size \in 1 .. WORD - 1
  BY BigRequestAssumption, RequestAssumption DEF Request
<1>3. ASSUME NEW a \in CallocArgs
      PROVE  /\ a[1] \in Nat /\ a[2] \in Nat /\ a[1] * a[2] \in Nat
             /\ (a[1] * a[2]) % WORD \in 0 .. WORD - 1
  <2>1. a[1] \in Nat /\ a[2] \in Nat
    BY <1>1, RequestAssumption
  <2>2. PICK m \in Nat : m = a[1] * a[2]
    BY <2>1
  <2>3. m % WORD \in 0 .. WORD - 1
    BY <1>1, <2>2
  <2> QED BY <2>1, <2>2, <2>3
<1> QED BY <1>1, <1>2, <1>3

\* Every step of the allocator, for the books: the size that callers asked
\* for is the one that klmalloc is given unless a product of calloc wraps.
LEMMA KlSteps ==
  ASSUME pending \in OwnedPtrs \cup {NoPtr}, [KlNext]_klVars
  PROVE  \/ \E size \in 1 .. WORD - 1 :
              /\ \/ size \in Request /\ Gives(size, size)
                 \/ \E a \in CallocArgs : /\ size = (a[1] * a[2]) % WORD
                                          /\ Gives(size, a[1] * a[2])
              /\ UNCHANGED <<pending, overrun>>
         \/ \E ptr \in OwnedPtrs, size \in Request :
              /\ Gives(size, size) /\ ~HasRoom(ptr, size)
              /\ ReallocMayShrink \/ size >= asked[ptr]
              /\ \E new \in {Returned(size)} : overrun' = (OldSize(ptr) > Capacity(new)')
              /\ pending' = ptr
         \/ \E ptr \in OwnedPtrs : Takes(ptr) /\ pending' = NoPtr /\ overrun' = overrun
         \/ \E ptr \in OwnedPtrs, size \in Request :
              /\ Resizes(ptr, size) /\ (ReallocMayShrink \/ size >= asked[ptr])
              /\ UNCHANGED <<pending, overrun>>
         \/ UNCHANGED klVars
<1>1. CASE ReallocFree
  <2>1. pending \in OwnedPtrs /\ Takes(pending) /\ pending' = NoPtr /\ overrun' = overrun
    BY <1>1 DEF ReallocFree, Takes
  <2> QED BY <2>1
<1>2. ASSUME NEW size \in Request, Malloc(size)
      PROVE  size \in 1 .. WORD - 1 /\ Gives(size, size) /\ UNCHANGED <<pending, overrun>>
  BY <1>2, RequestFacts DEF Malloc, Gives
<1>3. ASSUME NEW a \in CallocArgs, Calloc(a[1], a[2])
      PROVE  \E size \in 1 .. WORD - 1 :
               /\ size = (a[1] * a[2]) % WORD /\ Gives(size, a[1] * a[2])
               /\ UNCHANGED <<pending, overrun>>
  <2>1. PICK size : size = (a[1] * a[2]) % WORD
    OBVIOUS
  <2>2. size > 0 /\ Gives(size, a[1] * a[2]) /\ UNCHANGED <<pending, overrun>>
    BY <1>3, <2>1 DEF Calloc, Gives
  <2>3. size \in 1 .. WORD - 1
    <3>1. size \in 0 .. WORD - 1
      BY <2>1, RequestFacts
    <3> QED BY <2>2, <3>1, RequestFacts
  <2> QED BY <2>1, <2>2, <2>3
<1>4. ASSUME NEW ptr \in OwnedPtrs, Free(ptr), pending = NoPtr
      PROVE  Takes(ptr) /\ pending' = NoPtr /\ overrun' = overrun
  BY <1>4 DEF Free, Takes
<1>5. ASSUME NEW ptr \in OwnedPtrs, NEW size \in Request, ReallocInPlace(ptr, size)
      PROVE  Resizes(ptr, size) /\ UNCHANGED <<pending, overrun>>
  BY <1>5 DEF ReallocInPlace, Resizes
<1>6. ASSUME NEW ptr \in OwnedPtrs, NEW size \in Request, ReallocCopy(ptr, size)
      PROVE  /\ Gives(size, size) /\ ~HasRoom(ptr, size)
             /\ \E new \in {Returned(size)} : overrun' = (OldSize(ptr) > Capacity(new)')
             /\ pending' = ptr
  BY <1>6 DEF ReallocCopy, Gives
<1>7. CASE UNCHANGED klVars
  BY <1>7
<1>8. CASE pending = NoPtr /\ \E size \in Request : Malloc(size)
  BY <1>8, <1>2
<1>9. CASE pending = NoPtr /\ \E a \in CallocArgs : Calloc(a[1], a[2])
  BY <1>9, <1>3
<1>10. CASE pending = NoPtr /\ \E ptr \in OwnedPtrs : Free(ptr)
  BY <1>10, <1>4
<1>11. CASE /\ pending = NoPtr
            /\ \E ptr \in OwnedPtrs, size \in Request :
                 /\ ReallocMayShrink \/ size >= asked[ptr]
                 /\ ReallocInPlace(ptr, size) \/ ReallocCopy(ptr, size)
  BY <1>11, <1>5, <1>6
<1> QED BY <1>1, <1>7, <1>8, <1>9, <1>10, <1>11 DEF KlNext

LEMMA GivesKeepsBooks ==
  ASSUME SlabInv, BigInv, BooksInv, NEW size \in Int, NEW n, Gives(size, n)
  PROVE  /\ DOMAIN asked' = OwnedPtrs' /\ IsFiniteSet(OwnedPtrs')
         /\ outstanding' = Cardinality(OwnedPtrs')
         /\ \A q \in OwnedPtrs : q \in OwnedPtrs' /\ asked'[q] = asked[q]
         /\ Returned(size) \notin OwnedPtrs
         /\ Returned(size) \in OwnedPtrs' /\ asked'[Returned(size)] = n
         /\ outstanding' = outstanding + 1
<1>1. PICK r : r = Returned(size)
  OBVIOUS
<1>2. r \notin OwnedPtrs /\ OwnedPtrs' = OwnedPtrs \cup {r}
  BY <1>1, KlmallocGives DEF Gives
<1>3. /\ asked' = [q \in DOMAIN asked \cup {r} |-> IF q = r THEN n ELSE asked[q]]
      /\ outstanding' = outstanding + 1
  BY <1>1 DEF Gives, Granted
<1>4. DOMAIN asked = OwnedPtrs /\ IsFiniteSet(OwnedPtrs) /\ outstanding = Cardinality(OwnedPtrs)
  BY DEF BooksInv
<1>5. IsFiniteSet(OwnedPtrs') /\ Cardinality(OwnedPtrs') = Cardinality(OwnedPtrs) + 1
  BY <1>2, <1>4, FS_AddElement
<1> QED BY <1>1, <1>2, <1>3, <1>4, <1>5

LEMMA TakesKeepsBooks ==
  ASSUME SlabInv, BigInv, BooksInv, NEW ptr \in OwnedPtrs, Takes(ptr)
  PROVE  /\ DOMAIN asked' = OwnedPtrs' /\ IsFiniteSet(OwnedPtrs')
         /\ outstanding' = Cardinality(OwnedPtrs')
         /\ OwnedPtrs' = OwnedPtrs \ {ptr}
         /\ \A q \in OwnedPtrs' : asked'[q] = asked[q]
         /\ outstanding' = outstanding - 1
<1>1. OwnedPtrs' = OwnedPtrs \ {ptr}
  BY KlfreeTakes DEF Takes
<1>2. asked' = [q \in DOMAIN asked \ {ptr} |-> asked[q]] /\ outstanding' = outstanding - 1
  BY DEF Takes, Returns
<1>3. DOMAIN asked = OwnedPtrs /\ IsFiniteSet(OwnedPtrs) /\ outstanding = Cardinality(OwnedPtrs)
  BY DEF BooksInv
<1>4. IsFiniteSet(OwnedPtrs') /\ Cardinality(OwnedPtrs') = Cardinality(OwnedPtrs) - 1
  BY <1>1, <1>3, FS_RemoveElement
<1> QED BY <1>1, <1>2, <1>3, <1>4

LEMMA KlStepKeepsBooks ==
  ASSUME SlabInv, BigInv, BooksInv, [KlNext]_klVars
  PROVE  BooksInv'
<1>1. pending \in OwnedPtrs \cup {NoPtr} /\ overrun \in BOOLEAN
  BY DEF BooksInv
<1>2. ASSUME NEW size \in 1 .. WORD - 1, NEW n, Gives(size, n),
             pending' \in {pending} \cup OwnedPtrs, overrun' \in BOOLEAN
      PROVE  BooksInv'
  <2>1. size \in Int
    OBVIOUS
  <2>2. \A q \in OwnedPtrs : q \in OwnedPtrs'
    BY <1>2, <2>1, GivesKeepsBooks
  <2>3. pending' \in OwnedPtrs' \cup {NoPtr}
    BY <1>1, <1>2, <2>2
  <2>4. NoPtr' = NoPtr
    BY DEF NoPtr
  <2>5. DOMAIN asked' = OwnedPtrs' /\ IsFiniteSet(OwnedPtrs') /\ outstanding' = Cardinality(OwnedPtrs')
    BY <1>2, <2>1, GivesKeepsBooks
  <2> QED BY <1>2, <2>3, <2>4, <2>5 DEF BooksInv
<1>3. ASSUME NEW ptr \in OwnedPtrs, Takes(ptr), overrun' = overrun, pending' = NoPtr
      PROVE  BooksInv'
  <2>1. DOMAIN asked' = OwnedPtrs' /\ IsFiniteSet(OwnedPtrs') /\ outstanding' = Cardinality(OwnedPtrs')
    BY <1>3, TakesKeepsBooks
  <2> QED BY <1>1, <1>3, <2>1 DEF BooksInv, NoPtr
<1>4. ASSUME NEW ptr \in OwnedPtrs, NEW n, Resizes(ptr, n), UNCHANGED <<pending, overrun>>
      PROVE  BooksInv'
  <2>1. DOMAIN asked' = DOMAIN asked /\ OwnedPtrs' = OwnedPtrs /\ outstanding' = outstanding
    BY <1>4 DEF Resizes, slabVars, bigVars, OwnedPtrs
  <2> QED BY <1>1, <1>4, <2>1 DEF BooksInv, NoPtr
<1>5. CASE UNCHANGED klVars
  <2>1. OwnedPtrs' = OwnedPtrs /\ UNCHANGED <<asked, outstanding, pending, overrun>>
    BY <1>5 DEF klVars, slabVars, bigVars, OwnedPtrs
  <2> QED BY <2>1 DEF BooksInv, NoPtr
<1>6. \A size \in Request : size \in 1 .. WORD - 1
  BY RequestFacts
<1>7. ASSUME NEW ptr \in OwnedPtrs, NEW size \in Request, Gives(size, size), pending' = ptr,
             NEW new, overrun' = (OldSize(ptr) > Capacity(new)')
      PROVE  BooksInv'
  <2>1. overrun' \in BOOLEAN
    BY <1>7
  <2> QED BY <1>2, <1>6, <1>7, <2>1
<1> QED BY <1>1, <1>2, <1>3, <1>4, <1>5, <1>6, <1>7, KlSteps

\* The inductive invariant of the allocator.
LEMMA KlInvInit == KlInit => KlInv
<1> SUFFICES ASSUME KlInit PROVE KlInv
  OBVIOUS
<1>1. SlabInv /\ BigInv /\ ChainInv
  BY KlInitInv, InitInv, BigInitInv, ChainInit DEF KlInit, SlabInit, BigBinsInit
<1>2. SpansInv
  BY DEF KlInit, SlabInit, HeapInit, SpansInv, HasHeader
<1>3. BooksInv
  <2>1. OwnedPtrs = {}
    BY DEF KlInit, SlabInit, BigInit, OwnedPtrs
  <2> QED BY <2>1, FS_EmptySet DEF KlInit, BooksInv
<1> QED BY <1>1, <1>2, <1>3 DEF KlInv

LEMMA KlInvStep == KlInv /\ [KlNext]_klVars => KlInv'
<1> SUFFICES ASSUME KlInv, [KlNext]_klVars PROVE KlInv'
  OBVIOUS
<1>1. SlabInv /\ BigInv /\ ChainInv /\ SpansInv /\ BooksInv /\ SlabTypeOK
  BY DEF KlInv, SlabInv
<1>2. SlabInv'
  BY <1>1, KlStepIsSlabStep, StepInv
<1>3. BigInv' /\ ChainInv'
  BY <1>1, KlStepIsBigStep, BigStepKeepsBigInv, BigStepKeepsChain
<1> QED BY <1>1, <1>2, <1>3, KlStepKeepsSpans, KlStepKeepsBooks DEF KlInv

\* The allocator's state after any calls: both halves keep their own
\* invariants, no bin reaches into another, and what callers were given and
\* have not freed is what the memory shows as taken.
THEOREM KlInvariant == KlSpec => []KlInv
BY KlInvInit, KlInvStep, PTL DEF KlSpec

\* KlTypeOK: the words keep their types, and callers own the blocks that they
\* were given and have not freed, also between the two halves of a realloc.
THEOREM KlTypeCorrect == KlSpec => []KlTypeOK
<1>1. KlInv => KlTypeOK
  <2>1. ASSUME KlInv PROVE outstanding \in Nat
    BY <2>1, FS_CardinalityType DEF KlInv, BooksInv
  <2> QED BY <2>1 DEF KlInv, SlabInv, BigInv, BooksInv, KlTypeOK
<1> QED BY <1>1, KlInvariant, PTL

\* BlocksClearOfHeaders: whatever callers write into their blocks, they do
\* not write over the allocator's headers, nor behind the heap's end.
THEOREM KlBlocksClear == KlSpec => []BlocksClearOfHeaders
<1>1. KlInv => BlocksClearOfHeaders
  BY BlocksClear DEF KlInv
<1> QED BY <1>1, KlInvariant, PTL
-----------------------------------------------------------------------------
(* The refinement of HeapSpec.                                             *)

Blocks == {BlockOf(ptr) : ptr \in OwnedPtrs}

AllApart ==
  \A ptr, other \in OwnedPtrs : ptr # other =>
    ~Heap!Overlap(BlockOf(ptr), BlockOf(other)) /\ BlockOf(ptr) # BlockOf(other)

LEMMA KlInvApart == KlInv => AllApart
BY BlocksApart DEF KlInv, AllApart

\* No page has more cells than one of the smallest bucket.
LEMMA CellsBounded ==
  ASSUME NEW b \in SmallBin
  PROVE  Cells(b) <= Cells(0)
<1>1. /\ 0 \in SmallBin /\ b \in Nat /\ SMALLEST_BIN_LOG \in Nat
      /\ SMALLEST_BIN_LOG + b \in 0 .. 31 /\ SMALLEST_BIN_LOG + 0 \in 0 .. 31
      /\ SMALLEST_BIN_LOG + 0 <= SMALLEST_BIN_LOG + b
  BY BitsAssumption, GeometryAssumption DEF SmallBin, BIG_BIN
<1>2. CellSize(0) <= CellSize(b)
  BY <1>1, PowerMonotone DEF CellSize
<1>3. PICK s \in Nat, z \in Nat, r \in Int :
        /\ s = CellSize(b) /\ z = CellSize(0) /\ r = PAGE_SIZE - BIN_HDR /\ z > 0
  BY <1>1, SizeWordFacts, GeometryAssumption
<1>4. PICK n \in Nat : n = Cells(b) /\ n * s <= r
  BY <1>1, <1>3, CellFacts, GeometryAssumption
<1>5. n * z <= r
  <2>1. n * (s - z) >= 0
    BY <1>2, <1>3
  <2> QED BY <1>3, <1>4, <2>1
<1>6. n <= r \div z
  BY <1>3, <1>5
<1> QED BY <1>3, <1>4, <1>6 DEF Cells

CellBlock(p, b, c) == [base |-> p * PAGE_SIZE + CellOffset(b, c), len |-> CellSize(b)]
BigBlock(p, n) == [base |-> p * PAGE_SIZE + BIG_HDR, len |-> BigBinSize(n)]

LEMMA AllBlocksAre ==
  /\ \A p \in Page, b \in SmallBin, c \in 0 .. Cells(0) : CellBlock(p, b, c) \in AllBlocks
  /\ \A p \in Page, n \in 1 .. MaxPages : BigBlock(p, n) \in AllBlocks
<1>1. AllBlocks =
        {CellBlock(p, b, c) : p \in Page, b \in SmallBin, c \in 0 .. Cells(0)}
        \cup {BigBlock(p, n) : p \in Page, n \in 1 .. MaxPages}
  BY DEF AllBlocks, CellBlock, BigBlock
<1> QED BY <1>1

LEMMA BlockListed ==
  ASSUME SlabInv, BigInv, SpansInv, NEW ptr \in OwnedPtrs
  PROVE  BlockOf(ptr) \in AllBlocks
<1> DEFINE p == ptr[1]
           c == ptr[2]
<1>1. /\ p \in Page /\ HasHeader(p)
      /\ IF IsBig(p) THEN IsBigBlock(ptr) ELSE IsCell(ptr)
  BY OwnedFacts
<1>2. CASE IsBig(p)
  <2>1. PICK n \in 1 .. MaxPages : hdrSize[p] = BigBinSize(n)
    <3>1. hdrSize[p] \notin SmallBin
      BY <1>1, <1>2, SizeWordFacts DEF IsBig, SlabInv, SlabTypeOK
    <3> QED BY <1>1, <3>1 DEF SpansInv, SizeWordOK
  <2>2. BlockOf(ptr) = [base |-> p * PAGE_SIZE + BIG_HDR, len |-> BigBinSize(n)]
    BY <1>2, <2>1 DEF BlockOf, Capacity
  <2> QED BY <1>1, <2>2, AllBlocksAre DEF BigBlock
<1>3. CASE ~IsBig(p)
  <2>1. PICK b \in SmallBin : b = hdrSize[p] /\ c \in 0 .. Cells(b) - 1
    BY <1>1, <1>3 DEF IsCell
  <2>2. BlockOf(ptr) = [base |-> p * PAGE_SIZE + CellOffset(b, c), len |-> CellSize(b)]
    BY <1>3, <2>1 DEF BlockOf, Capacity
  <2>3. c \in 0 .. Cells(0)
    <3>1. 0 \in SmallBin
      BY <2>1, ConstantFacts DEF SmallBin
    <3>2. Cells(b) \in Nat /\ Cells(0) \in Nat /\ Cells(b) <= Cells(0)
      BY <3>1, CellFacts, CellsBounded
    <3> QED BY <2>1, <3>2
  <2> QED BY <1>1, <2>2, <2>3, AllBlocksAre DEF CellBlock
<1> QED BY <1>2, <1>3

LEMMA KlInvListed == KlInv => Blocks \subseteq AllBlocks
BY BlockListed DEF KlInv, Blocks

\* A block that is owned stays where it is and as long as it is, while the
\* page's header is not rewritten.
LEMMA BlockStays ==
  ASSUME SlabInv, BigInv, NEW ptr \in OwnedPtrs,
         \A p \in Page : HasHeader(p) => hdrSize'[p] = hdrSize[p]
  PROVE  /\ BlockOf(ptr)' = BlockOf(ptr) /\ Capacity(ptr)' = Capacity(ptr)
         /\ hdrSize'[ptr[1]] = hdrSize[ptr[1]]
<1>1. hdrSize'[ptr[1]] = hdrSize[ptr[1]]
  BY OwnedFacts
<1> QED BY <1>1 DEF BlockOf, Capacity, IsBig

LEMMA KlStepIsHeapStep ==
  ASSUME KlInv, KlInv', [KlNext]_klVars
  PROVE  [Heap!HeapSpecNext]_<<Blocks, outstanding>>
<1>1. SlabInv /\ BigInv /\ SpansInv /\ BooksInv /\ SlabTypeOK
  BY DEF KlInv, SlabInv
<1>2. /\ AllApart /\ AllApart' /\ Blocks' \subseteq AllBlocks' /\ Blocks \subseteq AllBlocks
  <2>1. AllApart /\ Blocks \subseteq AllBlocks
    BY KlInvApart, KlInvListed
  <2>2. AllApart'
    BY KlInvApart, PTL
  <2>3. (Blocks \subseteq AllBlocks)'
    BY KlInvListed, PTL
  <2> QED BY <2>1, <2>2, <2>3
<1>3. AllBlocks' = AllBlocks
  BY DEF AllBlocks, CellOffset, CellSize, BigBinSize, Cells, SmallBin, Page
<1>4. \A ptr \in OwnedPtrs : BlockOf(ptr)' = BlockOf(ptr)
  BY <1>1, KlStepKeepsSpans, BlockStays
<1>5. ASSUME NEW size \in 1 .. WORD - 1, NEW n, Gives(size, n)
      PROVE  Heap!HeapSpecNext
  <2>1. PICK r : r = Returned(size)
    OBVIOUS
  <2>2. /\ r \notin OwnedPtrs /\ OwnedPtrs' = OwnedPtrs \cup {r} /\ outstanding' = outstanding + 1
    BY <1>1, <1>5, <2>1, KlmallocGives DEF Gives, Granted
  <2>3. PICK x : x = BlockOf(r)'
    OBVIOUS
  <2>4. Blocks' = Blocks \cup {x}
    BY <1>4, <2>2, <2>3 DEF Blocks
  <2>5. x \in AllBlocks
    BY <1>2, <1>3, <2>4
  <2>6. ASSUME NEW y \in Blocks PROVE ~Heap!Overlap(x, y)
    <3>1. PICK q \in OwnedPtrs : y = BlockOf(q)
      BY DEF Blocks
    <3>2. r \in OwnedPtrs' /\ q \in OwnedPtrs' /\ r # q /\ y = BlockOf(q)'
      BY <1>4, <2>2, <3>1
    <3> QED BY <1>2, <2>3, <3>2 DEF AllApart, Heap!Overlap
  <2>7. Heap!Alloc(x)
    BY <2>2, <2>4, <2>6 DEF Heap!Alloc, Blocks
  <2> QED BY <2>5, <2>7 DEF Heap!HeapSpecNext
<1>6. ASSUME NEW ptr \in OwnedPtrs, Takes(ptr)
      PROVE  Heap!HeapSpecNext
  <2>1. OwnedPtrs' = OwnedPtrs \ {ptr} /\ outstanding' = outstanding - 1
    BY <1>1, <1>6, TakesKeepsBooks
  <2>2. PICK x : x = BlockOf(ptr)
    OBVIOUS
  <2>3. x \in Blocks
    BY <2>2 DEF Blocks
  <2>4. \A q \in OwnedPtrs : q # ptr => BlockOf(q) # x
    BY <1>2, <2>2 DEF AllApart
  <2>5. Blocks' = Blocks \ {x}
    BY <1>4, <2>1, <2>2, <2>4 DEF Blocks
  <2>6. Heap!Release(x)
    BY <2>1, <2>3, <2>5 DEF Heap!Release, Blocks
  <2> QED BY <1>2, <2>3, <2>6 DEF Heap!HeapSpecNext
<1>7. ASSUME UNCHANGED <<slabVars, bigVars, outstanding>>
      PROVE  UNCHANGED <<Blocks, outstanding>>
  <2>1. OwnedPtrs' = OwnedPtrs
    BY <1>7 DEF slabVars, bigVars, OwnedPtrs
  <2> QED BY <1>4, <1>7, <2>1 DEF Blocks
<1>8. \A size \in Request : size \in 1 .. WORD - 1
  BY RequestFacts
<1>9. ASSUME NEW ptr \in OwnedPtrs, NEW size \in Request, Resizes(ptr, size)
      PROVE  UNCHANGED <<Blocks, outstanding>>
  BY <1>7, <1>9 DEF Resizes
<1>10. CASE UNCHANGED klVars
  BY <1>7, <1>10 DEF klVars
<1>11. pending \in OwnedPtrs \cup {NoPtr}
  BY <1>1 DEF BooksInv
<1> QED BY <1>5, <1>6, <1>8, <1>9, <1>10, <1>11, KlSteps

\* ImplementsHeapSpec: whatever calls are made, the blocks that callers own do
\* not overlap, none moves or changes its length while it is owned, each call
\* adds or removes just one, and none is handed out twice.
THEOREM KlImplementsHeapSpec == KlSpec => ImplementsHeapSpec
<1>1. KlInit => Heap!HeapSpecInit
  <2>1. KlInit => OwnedPtrs = {} /\ outstanding = 0
    BY DEF KlInit, SlabInit, BigInit, OwnedPtrs
  <2> QED BY <2>1 DEF Heap!HeapSpecInit
<1>2. KlInv /\ KlInv' /\ [KlNext]_klVars =>
        [Heap!HeapSpecNext]_<<{BlockOf(ptr) : ptr \in OwnedPtrs}, outstanding>>
  BY KlStepIsHeapStep DEF Blocks
<1> QED BY <1>1, <1>2, KlInvariant, PTL DEF KlSpec, ImplementsHeapSpec, Heap!Spec
-----------------------------------------------------------------------------
(* What callers may use.  A request so large that the header does not fit  *)
(* a word with it gets too little memory (BigBinFits says so of the bins), *)
(* and so does a product of calloc that wraps; the theorems are about the  *)
(* requests that do neither.                                               *)

RequestsFit ==
  /\ \A size \in Request : size + BIG_HDR < WORD
  /\ \A a \in CallocArgs : a[1] * a[2] + BIG_HDR < WORD

\* The bytes of a bin's cell, by its size word.
CapacityOf(v) == IF v > NUM_BINS THEN v ELSE CellSize(v)

\* A bucket that serves a request has no smaller bucket that could.
Tight(v, n) == v \in SmallBin /\ v > 0 => CellSize(v - 1) < n

LEMMA ServesFits ==
  ASSUME NEW size \in 1 .. WORD - 1, size + BIG_HDR < WORD, NEW v \in Int, Serves(size, v)
  PROVE  size <= CapacityOf(v) /\ Tight(v, size) /\ CapacityOf(v) \in Int
<1>1. size \in Nat
  OBVIOUS
<1>2. CASE v \in SmallBin /\ v = BinSize(size)
  <2>1. BinSize(size) < BIG_BIN /\ ~(v > NUM_BINS) /\ CellSize(v) \in Nat
    BY <1>2, SizeWordFacts, ConstantFacts DEF SmallBin
  <2> QED BY <1>2, <2>1, BinSizeFacts DEF CapacityOf, Tight
<1>3. CASE v > NUM_BINS /\ v >= size
  <2>1. v \notin SmallBin
    BY <1>3, SizeWordFacts
  <2> QED BY <1>3, <2>1 DEF CapacityOf, Tight
<1>4. CASE v > NUM_BINS /\ PagesFor(size) \in 1 .. MaxPages /\ v = BigBinSize(PagesFor(size))
  <2>1. v \notin SmallBin
    BY <1>4, SizeWordFacts
  <2>2. PagesFor(size) * PAGE_SIZE > size + BIG_HDR
    BY <1>1, PagesForFits
  <2>3. v = PagesFor(size) * PAGE_SIZE - BIG_HDR
    BY <1>4, BigBinSizeFacts
  <2>4. PICK m \in Int : m = PagesFor(size) * PAGE_SIZE
    BY <1>4, GeometryAssumption
  <2>5. v >= size
    BY <2>2, <2>3, <2>4, GeometryAssumption
  <2> QED BY <1>4, <2>1, <2>5 DEF CapacityOf, Tight
<1> QED BY <1>2, <1>3, <1>4 DEF Serves

LEMMA CapacityIs ==
  ASSUME NEW ptr
  PROVE  /\ Capacity(ptr) = CapacityOf(hdrSize[ptr[1]])
         /\ Capacity(ptr)' = CapacityOf(hdrSize'[ptr[1]])
BY DEF Capacity, CapacityOf, IsBig

\* The steps of KlSteps for requests that fit.
LEMMA KlFittingSteps ==
  ASSUME RequestsFit, KlInv, [KlNext]_klVars
  PROVE  \/ \E size \in 1 .. WORD - 1 :
              size + BIG_HDR < WORD /\ Gives(size, size) /\ overrun' = overrun
         \/ \E ptr \in OwnedPtrs, size \in 1 .. WORD - 1 :
              /\ size + BIG_HDR < WORD /\ Gives(size, size) /\ ~HasRoom(ptr, size)
              /\ ReallocMayShrink \/ size >= asked[ptr]
              /\ \E new \in {Returned(size)} : overrun' = (OldSize(ptr) > Capacity(new)')
         \/ \E ptr \in OwnedPtrs : Takes(ptr) /\ overrun' = overrun
         \/ \E ptr \in OwnedPtrs, size \in 1 .. WORD - 1 :
              /\ Resizes(ptr, size) /\ (ReallocMayShrink \/ size >= asked[ptr])
              /\ overrun' = overrun
         \/ UNCHANGED klVars
<1>1. pending \in OwnedPtrs \cup {NoPtr}
  BY DEF KlInv, BooksInv
<1>2. \A size \in Request : size \in 1 .. WORD - 1 /\ size + BIG_HDR < WORD
  BY RequestFacts DEF RequestsFit
<1>3. \A a \in CallocArgs :
        (a[1] * a[2]) % WORD = a[1] * a[2] /\ a[1] * a[2] + BIG_HDR < WORD
  <2> SUFFICES ASSUME NEW a \in CallocArgs
               PROVE  (a[1] * a[2]) % WORD = a[1] * a[2] /\ a[1] * a[2] + BIG_HDR < WORD
    OBVIOUS
  <2>1. PICK m \in Nat : m = a[1] * a[2]
    BY RequestFacts
  <2>2. m + BIG_HDR < WORD
    BY <2>1 DEF RequestsFit
  <2>3. m % WORD = m
    BY <2>2, GeometryAssumption
  <2> QED BY <2>1, <2>2, <2>3
<1> HIDE DEF RequestsFit
<1> QED BY <1>1, <1>2, <1>3, KlSteps

LEMMA OwnedInPages == SlabInv /\ BigInv => \A ptr \in OwnedPtrs : ptr[1] \in Page
BY OwnedFacts

\* A block is as large as it was asked for, and of the smallest bucket that
\* was so.
CapacityInv == \A ptr \in OwnedPtrs : asked[ptr] \in Nat /\ asked[ptr] <= Capacity(ptr)

TightInv == \A ptr \in OwnedPtrs : Tight(hdrSize[ptr[1]], asked[ptr])

LEMMA StepKeepsCapacity ==
  ASSUME RequestsFit, KlInv, [KlNext]_klVars, CapacityInv
  PROVE  /\ CapacityInv'
         /\ ~ReallocMayShrink /\ TightInv => TightInv'
<1>1. SlabInv /\ BigInv /\ SpansInv /\ BooksInv /\ SlabTypeOK
  BY DEF KlInv, SlabInv
<1>2. \A ptr \in OwnedPtrs : Capacity(ptr)' = Capacity(ptr) /\ hdrSize'[ptr[1]] = hdrSize[ptr[1]]
  BY <1>1, KlStepKeepsSpans, BlockStays
<1>3. hdrSize' \in [Page -> Int] /\ \A ptr \in OwnedPtrs' : ptr[1] \in Page
  <2>1. KlInv'
    BY KlInvStep
  <2>2. SlabInv' /\ BigInv' /\ SlabTypeOK'
    BY <2>1 DEF KlInv, SlabInv
  <2>3. hdrSize' \in [Page -> Int]
    BY <2>2 DEF SlabTypeOK
  <2>4. (\A ptr \in OwnedPtrs : ptr[1] \in Page)'
    BY <2>2, OwnedInPages, PTL
  <2> QED BY <2>3, <2>4 DEF Page
<1>4. ASSUME NEW size \in 1 .. WORD - 1, size + BIG_HDR < WORD, Gives(size, size)
      PROVE  CapacityInv' /\ (TightInv => TightInv')
  <2>1. PICK r : r = Returned(size)
    OBVIOUS
  <2>2. /\ r \in OwnedPtrs' /\ asked'[r] = size
        /\ \A q \in OwnedPtrs : asked'[q] = asked[q]
    BY <1>1, <1>4, <2>1, GivesKeepsBooks
  <2>3. OwnedPtrs' = OwnedPtrs \cup {r} /\ Serves(size, hdrSize'[r[1]])
    BY <1>1, <1>4, <2>1, KlmallocGives DEF Gives
  <2>4. hdrSize'[r[1]] \in Int
    BY <1>3, <2>2
  <2>5. size <= Capacity(r)' /\ Tight(hdrSize'[r[1]], size)
    BY <1>4, <2>3, <2>4, ServesFits, CapacityIs
  <2>6. size \in Nat
    OBVIOUS
  <2>7. CapacityInv'
    BY <1>2, <2>2, <2>3, <2>5, <2>6 DEF CapacityInv
  <2>8. TightInv => TightInv'
    BY <1>2, <2>2, <2>3, <2>5 DEF TightInv, Tight
  <2> QED BY <2>7, <2>8
<1>5. ASSUME NEW ptr \in OwnedPtrs, Takes(ptr)
      PROVE  CapacityInv' /\ (TightInv => TightInv')
  <2>1. OwnedPtrs' = OwnedPtrs \ {ptr} /\ \A q \in OwnedPtrs' : asked'[q] = asked[q]
    BY <1>1, <1>5, TakesKeepsBooks
  <2> QED BY <1>2, <2>1 DEF CapacityInv, TightInv, Tight
<1>6. ASSUME NEW ptr \in OwnedPtrs, NEW size \in 1 .. WORD - 1, Resizes(ptr, size)
      PROVE  /\ CapacityInv'
             /\ size >= asked[ptr] /\ TightInv => TightInv'
  <2>1. /\ OwnedPtrs' = OwnedPtrs /\ HasRoom(ptr, size)
        /\ asked' = [asked EXCEPT ![ptr] = size] /\ DOMAIN asked = OwnedPtrs
    BY <1>1, <1>6 DEF Resizes, slabVars, bigVars, OwnedPtrs, BooksInv
  <2>2. \A q \in OwnedPtrs : asked'[q] = IF q = ptr THEN size ELSE asked[q]
    BY <2>1
  <2>3. size \in Nat /\ size <= Capacity(ptr)
    <3>1. PICK v \in Int : v = hdrSize[ptr[1]]
      BY <1>1, OwnedFacts DEF SlabTypeOK
    <3>2. v >= size /\ SizeWordOK(v)
      BY <1>1, <2>1, <3>1, OwnedFacts DEF HasRoom, SpansInv
    <3>3. size <= CapacityOf(v)
      <4>1. v \in SmallBin => CellSize(v) > v /\ CellSize(v) \in Nat /\ ~(v > NUM_BINS)
        BY SizeWordFacts
      <4>2. v \notin SmallBin => v > NUM_BINS
        BY <3>2, BigBinSizeFacts DEF SizeWordOK
      <4> QED BY <3>2, <4>1, <4>2 DEF CapacityOf
    <3> QED BY <3>1, <3>3, CapacityIs
  <2>4. CapacityInv'
    BY <1>2, <2>1, <2>2, <2>3 DEF CapacityInv
  <2>5. ASSUME size >= asked[ptr], TightInv PROVE TightInv'
    <3>1. asked[ptr] \in Nat
      BY DEF CapacityInv
    <3>2. Tight(hdrSize[ptr[1]], size)
      <4>1. Tight(hdrSize[ptr[1]], asked[ptr])
        BY <2>5 DEF TightInv
      <4>2. ASSUME NEW b \in SmallBin, b > 0 PROVE CellSize(b - 1) \in Nat
        <5>1. b - 1 \in SmallBin
          BY <4>2, ConstantFacts DEF SmallBin
        <5> QED BY <5>1, SizeWordFacts
      <4> QED BY <2>5, <3>1, <4>1, <4>2 DEF Tight
    <3> QED BY <1>2, <2>1, <2>2, <2>5, <3>2 DEF TightInv, Tight
  <2> QED BY <2>4, <2>5
<1>7. CASE UNCHANGED klVars
  <2>1. OwnedPtrs' = OwnedPtrs /\ asked' = asked
    BY <1>7 DEF klVars, slabVars, bigVars, OwnedPtrs
  <2> QED BY <1>2, <2>1 DEF CapacityInv, TightInv, Tight
<1> QED BY <1>4, <1>5, <1>6, <1>7, KlFittingSteps

\* What realloc copies, when callers never ask it for less than they have.
LEMMA OldFits ==
  ASSUME NEW v \in Int, SizeWordOK(v), NEW w \in Int, NEW size \in 1 .. WORD - 1, size > v,
         NEW n \in Nat, n <= size, Tight(v, n), size + BIG_HDR < WORD, Serves(size, w)
  PROVE  (IF v < BIG_BIN THEN CellSize(v) ELSE v) <= CapacityOf(w)
<1>1. size <= CapacityOf(w) /\ CapacityOf(w) \in Int
  BY ServesFits
<1>2. CASE v \in SmallBin
  <2>1. v \in Nat /\ v < BIG_BIN /\ BIG_BIN \in Nat /\ SMALLEST_BIN_LOG \in Nat
    BY <1>2, ConstantFacts, GeometryAssumption DEF SmallBin
  <2>2. \A b \in SmallBin : b <= BIG_BIN - 1 /\ b \in Nat
                            /\ SMALLEST_BIN_LOG + b \in 0 .. 31
    BY BitsAssumption, GeometryAssumption DEF SmallBin, BIG_BIN
  <2>3. \A b, d \in SmallBin : b <= d => CellSize(b) <= CellSize(d)
    BY <2>1, <2>2, PowerMonotone DEF CellSize
  <2>4. \A b \in SmallBin : CellSize(b) \in Nat
    BY SizeWordFacts
\* The bucket below would not have done, and the new block does.
  <2>5. v > 0 => v - 1 \in SmallBin /\ CellSize(v - 1) < size
    <3>1. v > 0 => v - 1 \in SmallBin
      BY <1>2, <2>1 DEF SmallBin
    <3>2. v > 0 => CellSize(v - 1) < n
      BY <1>2 DEF Tight
    <3> QED BY <2>4, <3>1, <3>2
  <2>6. CASE w \in SmallBin
    <3>1. CapacityOf(w) = CellSize(w) /\ w \in Nat
      BY <2>6, <2>2, SizeWordFacts DEF CapacityOf
    <3>2. v <= w
      <4>1. CASE v = 0
        BY <3>1, <4>1
      <4>2. CASE v > 0
        <5>1. ~(CellSize(w) <= CellSize(v - 1))
          BY <1>1, <2>4, <2>5, <2>6, <3>1, <4>2
        <5>2. ~(w <= v - 1)
          BY <2>3, <2>5, <2>6, <4>2, <5>1
        <5> QED BY <2>1, <3>1, <5>2
      <4> QED BY <2>1, <4>1, <4>2
    <3> QED BY <1>2, <2>1, <2>3, <2>6, <3>1, <3>2
  <2>7. CASE w \notin SmallBin
    <3>1. BinSize(size) = BIG_BIN
      BY <2>7 DEF Serves
    <3>2. BIG_BIN - 1 \in SmallBin /\ CellSize(BIG_BIN - 1) < size
      BY <2>1, <3>1, BinSizeFacts DEF SmallBin
    <3>3. CellSize(v) <= CellSize(BIG_BIN - 1)
      BY <1>2, <2>2, <2>3, <3>2
    <3> QED BY <1>1, <1>2, <2>1, <2>4, <3>2, <3>3
  <2> QED BY <2>6, <2>7
<1>3. CASE v \notin SmallBin
  <2>1. v > NUM_BINS
    BY <1>3, BigBinSizeFacts DEF SizeWordOK
  <2>2. ~(v < BIG_BIN)
    BY <2>1, ConstantFacts DEF BIG_BIN
  <2> QED BY <1>1, <2>2
<1> QED BY <1>2, <1>3

LEMMA OwnedSizes == KlInv => \A ptr \in OwnedPtrs : hdrSize[ptr[1]] \in Int
BY OwnedInPages DEF KlInv, SlabInv, SlabTypeOK

LEMMA StepKeepsNoOverrun ==
  ASSUME RequestsFit, ~ReallocMayShrink, KlInv, [KlNext]_klVars, CapacityInv, TightInv, NoOverrun
  PROVE  NoOverrun'
<1>1. SlabInv /\ BigInv /\ SpansInv /\ BooksInv /\ SlabTypeOK
  BY DEF KlInv, SlabInv
<1>2. (\A ptr \in OwnedPtrs : hdrSize[ptr[1]] \in Int)'
  <2>1. KlInv'
    BY KlInvStep
  <2> QED BY <2>1, OwnedSizes, PTL
<1>3. ASSUME NEW ptr \in OwnedPtrs, NEW size \in 1 .. WORD - 1,
             size + BIG_HDR < WORD, Gives(size, size), ~HasRoom(ptr, size), size >= asked[ptr],
             NEW r, r = Returned(size), overrun' = (OldSize(ptr) > Capacity(r)')
      PROVE  ~overrun'
  <2>1. PICK v \in Int : v = hdrSize[ptr[1]] /\ SizeWordOK(v) /\ ~(v >= size)
    BY <1>1, <1>3, OwnedFacts DEF SlabTypeOK, SpansInv, HasRoom
  <2>2. asked[ptr] \in Nat /\ asked[ptr] <= size /\ Tight(v, asked[ptr])
    BY <1>3, <2>1 DEF CapacityInv, TightInv
  <2>3. Serves(size, hdrSize'[r[1]]) /\ r \in OwnedPtrs'
    BY <1>1, <1>3, KlmallocGives, GivesKeepsBooks DEF Gives
  <2>4. hdrSize'[r[1]] \in Int
    BY <1>2, <2>3
  <2>5. PICK w \in Int : w = hdrSize'[r[1]]
    BY <2>4
  <2>6. OldSize(ptr) = IF v < BIG_BIN THEN CellSize(v) ELSE v
    BY <2>1 DEF OldSize
  <2>7. OldSize(ptr) <= CapacityOf(w) /\ Capacity(r)' = CapacityOf(w)
    BY <1>3, <2>1, <2>2, <2>3, <2>5, <2>6, OldFits, CapacityIs
  <2>8. CapacityOf(w) \in Int /\ OldSize(ptr) \in Int
    <3>1. CapacityOf(w) \in Int
      BY <1>3, <2>3, <2>5, ServesFits
    <3>2. v < BIG_BIN => v \in SmallBin
      BY <2>1, BigBinSizeFacts, ConstantFacts DEF SizeWordOK, BIG_BIN
    <3> QED BY <2>1, <2>6, <3>1, <3>2, SizeWordFacts
  <2>9. ~(OldSize(ptr) > Capacity(r)')
    BY <2>7, <2>8
  <2> QED BY <1>3, <2>9, Zenon
<1>4. CASE overrun' = overrun
  BY <1>4 DEF NoOverrun
<1>5. \A ptr \in OwnedPtrs, size \in 1 .. WORD - 1 :
        /\ size + BIG_HDR < WORD /\ Gives(size, size) /\ ~HasRoom(ptr, size)
        /\ size >= asked[ptr]
        /\ \E new \in {Returned(size)} : overrun' = (OldSize(ptr) > Capacity(new)')
        => ~overrun'
  BY <1>3
<1>6. UNCHANGED klVars => overrun' = overrun
  BY DEF klVars
<1> QED BY <1>4, <1>5, <1>6, KlFittingSteps DEF NoOverrun

\* CapacityEnough: whatever malloc, calloc or realloc was asked for, the block
\* that its caller has is no smaller, whichever bin it came from, however
\* often that was reused, and also when realloc left it where it was.
THEOREM KlCapacityEnough ==
  ASSUME RequestsFit
  PROVE  KlSpec => []CapacityEnough
<1>1. KlInit => CapacityInv
  BY DEF KlInit, SlabInit, BigInit, OwnedPtrs, CapacityInv
<1>2. KlInv /\ CapacityInv /\ [KlNext]_klVars => CapacityInv'
  BY StepKeepsCapacity
<1>3. KlInv /\ CapacityInv => CapacityEnough
  BY DEF KlInv, BooksInv, CapacityInv, CapacityEnough
<1> QED BY <1>1, <1>2, <1>3, KlInvariant, PTL DEF KlSpec

\* NoOverrun: realloc never copies more than its new block holds, if callers
\* never ask it for less than they had (the run KlMallocShrink shows what
\* happens otherwise).
THEOREM KlNoOverrun ==
  ASSUME RequestsFit, ~ReallocMayShrink
  PROVE  KlSpec => []NoOverrun
<1>1. KlInit => CapacityInv /\ TightInv /\ NoOverrun
  BY DEF KlInit, SlabInit, BigInit, OwnedPtrs, CapacityInv, TightInv, NoOverrun
<1>2. KlInv /\ CapacityInv /\ TightInv /\ NoOverrun /\ [KlNext]_klVars
        => CapacityInv' /\ TightInv' /\ NoOverrun'
  BY StepKeepsCapacity, StepKeepsNoOverrun
<1> QED BY <1>1, <1>2, KlInvariant, PTL DEF KlSpec
=============================================================================
