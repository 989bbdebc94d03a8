-------------------------- MODULE SlabBins_proofs --------------------------
(***************************************************************************)
(* Proofs about SlabBins for every page size, number of bins and number of *)
(* pages that satisfy the assumptions of HeapPages, and about the sizes    *)
(* that BinSizes steps through.  The lemmas of the first part are about    *)
(* what all of the allocator rests on; the other proofs about it extend    *)
(* this module for them.                                                   *)
(***************************************************************************)
EXTENDS BinSizes, SlabBins, SequenceTheorems, WellFoundedInduction, TLAPS

(***************************************************************************)
(* Lemmas about the constants and the sizes of big bins, and about loops.  *)
(*                                                                         *)
(* The loops of the models are functions defined by recursion on the       *)
(* number of turns.  The induction theorems of the library have operators  *)
(* as parameters; here it is done with sets, from the least number.        *)
(***************************************************************************)

\* What the assumptions say of the constants.
LEMMA ConstantFacts ==
  /\ BIG_BIN \in Nat
  /\ NUM_BINS \in Nat
  /\ NUM_BINS > 0
  /\ MaxPages \in Nat
  /\ SmallBin \subseteq Nat
  /\ \A b \in SmallBin : b < NUM_BINS /\ b # Untouched
  /\ Page \subseteq Nat
BY GeometryAssumption, MaxPagesAssumption DEF BIG_BIN, SmallBin, Page, Untouched

\* A big bin's size word is never a bucket number, and does not wrap.
LEMMA BigBinSizeFacts ==
  ASSUME NEW n \in 1 .. MaxPages
  PROVE  /\ BigBinSize(n) \in Int
         /\ BigBinSize(n) = n * PAGE_SIZE - BIG_HDR
         /\ BigBinSize(n) > NUM_BINS
         /\ BigBinSize(n) \notin SmallBin
<1> DEFINE m == n * PAGE_SIZE
<1> USE ConstantFacts, GeometryAssumption
<1>1. m \in Int /\ m >= PAGE_SIZE /\ m <= MaxPages * PAGE_SIZE
  <2>1. (n - 1) * PAGE_SIZE >= 0 /\ (MaxPages - n) * PAGE_SIZE >= 0
    OBVIOUS
  <2> QED BY <2>1
<1> HIDE DEF m
<1>2. m - BIG_HDR \in 0 .. WORD - 1 /\ m - BIG_HDR > NUM_BINS
  BY <1>1, BigSizeAssumption, WordAssumption
<1>3. (m - BIG_HDR) % WORD = m - BIG_HDR
  BY <1>2
<1> QED BY <1>2, <1>3 DEF BigBinSize, m

\* A big request that sbrk can serve takes at least one page and no more
\* than there are.
LEMMA PagesForFacts ==
  ASSUME heapEnd \in 0 .. MaxPages, NEW size \in Int, heapEnd + PagesFor(size) <= MaxPages
  PROVE  PagesFor(size) \in 1 .. MaxPages
<1> DEFINE m == (size + BIG_HDR) % WORD
           d == m \div PAGE_SIZE
<1>1. m \in Nat
  BY GeometryAssumption
<1> HIDE DEF m
<1>2. d \in Nat
  BY <1>1, GeometryAssumption
<1> HIDE DEF d
<1>3. PagesFor(size) = d + 1
  BY DEF PagesFor, d, m
<1> QED BY <1>2, <1>3, ConstantFacts
-----------------------------------------------------------------------------
\* A set of natural numbers has a least one.
LEMMA LeastNumber ==
  ASSUME NEW T \in SUBSET Nat, T # {}
  PROVE  \E m \in T : \A n \in T : m <= n
<1> DEFINE R == OpToRel(<, Nat)
<1>1. IsWellFoundedOn(R, Nat)
  BY NatLessThanWellFounded, Zenon
<1>2. PICK m \in T : \A n \in T : ~(<<n, m>> \in R)
  <2> HIDE DEF R
  <2> QED BY <1>1, WFMin
<1>3. \A n \in T : n < m => <<n, m>> \in R
  BY DEF OpToRel
<1>4. \A n \in T : ~(n < m)
  <2> HIDE DEF R
  <2> QED BY <1>2, <1>3
<1>5. m \in Nat /\ \A n \in T : n \in Nat
  OBVIOUS
<1> QED BY <1>4, <1>5

\* A bounded set of numbers has a greatest one.
LEMMA GreatestNumber ==
  ASSUME NEW N \in Int, NEW T \in SUBSET Int, \A n \in T : n <= N, T # {}
  PROVE  \E m \in T : \A n \in T : n <= m
<1> DEFINE U == {N - n : n \in T}
<1>1. U \in SUBSET Nat /\ U # {}
  <2>1. \A n \in T : n \in Int /\ N - n \in Nat
    OBVIOUS
  <2>2. PICK n \in T : TRUE
    OBVIOUS
  <2> QED BY <2>1, <2>2
<1>2. PICK u \in U : \A v \in U : u <= v
  <2> HIDE DEF U
  <2> QED BY <1>1, LeastNumber
<1>3. PICK m \in T : u = N - m
  OBVIOUS
<1>4. \A n \in T : N - m <= N - n
  BY <1>2, <1>3
<1> QED BY <1>4

\* Induction up to N: what holds before a loop and is kept by every turn.
LEMMA LoopInduction ==
  ASSUME NEW N \in Nat, NEW T, 0 \in T, \A k \in 1 .. N : k - 1 \in T => k \in T
  PROVE  \A k \in 0 .. N : k \in T
<1> SUFFICES ASSUME (0 .. N) \ T # {} PROVE FALSE
  OBVIOUS
<1>1. PICK m \in (0 .. N) \ T : \A n \in (0 .. N) \ T : m <= n
  <2>1. (0 .. N) \ T \in SUBSET Nat
    OBVIOUS
  <2> QED BY <2>1, LeastNumber
<1>2. m \in 1 .. N /\ m - 1 \in 0 .. N /\ m - 1 \in T
  BY <1>1
<1> QED BY <1>1, <1>2

\* f[k] is where a loop stands after k turns.
IsLoop(f, N, a, step) == f = [k \in 0 .. N |-> IF k = 0 THEN a ELSE step[k][f[k - 1]]]

\* A loop of N turns is well defined: there is a function that starts with a
\* and goes on with step[k] in turn k, if in[k] are values that step[k + 1] takes.
LEMMA LoopExists ==
  ASSUME NEW N \in Nat, NEW a, NEW in, NEW step, a \in in[0],
         \A k \in 1 .. N : \A x \in in[k - 1] : step[k][x] \in in[k]
  PROVE  \E f : IsLoop(f, N, a, step) /\ \A k \in 0 .. N : f[k] \in in[k]
<1> DEFINE UpTo(n, f) == /\ f = [k \in 0 .. n |-> IF k = 0 THEN a ELSE step[k][f[k - 1]]]
                         /\ \A k \in 0 .. n : f[k] \in in[k]
           T == {n \in 0 .. N : \E f : UpTo(n, f)}
<1>1. 0 \in T
  <2> DEFINE f == [k \in 0 .. 0 |-> a]
  <2>1. f[0] = a /\ \A k \in 0 .. 0 : k = 0
    OBVIOUS
  <2>2. f = [k \in 0 .. 0 |-> IF k = 0 THEN a ELSE step[k][f[k - 1]]]
    <3>1. \A k \in 0 .. 0 : a = IF k = 0 THEN a ELSE step[k][f[k - 1]]
      BY <2>1
    <3> QED BY <3>1
  <2>3. \A k \in 0 .. 0 : f[k] \in in[k]
    BY <2>1
  <2>4. UpTo(0, f)
    <3> HIDE DEF f
    <3> QED BY <2>2, <2>3
  <2>5. \E g : UpTo(0, g)
    <3> HIDE DEF f, UpTo
    <3> QED BY <2>4
  <2> HIDE DEF UpTo
  <2> QED BY <2>5
<1>2. ASSUME NEW n \in 1 .. N, n - 1 \in T PROVE n \in T
  <2>1. PICK f : UpTo(n - 1, f)
    BY <1>2
  <2>2. /\ DOMAIN f = 0 .. n - 1
        /\ \A k \in 0 .. n - 1 : f[k] = IF k = 0 THEN a ELSE step[k][f[k - 1]]
        /\ \A k \in 0 .. n - 1 : f[k] \in in[k]
    BY <2>1
  <2> DEFINE h == [k \in 0 .. n |-> IF k = n THEN step[n][f[n - 1]] ELSE f[k]]
  <2>3. \A k \in 0 .. n : h[k] = IF k = 0 THEN a ELSE step[k][h[k - 1]]
    BY <2>2
  <2>4. h[n] \in in[n]
    BY <2>2
  <2>5. \A k \in 0 .. n : h[k] \in in[k]
    BY <2>2, <2>4
  <2>6. h = [k \in 0 .. n |-> h[k]]
    OBVIOUS
  <2> HIDE DEF h
  <2>7. h = [k \in 0 .. n |-> IF k = 0 THEN a ELSE step[k][h[k - 1]]]
    BY <2>3, <2>6
  <2> QED BY <2>5, <2>7
<1>3. N \in T
  <2> HIDE DEF T
  <2> QED BY <1>1, <1>2, LoopInduction
<1>4. PICK f : UpTo(N, f)
  BY <1>3
<1> QED BY <1>4 DEF IsLoop
-----------------------------------------------------------------------------
(* Powers of two, and the bucket that klmalloc_bin_size picks.             *)

LEMMA PowerFacts ==
  /\ PowerOf2[0] = 1
  /\ \A k \in 1 .. 31 : PowerOf2[k] = 2 * PowerOf2[k - 1]
  /\ \A k \in 0 .. 31 : PowerOf2[k] \in Nat /\ PowerOf2[k] > k
<1> DEFINE in == [k \in 0 .. 31 |-> {x \in Nat : x > k}]
           step == [k \in 1 .. 31 |-> [x \in Nat |-> 2 * x]]
           Loop(h) == h = [k \in 0 .. 31 |-> IF k = 0 THEN 1 ELSE 2 * h[k - 1]]
<1>1. PICK f : IsLoop(f, 31, 1, step) /\ \A k \in 0 .. 31 : f[k] \in in[k]
  <2>1. 1 \in in[0]
    OBVIOUS
  <2>2. \A k \in 1 .. 31 : \A x \in in[k - 1] : step[k][x] \in in[k]
    OBVIOUS
  <2> HIDE DEF in, step
  <2> QED BY <2>1, <2>2, LoopExists
<1>2. \A k \in 0 .. 31 : f[k] \in Nat /\ f[k] > k
  <2>1. \A k \in 0 .. 31 : in[k] = {x \in Nat : x > k}
    OBVIOUS
  <2> HIDE DEF in, step
  <2> QED BY <1>1, <2>1
<1>3. \A k \in 1 .. 31 : step[k][f[k - 1]] = 2 * f[k - 1]
  <2>1. \A k \in 1 .. 31 : \A x \in Nat : step[k][x] = 2 * x
    OBVIOUS
  <2>2. \A k \in 1 .. 31 : f[k - 1] \in Nat
    BY <1>2
  <2> HIDE DEF step, in
  <2> QED BY <2>1, <2>2
<1>4. Loop(f)
  <2>1. \A k \in 0 .. 31 : f[k] = IF k = 0 THEN 1 ELSE 2 * f[k - 1]
    <3> HIDE DEF step, in
    <3>1. \A k \in 0 .. 31 : f[k] = IF k = 0 THEN 1 ELSE step[k][f[k - 1]]
      BY <1>1, Zenon DEF IsLoop
    <3> TAKE k \in 0 .. 31
    <3>2. k = 0 \/ k \in 1 .. 31
      OBVIOUS
    <3> QED BY <1>3, <3>1, <3>2
  <2>2. f = [k \in 0 .. 31 |-> f[k]]
    <3> HIDE DEF step, in
    <3> QED BY <1>1 DEF IsLoop
  <2> QED BY <2>1, <2>2
<1> DEFINE p == CHOOSE h : Loop(h)
<1>5. PowerOf2 = p
  BY DEF PowerOf2
<1>6. Loop(p)
  <2> HIDE DEF Loop
  <2> QED BY <1>4
<1>7. p[0] = 1 /\ \A k \in 1 .. 31 : p[k] = 2 * p[k - 1]
  <2> HIDE DEF p
  <2> QED BY <1>6
<1> HIDE DEF p
<1>8. \A k \in 0 .. 31 : p[k] \in Nat /\ p[k] > k
  <2> DEFINE T == {k \in 0 .. 31 : p[k] \in Nat /\ p[k] > k}
  <2>1. 0 \in T
    BY <1>7
  <2>2. ASSUME NEW k \in 1 .. 31, k - 1 \in T PROVE k \in T
    <3>1. p[k] = 2 * p[k - 1] /\ p[k - 1] \in Nat /\ p[k - 1] > k - 1
      BY <1>7, <2>2
    <3>2. p[k] \in Nat /\ p[k] > k
      BY <3>1
    <3> QED BY <3>2
  <2>3. \A k \in 0 .. 31 : k \in T
    <3> HIDE DEF T
    <3> QED BY <2>1, <2>2, LoopInduction
  <2> QED BY <2>3
<1> QED BY <1>5, <1>7, <1>8

LEMMA PowerMonotone ==
  ASSUME NEW j \in 0 .. 31, NEW k \in 0 .. 31, j <= k
  PROVE  PowerOf2[j] <= PowerOf2[k]
<1> DEFINE T == {i \in 0 .. 31 : j <= i => PowerOf2[j] <= PowerOf2[i]}
<1>1. 0 \in T
  <2>1. j <= 0 => j = 0
    OBVIOUS
  <2>2. PowerOf2[0] \in Nat
    BY PowerFacts
  <2> QED BY <2>1, <2>2
<1>2. \A i \in 1 .. 31 : i - 1 \in T => i \in T
  <2> SUFFICES ASSUME NEW i \in 1 .. 31, i - 1 \in T, j <= i
               PROVE  PowerOf2[j] <= PowerOf2[i]
    OBVIOUS
  <2>1. /\ PowerOf2[i] = 2 * PowerOf2[i - 1]
        /\ PowerOf2[i - 1] \in Nat /\ PowerOf2[j] \in Nat /\ i - 1 \in 0 .. 31
    BY PowerFacts
  <2>2. CASE j = i
    BY <2>1, <2>2
  <2>3. CASE j # i
    BY <2>1, <2>3
  <2> QED BY <2>2, <2>3
<1>3. \A i \in 0 .. 31 : i \in T
  <2> HIDE DEF T
  <2> QED BY <1>1, <1>2, LoopInduction
<1> QED BY <1>3

\* The highest bit that is set: clz is defined for every size but 0.
LEMMA BitLengthFacts ==
  ASSUME NEW n \in 1 .. WORD - 1
  PROVE  /\ BitLength(n) \in 1 .. 32
         /\ PowerOf2[BitLength(n) - 1] <= n /\ n < 2 * PowerOf2[BitLength(n) - 1]
<1> DEFINE T == {k \in 1 .. 32 : PowerOf2[k - 1] <= n}
           Fits(k) == PowerOf2[k - 1] <= n /\ n \div 2 < PowerOf2[k - 1]
<1>1. n \in Nat /\ n >= 1 /\ WORD \in Nat /\ n <= WORD - 1
  BY GeometryAssumption
<1>2. \A k \in 1 .. 32 : k - 1 \in 0 .. 31 /\ PowerOf2[k - 1] \in Nat
  BY PowerFacts
<1>3. PICK k \in T : \A i \in T : i <= k
  <2>1. T \in SUBSET Int /\ \A i \in T : i <= 32
    OBVIOUS
  <2>2. 1 \in T
    BY <1>1, PowerFacts
  <2>3. PICK N \in Int : N = 32
    OBVIOUS
  <2> HIDE DEF T
  <2> QED BY <2>1, <2>2, <2>3, GreatestNumber
<1>4. n < 2 * PowerOf2[k - 1]
  <2>1. CASE k = 32
    <3>1. PowerOf2[31] = 2 * PowerOf2[30] /\ PowerOf2[30] \in Nat
      BY PowerFacts
    <3>2. n < 4 * PowerOf2[30]
      BY <1>1, <3>1, BitsAssumption
    <3> QED BY <2>1, <3>1, <3>2
  <2>2. CASE k # 32
    <3>1. k \in 1 .. 31 /\ k + 1 \notin T
      BY <1>3, <2>2
    <3>2. PowerOf2[k] = 2 * PowerOf2[k - 1] /\ PowerOf2[k] \in Nat
      BY <3>1, PowerFacts
    <3>3. ~(PowerOf2[k] <= n)
      BY <3>1
    <3> QED BY <1>1, <3>2, <3>3
  <2> QED BY <2>1, <2>2
<1>5. k \in 1 .. 32 /\ Fits(k)
  BY <1>1, <1>2, <1>4
<1> DEFINE m == CHOOSE i \in 1 .. 32 : Fits(i)
<1>6. BitLength(n) = m
  BY DEF BitLength
<1>7. m \in 1 .. 32 /\ Fits(m)
  <2> HIDE DEF Fits
  <2> QED BY <1>5
<1> HIDE DEF m
<1> QED BY <1>1, <1>2, <1>6, <1>7

\* klmalloc_bin_size returns the smallest bucket whose cells hold the request,
\* or the big bin if none does.
LEMMA BinSizeFacts ==
  ASSUME NEW n \in 1 .. WORD - 1
  PROVE  /\ BinSize(n) \in 0 .. BIG_BIN
         /\ BinSize(n) < BIG_BIN => n <= CellSize(BinSize(n))
         /\ BinSize(n) > 0 => CellSize(BinSize(n) - 1) < n
<1> DEFINE k == BitLength(n)
           bin == k + IF IsPowerOfTwo(n) THEN 0 ELSE 1
           L == SMALLEST_BIN_LOG
           B == BinSize(n)
<1>1. k \in 1 .. 32 /\ PowerOf2[k - 1] <= n /\ n < 2 * PowerOf2[k - 1]
  BY BitLengthFacts
<1>2. IsPowerOfTwo(n) <=> n = PowerOf2[k - 1]
  BY DEF IsPowerOfTwo
<1>3. B = AdjustBin(bin)
  BY DEF BinSize
<1> HIDE DEF k, B
<1>4. bin \in 1 .. 33
  BY <1>1
<1>5. bin <= 32 => n <= PowerOf2[bin - 1]
  <2>1. k <= 31 => PowerOf2[k] = 2 * PowerOf2[k - 1]
    BY <1>1, PowerFacts
  <2>2. k - 1 \in 0 .. 31 /\ PowerOf2[k - 1] \in Nat
    BY <1>1, PowerFacts
  <2> QED BY <1>1, <1>2, <2>1, <2>2
<1>6. bin >= 2 => PowerOf2[bin - 2] < n
  <2>1. CASE n = PowerOf2[k - 1]
    <3>1. k >= 2 => PowerOf2[k - 1] = 2 * PowerOf2[(k - 1) - 1] /\ PowerOf2[(k - 1) - 1] \in Nat
                    /\ PowerOf2[(k - 1) - 1] > 0
      BY <1>1, PowerFacts
    <3> QED BY <1>1, <1>2, <2>1, <3>1
  <2>2. CASE n # PowerOf2[k - 1]
    <3>1. bin - 2 = k - 1
      BY <1>1, <1>2, <2>2
    <3>2. PowerOf2[k - 1] \in Nat
      BY <1>1, PowerFacts
    <3> QED BY <1>1, <2>2, <3>1, <3>2
  <2> QED BY <2>1, <2>2
<1> HIDE DEF bin
<1>7. L \in Nat /\ BIG_BIN \in Nat /\ L + BIG_BIN <= 31
  BY ConstantFacts, GeometryAssumption, BitsAssumption
<1>8. \A b \in 0 .. BIG_BIN : CellSize(b) = PowerOf2[L + b] /\ CellSize(b) \in Nat
  <2>1. \A b \in 0 .. BIG_BIN : L + b \in 0 .. 31
    BY <1>7
  <2> QED BY <2>1, PowerFacts DEF CellSize
<1>9. n \in Int
  OBVIOUS
<1>10. CASE bin <= L
  <2>1. B = 0
    BY <1>3, <1>10 DEF AdjustBin
  <2>2. n <= PowerOf2[bin - 1] /\ PowerOf2[bin - 1] <= PowerOf2[L]
    <3>1. bin - 1 \in 0 .. 31 /\ L \in 0 .. 31 /\ bin - 1 <= L
      BY <1>4, <1>7, <1>10
    <3> QED BY <1>4, <1>5, <1>7, <1>10, <3>1, PowerMonotone
  <2>3. CellSize(0) = PowerOf2[L] /\ PowerOf2[L] \in Nat /\ PowerOf2[bin - 1] \in Nat
    <3>1. bin - 1 \in 0 .. 31 /\ L \in 0 .. 31 /\ L + 0 = L
      BY <1>4, <1>7, <1>10
    <3> QED BY <1>7, <1>8, <3>1, PowerFacts
  <2> QED BY <1>7, <1>9, <2>1, <2>2, <2>3 DEF B
<1>11. CASE ~(bin <= L) /\ bin - (L + 1) > BIG_BIN
  <2>1. B = BIG_BIN
    BY <1>3, <1>11 DEF AdjustBin
  <2>2. ASSUME BIG_BIN > 0 PROVE CellSize(BIG_BIN - 1) < n
    <3>1. /\ L + (BIG_BIN - 1) \in 0 .. 31 /\ bin - 2 \in 0 .. 31
          /\ L + (BIG_BIN - 1) <= bin - 2
      BY <1>4, <1>7, <1>11, <2>2
    <3>2. PowerOf2[L + (BIG_BIN - 1)] <= PowerOf2[bin - 2]
      BY <3>1, PowerMonotone
    <3>3. PowerOf2[bin - 2] < n
      BY <1>4, <1>6, <3>1
    <3>4. PowerOf2[L + (BIG_BIN - 1)] \in Nat /\ PowerOf2[bin - 2] \in Nat
      BY <3>1, PowerFacts
    <3> QED BY <1>9, <3>2, <3>3, <3>4 DEF CellSize
  <2> QED BY <1>7, <2>1, <2>2 DEF B
<1>12. CASE ~(bin <= L) /\ ~(bin - (L + 1) > BIG_BIN)
  <2>1. B = bin - (L + 1) /\ B \in 0 .. BIG_BIN /\ L + B = bin - 1
    BY <1>3, <1>4, <1>7, <1>12 DEF AdjustBin
  <2>2. n <= CellSize(B)
    BY <1>4, <1>5, <1>7, <1>8, <2>1
  <2>3. ASSUME B > 0 PROVE CellSize(B - 1) < n
    <3>1. B - 1 \in 0 .. BIG_BIN /\ L + (B - 1) = bin - 2 /\ bin >= 2
      BY <1>4, <1>7, <2>1, <2>3
    <3> QED BY <1>6, <1>8, <3>1
  <2> QED BY <2>1, <2>2, <2>3 DEF B
<1> QED BY <1>10, <1>11, <1>12

\* The cells of a small page are behind its header, in front of the next page.
LEMMA CellFacts ==
  ASSUME NEW b \in SmallBin
  PROVE  /\ CellSize(b) \in Nat /\ CellSize(b) > b
         /\ Cells(b) \in Nat /\ BIN_HDR + Cells(b) * CellSize(b) <= PAGE_SIZE
<1> DEFINE s == CellSize(b)
           r == PAGE_SIZE - BIN_HDR
<1>1. SMALLEST_BIN_LOG + b \in 0 .. 31 /\ b \in Nat /\ SMALLEST_BIN_LOG + b >= b
  BY BitsAssumption, GeometryAssumption DEF SmallBin, BIG_BIN
<1>2. s \in Nat /\ s > b
  BY <1>1, PowerFacts DEF CellSize
<1> HIDE DEF s
<1>3. Cells(b) = r \div s /\ Cells(b) \in Nat /\ Cells(b) # 0
  BY CellsAssumption DEF Cells, s
<1>4. r \in Int /\ s \in Nat /\ s # 0
  BY <1>1, <1>2, GeometryAssumption
<1> HIDE DEF r
<1>5. (r \div s) * s <= r
  BY <1>4
<1> QED BY <1>2, <1>3, <1>5, GeometryAssumption DEF r, s

\* They do not overlap.
LEMMA CellsApart ==
  ASSUME NEW b \in SmallBin, NEW c \in Nat, NEW d \in Nat, c < d
  PROVE  CellOffset(b, c) + CellSize(b) <= CellOffset(b, d)
<1>1. CellSize(b) \in Nat /\ BIN_HDR \in Nat
  BY CellFacts, GeometryAssumption
<1>2. (d - c - 1) * CellSize(b) >= 0
  BY <1>1
<1> QED BY <1>1, <1>2 DEF CellOffset

LEMMA CellInPage ==
  ASSUME NEW b \in SmallBin, NEW c \in 0 .. Cells(b) - 1
  PROVE  /\ CellOffset(b, c) \in Nat /\ CellOffset(b, c) >= BIN_HDR
         /\ CellOffset(b, c) + CellSize(b) <= PAGE_SIZE
<1>1. /\ CellSize(b) \in Nat /\ BIN_HDR \in Nat /\ Cells(b) \in Nat
      /\ BIN_HDR + Cells(b) * CellSize(b) <= PAGE_SIZE /\ PAGE_SIZE \in Nat
  BY CellFacts, GeometryAssumption
<1>2. (Cells(b) - c - 1) * CellSize(b) >= 0 /\ c * CellSize(b) \in Nat
  BY <1>1
<1> QED BY <1>1, <1>2 DEF CellOffset

\* The pages asked of sbrk hold the request and the header, unless their sum
\* wraps around; at most a page is wasted.
LEMMA PagesForFits ==
  ASSUME NEW n \in Nat, n + BIG_HDR < WORD
  PROVE  /\ PagesFor(n) \in Nat /\ PagesFor(n) > 0
         /\ PagesFor(n) * PAGE_SIZE > n + BIG_HDR
         /\ PagesFor(n) * PAGE_SIZE <= n + BIG_HDR + PAGE_SIZE
<1> DEFINE m == n + BIG_HDR
           q == m \div PAGE_SIZE
<1>1. m \in Nat /\ m % WORD = m /\ PAGE_SIZE \in Nat /\ PAGE_SIZE > 0
  BY GeometryAssumption
<1>2. PagesFor(n) = q + 1
  BY <1>1 DEF PagesFor
<1> HIDE DEF m
<1>3. q \in Nat /\ q * PAGE_SIZE <= m /\ m < (q + 1) * PAGE_SIZE
  BY <1>1
<1> HIDE DEF q
<1>4. (q + 1) * PAGE_SIZE <= m + PAGE_SIZE
  BY <1>1, <1>3
<1> QED BY <1>1, <1>2, <1>3, <1>4 DEF m
-----------------------------------------------------------------------------
(***************************************************************************)
(* Lemmas on the two stacks and lists of the code: both only push and pop  *)
(* at the front.                                                           *)
(***************************************************************************)

\* What klmalloc_list_insert and klmalloc_stack_push do to a list without
\* repetitions.
LEMMA PushProperties ==
  ASSUME NEW S, NEW s \in Seq(S), NEW x \in S
  PROVE  /\ <<x>> \o s \in Seq(S)
         /\ <<x>> \o s # <<>>
         /\ Range(<<x>> \o s) = {x} \cup Range(s)
         /\ IsInjective(s) /\ x \notin Range(s) => IsInjective(<<x>> \o s)
<1> DEFINE t == <<x>> \o s
<1>1. <<x>> \in Seq(S) /\ Len(<<x>>) = 1 /\ <<x>>[1] = x
  OBVIOUS
<1>2. /\ t \in Seq(S)
      /\ Len(t) = 1 + Len(s)
      /\ \A i \in 1 .. 1 + Len(s) : t[i] = IF i <= 1 THEN x ELSE s[i - 1]
  BY <1>1, ConcatProperties
<1>3. Len(s) \in Nat /\ DOMAIN s = 1 .. Len(s) /\ DOMAIN t = 1 .. 1 + Len(s)
  BY <1>2, LenProperties
<1>4. t # <<>>
  BY <1>2, <1>3, EmptySeq
<1>5. t[1] = x /\ \A i \in DOMAIN s : i + 1 \in DOMAIN t /\ t[i + 1] = s[i]
  BY <1>2, <1>3
<1>6. \A i \in DOMAIN t : i # 1 => i - 1 \in DOMAIN s /\ t[i] = s[i - 1]
  BY <1>2, <1>3
<1>7. 1 \in DOMAIN t
  BY <1>3
<1>8. Range(t) = {x} \cup Range(s)
  <2> HIDE DEF t
  <2>1. \A y \in Range(t) : y \in {x} \cup Range(s)
    BY <1>5, <1>6 DEF Range
  <2>2. x \in Range(t)
    BY <1>5, <1>7 DEF Range
  <2>3. \A y \in Range(s) : y \in Range(t)
    BY <1>5 DEF Range
  <2> QED BY <2>1, <2>2, <2>3
<1>9. IsInjective(s) /\ x \notin Range(s) => IsInjective(t)
  <2> SUFFICES ASSUME IsInjective(s), x \notin Range(s),
                      NEW i \in DOMAIN t, NEW j \in DOMAIN t, t[i] = t[j]
               PROVE  i = j
    BY DEF IsInjective
  <2>1. i \in Int /\ j \in Int
    BY <1>3
  <2>2. \A k \in DOMAIN s : s[k] # x
    BY DEF Range
  <2>3. CASE i = 1
    BY <2>2, <2>3, <1>5, <1>6
  <2>4. CASE j = 1
    BY <2>2, <2>4, <1>5, <1>6
  <2>5. CASE i # 1 /\ j # 1
    <3>1. i - 1 = j - 1
      BY <2>5, <1>6 DEF IsInjective
    <3> QED BY <3>1, <2>1
  <2> QED BY <2>3, <2>4, <2>5
<1> QED BY <1>2, <1>4, <1>8, <1>9

\* What klmalloc_stack_pop and klmalloc_list_decouple do to one.
LEMMA PopProperties ==
  ASSUME NEW S, NEW s \in Seq(S), s # <<>>
  PROVE  /\ Head(s) \in S
         /\ Tail(s) \in Seq(S)
         /\ Range(s) = {Head(s)} \cup Range(Tail(s))
         /\ IsInjective(s) => IsInjective(Tail(s)) /\ Head(s) \notin Range(Tail(s))
<1> DEFINE t == Tail(s)
<1>1. /\ Head(s) \in S /\ t \in Seq(S)
      /\ Len(t) = Len(s) - 1
      /\ \A i \in 1 .. Len(t) : t[i] = s[i + 1]
  BY HeadTailProperties
<1>2. /\ Len(s) \in Nat \ {0}
      /\ DOMAIN s = 1 .. Len(s)
      /\ DOMAIN t = 1 .. Len(s) - 1
  BY <1>1, LenProperties, EmptySeq
<1>3. Head(s) = s[1] /\ 1 \in DOMAIN s
  BY <1>2
<1>4. \A i \in DOMAIN t : i + 1 \in DOMAIN s /\ i + 1 # 1 /\ t[i] = s[i + 1]
  BY <1>1, <1>2
<1>5. \A i \in DOMAIN s : i # 1 => i - 1 \in DOMAIN t /\ t[i - 1] = s[i]
  BY <1>1, <1>2
<1>6. Range(s) = {Head(s)} \cup Range(t)
  <2> HIDE DEF t
  <2>1. \A y \in Range(s) : y \in {Head(s)} \cup Range(t)
    <3> SUFFICES ASSUME NEW i \in DOMAIN s
                 PROVE  s[i] \in {Head(s)} \cup Range(t)
      BY DEF Range
    <3>1. i # 1 => s[i] = t[i - 1] /\ i - 1 \in DOMAIN t
      BY <1>5
    <3> QED BY <3>1, <1>3 DEF Range
  <2>2. Head(s) \in Range(s)
    BY <1>3 DEF Range
  <2>3. \A y \in Range(t) : y \in Range(s)
    BY <1>4 DEF Range
  <2> QED BY <2>1, <2>2, <2>3
<1>7. ASSUME IsInjective(s) PROVE IsInjective(t)
  <2> SUFFICES ASSUME NEW i \in DOMAIN t, NEW j \in DOMAIN t, t[i] = t[j]
               PROVE  i = j
    BY DEF IsInjective
  <2>1. i + 1 = j + 1
    BY <1>4, <1>7 DEF IsInjective
  <2> QED BY <2>1, <1>2
<1>8. ASSUME IsInjective(s) PROVE Head(s) \notin Range(t)
  BY <1>3, <1>4, <1>8 DEF IsInjective, Range
<1> QED BY <1>1, <1>6, <1>7, <1>8

\* The stack that klmalloc threads through a fresh page holds each cell once.
LEMMA FreshStackProperties ==
  ASSUME NEW b \in SmallBin
  PROVE  /\ FreshStack(b) \in Seq(Nat)
         /\ FreshStack(b) # <<>>
         /\ IsInjective(FreshStack(b))
         /\ Range(FreshStack(b)) = 0 .. Cells(b) - 1
<1> DEFINE n == Cells(b)
           f == [i \in 1 .. n |-> i - 1]
<1>1. n \in Nat \ {0}
  BY CellsAssumption
<1> HIDE DEF n
<1>2. f \in [1 .. n -> Nat]
  BY <1>1
<1>3. f \in Seq(Nat)
  BY <1>1, <1>2, SeqDef
<1>4. f # <<>>
  <2>1. 1 \in DOMAIN f /\ f[1] = 0
    BY <1>1
  <2>2. DOMAIN <<>> = {}
    OBVIOUS
  <2> QED BY <2>1, <2>2
<1>5. IsInjective(f)
  BY <1>1 DEF IsInjective
<1>6. Range(f) = 0 .. n - 1
  <2>1. \A k \in 0 .. n - 1 : k + 1 \in DOMAIN f /\ f[k + 1] = k
    BY <1>1
  <2>2. \A i \in DOMAIN f : f[i] \in 0 .. n - 1
    BY <1>1
  <2> HIDE DEF f
  <2>3. \A k \in 0 .. n - 1 : k \in Range(f)
    BY <2>1 DEF Range
  <2>4. \A k \in Range(f) : k \in 0 .. n - 1
    BY <2>2 DEF Range
  <2> QED BY <2>3, <2>4
<1> QED BY <1>3, <1>4, <1>5, <1>6 DEF FreshStack, n

-----------------------------------------------------------------------------
(***************************************************************************)
(* The inductive invariant.  No part of it is inductive alone: that klfree *)
(* may push a page on its bucket's list without a look at the list needs   *)
(* ListExact; ListExact needs CellsPartition to know that a page whose     *)
(* cell was freed is a page of that bucket; and a fresh page joins both    *)
(* only because OnlySmallPagesHaveCells says that it was empty.            *)
(***************************************************************************)
SlabInv ==
  /\ SlabTypeOK
  /\ OnlySmallPagesHaveCells
  /\ CellsPartition
  /\ ListExact

\* What SlabInv says of one page: the cells on its stack and the cells of it
\* that are owned, given its size word.
PageInv(p, size, s, owned) ==
  /\ size \notin SmallBin => s = <<>> /\ owned = {}
  /\ size \in SmallBin =>
       /\ IsInjective(s)
       /\ Range(s) \cap owned = {}
       /\ Range(s) \cup owned = 0 .. Cells(size) - 1

LEMMA InvOfPage ==
  ASSUME SlabTypeOK
  PROVE  (OnlySmallPagesHaveCells /\ CellsPartition) <=>
           \A p \in Page :
             /\ p >= heapEnd => hdrSize[p] = Untouched
             /\ PageInv(p, hdrSize[p], stack[p], LiveCells(p))
BY DEF OnlySmallPagesHaveCells, CellsPartition, PageInv

LEMMA InitInv == SlabInit => SlabInv
<1> SUFFICES ASSUME SlabInit PROVE SlabInv
  OBVIOUS
<1> USE ConstantFacts DEF SlabInit, HeapInit
<1>1. SlabTypeOK
  <2>1. \A S : <<>> \in Seq(S)
    BY EmptySeq
  <2> QED BY <2>1 DEF SlabTypeOK, Untouched
<1>2. \A p \in Page : LiveCells(p) = {} /\ hdrSize[p] = Untouched
  BY DEF LiveCells
<1>3. OnlySmallPagesHaveCells
  BY <1>2 DEF OnlySmallPagesHaveCells
<1>4. CellsPartition
  BY <1>2 DEF CellsPartition
<1>5. ListExact
  <2>1. Range(<<>>) = {} /\ IsInjective(<<>>)
    BY DEF Range, IsInjective
  <2> QED BY <1>2, <2>1 DEF ListExact
<1> QED BY <1>1, <1>3, <1>4, <1>5 DEF SlabInv

\* The page that klmalloc takes, and the rest of its bucket's list, whether
\* the page is the first of the list or the one that sbrk gives next.
LEMMA TopFacts ==
  ASSUME SlabInv, NEW b \in SmallBin, binHead[b] # <<>> \/ heapEnd < MaxPages
  PROVE  /\ TopPage(b) \in Page
         /\ TopStack(b) \in Seq(Nat) /\ TopStack(b) # <<>>
         /\ hdrSize[TopPage(b)] = IF binHead[b] = <<>> THEN Untouched ELSE b
         /\ TopPage(b) < IF binHead[b] = <<>> THEN heapEnd + 1 ELSE heapEnd
         /\ PageInv(TopPage(b), b, TopStack(b), LiveCells(TopPage(b)))
         /\ RestOfList(b) \in Seq(Page)
         /\ IsInjective(RestOfList(b))
         /\ Range(RestOfList(b)) =
              {q \in Page \ {TopPage(b)} : hdrSize[q] = b /\ stack[q] # <<>>}
<1> USE ConstantFacts
<1>1. SlabTypeOK /\ ListExact
  BY DEF SlabInv
<1>2. \A p \in Page : /\ p >= heapEnd => hdrSize[p] = Untouched
                      /\ PageInv(p, hdrSize[p], stack[p], LiveCells(p))
  BY InvOfPage DEF SlabInv
<1>3. CASE binHead[b] = <<>>
  <2>1. /\ TopPage(b) = heapEnd /\ TopStack(b) = FreshStack(b)
        /\ RestOfList(b) = <<>>
    BY <1>3 DEF TopPage, TopStack, RestOfList
  <2>2. heapEnd \in Page /\ heapEnd \in Nat /\ heapEnd < heapEnd + 1
    BY <1>1, <1>3 DEF SlabTypeOK, Page
  <2>3. hdrSize[heapEnd] = Untouched
    BY <1>2, <2>2
  <2>4. LiveCells(heapEnd) = {}
    <3>1. Untouched \notin SmallBin
      OBVIOUS
    <3> QED BY <3>1, <1>2, <2>2, <2>3 DEF PageInv
  <2>5. PageInv(heapEnd, b, FreshStack(b), LiveCells(heapEnd))
    BY <2>4, FreshStackProperties DEF PageInv
  <2>6. /\ IsInjective(RestOfList(b)) /\ RestOfList(b) \in Seq(Page)
        /\ Range(RestOfList(b)) = {}
    BY <2>1, EmptySeq DEF Range, IsInjective
  <2>7. {q \in Page : hdrSize[q] = b /\ stack[q] # <<>>} = {}
    <3>1. Range(binHead[b]) = {}
      BY <1>3 DEF Range
    <3> QED BY <3>1, <1>1 DEF ListExact
  <2> QED BY <1>3, <2>1, <2>2, <2>3, <2>5, <2>6, <2>7, FreshStackProperties
<1>4. CASE binHead[b] # <<>>
  <2>1. /\ TopPage(b) = Head(binHead[b]) /\ TopStack(b) = stack[TopPage(b)]
        /\ RestOfList(b) = Tail(binHead[b])
    BY <1>4 DEF TopPage, TopStack, RestOfList
  <2>2. binHead[b] \in Seq(Page) /\ IsInjective(binHead[b])
    BY <1>1 DEF SlabTypeOK, ListExact
  <2>3. /\ TopPage(b) \in Page /\ RestOfList(b) \in Seq(Page)
        /\ Range(binHead[b]) = {TopPage(b)} \cup Range(RestOfList(b))
        /\ IsInjective(RestOfList(b)) /\ TopPage(b) \notin Range(RestOfList(b))
    BY <2>1, <2>2, <1>4, PopProperties
  <2>4. Range(binHead[b]) = {q \in Page : hdrSize[q] = b /\ stack[q] # <<>>}
    BY <1>1 DEF ListExact
  <2>5. hdrSize[TopPage(b)] = b /\ TopStack(b) # <<>>
    BY <2>1, <2>3, <2>4
  <2>6. TopPage(b) < heapEnd
    <3>1. heapEnd \in Int /\ TopPage(b) \in Int
      BY <1>1, <2>3 DEF SlabTypeOK, Page
    <3>2. hdrSize[TopPage(b)] # Untouched
      BY <2>5
    <3> QED BY <1>2, <2>3, <3>1, <3>2
  <2>7. TopStack(b) \in Seq(Nat)
    BY <1>1, <2>1, <2>3 DEF SlabTypeOK
  <2>8. Range(RestOfList(b)) =
          {q \in Page \ {TopPage(b)} : hdrSize[q] = b /\ stack[q] # <<>>}
    BY <2>3, <2>4
  <2>9. PageInv(TopPage(b), b, TopStack(b), LiveCells(TopPage(b)))
    BY <1>2, <2>1, <2>3, <2>5
  <2> QED BY <1>4, <2>3, <2>5, <2>6, <2>7, <2>8, <2>9
<1> QED BY <1>3, <1>4

\* What GrowBin leaves of the heap's end and the size words.
LEMMA GrowBinFacts ==
  ASSUME SlabInv, NEW b \in SmallBin, GrowBin(b)
  PROVE  /\ binHead[b] # <<>> \/ heapEnd < MaxPages
         /\ heapEnd' \in 0 .. MaxPages /\ heapEnd <= heapEnd'
         /\ TopPage(b) < heapEnd'
         /\ hdrSize' \in [Page -> Int]
         /\ hdrSize'[TopPage(b)] = b
         /\ hdrSize[TopPage(b)] \in {b, Untouched}
         /\ \A q \in Page : q # TopPage(b) => hdrSize'[q] = hdrSize[q]
<1> USE ConstantFacts
<1>1. heapEnd \in 0 .. MaxPages /\ hdrSize \in [Page -> Int]
  BY DEF SlabInv, SlabTypeOK
<1>2. CASE binHead[b] = <<>>
  <2>1. /\ heapEnd + 1 <= MaxPages /\ heapEnd' = heapEnd + 1
        /\ hdrSize' = [hdrSize EXCEPT ![heapEnd] = b]
    BY <1>2 DEF GrowBin, Sbrk
  <2>2. heapEnd < MaxPages /\ heapEnd' \in 0 .. MaxPages /\ heapEnd <= heapEnd'
    BY <2>1, <1>1
  <2>3. TopPage(b) = heapEnd /\ heapEnd \in Page
    BY <2>2, <1>1, <1>2 DEF TopPage, Page
  <2>4. hdrSize[TopPage(b)] = Untouched /\ TopPage(b) < heapEnd'
    BY <2>1, <2>2, <1>2, TopFacts
  <2> QED BY <2>1, <2>2, <2>3, <2>4, <1>1
<1>3. CASE binHead[b] # <<>>
  <2>1. heapEnd' = heapEnd /\ hdrSize' = hdrSize
    BY <1>3 DEF GrowBin
  <2>2. hdrSize[TopPage(b)] = b /\ TopPage(b) < heapEnd
    BY <1>3, TopFacts
  <2> QED BY <2>1, <2>2, <1>1, <1>3
<1> QED BY <1>2, <1>3

\* The cells of a page after a caller has got, or given back, one of them.
LEMMA LiveCellsChange ==
  ASSUME live \subseteq Page \X Nat, NEW p \in Page, NEW c \in Nat
  PROVE  /\ live' = live \cup {<<p, c>>} =>
              \A q \in Page : LiveCells(q)' = IF q = p THEN LiveCells(q) \cup {c}
                                                       ELSE LiveCells(q)
         /\ live' = live \ {<<p, c>>} =>
              \A q \in Page : LiveCells(q)' = IF q = p THEN LiveCells(q) \ {c}
                                                       ELSE LiveCells(q)
         /\ live' = live => \A q \in Page : LiveCells(q)' = LiveCells(q)
         /\ \A q \in Page : \A d : d \in LiveCells(q) <=> <<q, d>> \in live
<1>1. \A q \in Page : \A d : d \in LiveCells(q) <=> <<q, d>> \in live
  BY DEF LiveCells
<1>2. ASSUME live' \subseteq Page \X Nat
      PROVE  \A q \in Page : \A d : d \in LiveCells(q)' <=> <<q, d>> \in live'
  BY <1>2 DEF LiveCells
<1>3. ASSUME live' = live \cup {<<p, c>>}, NEW q \in Page
      PROVE  LiveCells(q)' = IF q = p THEN LiveCells(q) \cup {c} ELSE LiveCells(q)
  <2>1. live' \subseteq Page \X Nat
    BY <1>3
  <2>2. \A d : d \in LiveCells(q)' <=> <<q, d>> \in live'
    BY <1>2, <2>1
  <2>3. \A d : d \in LiveCells(q)' <=> d \in LiveCells(q) \/ (q = p /\ d = c)
    BY <1>1, <1>3, <2>2
  <2> QED BY <2>3
<1>4. ASSUME live' = live \ {<<p, c>>}, NEW q \in Page
      PROVE  LiveCells(q)' = IF q = p THEN LiveCells(q) \ {c} ELSE LiveCells(q)
  <2>1. live' \subseteq Page \X Nat
    BY <1>4
  <2>2. \A d : d \in LiveCells(q)' <=> <<q, d>> \in live'
    BY <1>2, <2>1
  <2>3. \A d : d \in LiveCells(q)' <=> d \in LiveCells(q) /\ ~(q = p /\ d = c)
    BY <1>1, <1>4, <2>2
  <2> QED BY <2>3
<1>5. ASSUME live' = live, NEW q
      PROVE  LiveCells(q)' = LiveCells(q)
  BY <1>5 DEF LiveCells
<1> QED BY <1>1, <1>3, <1>4, <1>5

-----------------------------------------------------------------------------
(* Each operation preserves the invariant.                                 *)

LEMMA MallocSmallInv ==
  ASSUME SlabInv, NEW b \in SmallBin, MallocSmall(b)
  PROVE  SlabInv'
<1> DEFINE P == TopPage(b)
           T == TopStack(b)
           R == RestOfList(b)
           c == Head(T)
<1> USE ConstantFacts
<1>1. /\ GrowBin(b)
      /\ stack' = [stack EXCEPT ![P] = Tail(T)]
      /\ binHead' = [binHead EXCEPT ![b] = DecoupleIfEmpty(b)]
      /\ live' = live \cup {<<P, c>>}
  BY DEF MallocSmall, NextCell
<1>2. /\ P \in Page
      /\ T \in Seq(Nat) /\ T # <<>>
      /\ heapEnd' \in 0 .. MaxPages /\ heapEnd <= heapEnd'
      /\ P < heapEnd'
      /\ hdrSize' \in [Page -> Int]
      /\ hdrSize'[P] = b
      /\ hdrSize[P] \in {b, Untouched}
      /\ \A q \in Page : q # P => hdrSize'[q] = hdrSize[q]
      /\ PageInv(P, b, T, LiveCells(P))
      /\ R \in Seq(Page)
      /\ IsInjective(R)
      /\ Range(R) = {q \in Page \ {P} : hdrSize[q] = b /\ stack[q] # <<>>}
  BY <1>1, TopFacts, GrowBinFacts
<1>3. SlabTypeOK /\ ListExact
  BY DEF SlabInv
<1>4. \A p \in Page : /\ p >= heapEnd => hdrSize[p] = Untouched
                      /\ PageInv(p, hdrSize[p], stack[p], LiveCells(p))
  BY InvOfPage DEF SlabInv
<1>5. DecoupleIfEmpty(b) = IF Tail(T) = <<>> THEN R ELSE <<P>> \o R
  BY DEF DecoupleIfEmpty
<1> HIDE DEF P, T, R
<1>6. /\ c \in Nat /\ Tail(T) \in Seq(Nat)
      /\ Range(T) = {c} \cup Range(Tail(T))
      /\ IsInjective(T)
      /\ IsInjective(Tail(T)) /\ c \notin Range(Tail(T))
  BY <1>2, PopProperties DEF PageInv
<1>7. live \subseteq Page \X Nat
  BY <1>3 DEF SlabTypeOK
<1>8. \A q \in Page : LiveCells(q)' = IF q = P THEN LiveCells(q) \cup {c}
                                              ELSE LiveCells(q)
  BY <1>1, <1>2, <1>6, <1>7, LiveCellsChange
<1>9. /\ stack' \in [Page -> Seq(Nat)] /\ stack'[P] = Tail(T)
      /\ \A q \in Page : q # P => stack'[q] = stack[q]
  BY <1>1, <1>2, <1>3, <1>6 DEF SlabTypeOK
<1>10. /\ DecoupleIfEmpty(b) \in Seq(Page)
       /\ IsInjective(DecoupleIfEmpty(b))
       /\ Range(DecoupleIfEmpty(b)) =
            {q \in Page : hdrSize'[q] = b /\ stack'[q] # <<>>}
  <2>1. P \notin Range(R)
    BY <1>2
  <2>2. Range(R) = {q \in Page : q # P /\ hdrSize'[q] = b /\ stack'[q] # <<>>}
    BY <1>2, <1>9
  <2>3. CASE Tail(T) = <<>>
    BY <2>2, <2>3, <1>2, <1>5, <1>9
  <2>4. CASE Tail(T) # <<>>
    <3>1. /\ <<P>> \o R \in Seq(Page) /\ IsInjective(<<P>> \o R)
          /\ Range(<<P>> \o R) = {P} \cup Range(R)
      BY <1>2, <2>1, PushProperties
    <3>2. P \in {q \in Page : hdrSize'[q] = b /\ stack'[q] # <<>>}
      BY <2>4, <1>2, <1>9
    <3>3. {P} \cup Range(R) = {q \in Page : hdrSize'[q] = b /\ stack'[q] # <<>>}
      BY <3>2, <2>2
    <3> QED BY <3>1, <3>3, <2>4, <1>5
  <2> QED BY <2>3, <2>4
<1>11. SlabTypeOK'
  <2>1. binHead' \in [SmallBin -> Seq(Page)]
    BY <1>1, <1>3, <1>10 DEF SlabTypeOK
  <2>2. live' \subseteq Page \X Nat
    BY <1>1, <1>2, <1>6, <1>7
  <2> QED BY <2>1, <2>2, <1>2, <1>9 DEF SlabTypeOK
<1>12. ASSUME NEW q \in Page
       PROVE  /\ q >= heapEnd' => hdrSize'[q] = Untouched
              /\ PageInv(q, hdrSize'[q], stack'[q], LiveCells(q)')
  <2>1. CASE q = P
    <3>1. P \in Int /\ heapEnd' \in Int
      BY <1>2 DEF Page
    <3>2. ~(P >= heapEnd')
      BY <3>1, <1>2
    <3>3. PageInv(P, b, Tail(T), LiveCells(P) \cup {c})
      BY <1>2, <1>6 DEF PageInv
    <3> QED BY <2>1, <3>2, <3>3, <1>2, <1>8, <1>9
  <2>2. CASE q # P
    <3>1. heapEnd \in Int /\ heapEnd' \in Int /\ q \in Int
      BY <1>2, <1>3 DEF SlabTypeOK, Page
    <3>2. q >= heapEnd' => q >= heapEnd
      BY <3>1, <1>2
    <3> QED BY <2>2, <3>2, <1>2, <1>4, <1>8, <1>9
  <2> QED BY <2>1, <2>2
<1>13. (OnlySmallPagesHaveCells /\ CellsPartition)'
  BY <1>12 DEF OnlySmallPagesHaveCells, CellsPartition, PageInv
<1>14. ListExact'
  <2> SUFFICES ASSUME NEW d \in SmallBin
               PROVE  /\ IsInjective(binHead'[d])
                      /\ Range(binHead'[d]) =
                           {q \in Page : hdrSize'[q] = d /\ stack'[q] # <<>>}
    BY DEF ListExact
  <2>1. CASE d = b
    BY <2>1, <1>1, <1>3, <1>10 DEF SlabTypeOK
  <2>2. CASE d # b
    <3>1. binHead'[d] = binHead[d]
      BY <2>2, <1>1, <1>3 DEF SlabTypeOK
    <3>2. hdrSize[P] # d /\ hdrSize'[P] # d
      BY <2>2, <1>2
    <3>3. \A q \in Page : (hdrSize'[q] = d /\ stack'[q] # <<>>)
                          <=> (hdrSize[q] = d /\ stack[q] # <<>>)
      BY <3>2, <1>2, <1>9
    <3>4. {q \in Page : hdrSize'[q] = d /\ stack'[q] # <<>>}
            = {q \in Page : hdrSize[q] = d /\ stack[q] # <<>>}
      BY <3>3
    <3> QED BY <3>1, <3>4, <1>3 DEF ListExact
  <2> QED BY <2>1, <2>2
<1> QED BY <1>11, <1>13, <1>14 DEF SlabInv

LEMMA FreeSmallInv ==
  ASSUME SlabInv, NEW p \in Page, NEW c \in Nat, FreeSmall(p, c)
  PROVE  SlabInv'
<1> DEFINE b == hdrSize[p]
<1> USE ConstantFacts
<1>1. /\ <<p, c>> \in live /\ ~IsBig(p)
      /\ binHead' = IF stack[p] = <<>>
                      THEN [binHead EXCEPT ![b] = <<p>> \o @] ELSE binHead
      /\ stack' = [stack EXCEPT ![p] = <<c>> \o @]
      /\ live' = live \ {<<p, c>>}
      /\ heapEnd' = heapEnd /\ hdrSize' = hdrSize
  BY DEF FreeSmall
<1>2. SlabTypeOK /\ ListExact
  BY DEF SlabInv
<1>3. \A q \in Page : /\ q >= heapEnd => hdrSize[q] = Untouched
                      /\ PageInv(q, hdrSize[q], stack[q], LiveCells(q))
  BY InvOfPage DEF SlabInv
<1>4. live \subseteq Page \X Nat
  BY <1>2 DEF SlabTypeOK
<1>5. c \in LiveCells(p)
  BY <1>1, <1>4, LiveCellsChange
<1>6. b \in SmallBin
  BY <1>3, <1>5 DEF PageInv
<1> HIDE DEF b
<1>7. stack[p] \in Seq(Nat) /\ binHead[b] \in Seq(Page)
  BY <1>2, <1>6 DEF SlabTypeOK
<1>8. /\ <<c>> \o stack[p] \in Seq(Nat) /\ <<c>> \o stack[p] # <<>>
      /\ Range(<<c>> \o stack[p]) = {c} \cup Range(stack[p])
      /\ IsInjective(<<c>> \o stack[p])
  <2>1. c \notin Range(stack[p]) /\ IsInjective(stack[p])
    BY <1>3, <1>5, <1>6 DEF PageInv, b
  <2> QED BY <2>1, <1>7, PushProperties
<1>9. /\ stack' \in [Page -> Seq(Nat)] /\ stack'[p] = <<c>> \o stack[p]
      /\ \A q \in Page : q # p => stack'[q] = stack[q]
  BY <1>1, <1>2, <1>8 DEF SlabTypeOK
<1>10. \A q \in Page : LiveCells(q)' = IF q = p THEN LiveCells(q) \ {c}
                                               ELSE LiveCells(q)
  BY <1>1, <1>4, LiveCellsChange
<1>11. /\ binHead' \in [SmallBin -> Seq(Page)]
       /\ \A d \in SmallBin : d # b => binHead'[d] = binHead[d]
       /\ IsInjective(binHead'[b])
       /\ Range(binHead'[b]) = {p} \cup Range(binHead[b])
  <2>1. IsInjective(binHead[b])
        /\ Range(binHead[b]) = {q \in Page : hdrSize[q] = b /\ stack[q] # <<>>}
    BY <1>2, <1>6 DEF ListExact
  <2>2. CASE stack[p] = <<>>
    <3>1. p \notin Range(binHead[b])
      BY <2>1, <2>2
    <3>2. /\ <<p>> \o binHead[b] \in Seq(Page)
          /\ IsInjective(<<p>> \o binHead[b])
          /\ Range(<<p>> \o binHead[b]) = {p} \cup Range(binHead[b])
      BY <3>1, <2>1, <1>7, PushProperties
    <3>3. binHead' = [binHead EXCEPT ![b] = <<p>> \o binHead[b]]
      BY <1>1, <2>2
    <3> QED BY <3>2, <3>3, <1>2, <1>6 DEF SlabTypeOK
  <2>3. CASE stack[p] # <<>>
    <3>1. p \in Range(binHead[b])
      BY <2>1, <2>3 DEF b
    <3>2. binHead' = binHead
      BY <1>1, <2>3
    <3> QED BY <3>1, <3>2, <2>1, <1>2 DEF SlabTypeOK
  <2> QED BY <2>2, <2>3
<1>12. SlabTypeOK'
  BY <1>1, <1>2, <1>9, <1>11 DEF SlabTypeOK
<1>13. ASSUME NEW q \in Page
       PROVE  /\ q >= heapEnd' => hdrSize'[q] = Untouched
              /\ PageInv(q, hdrSize'[q], stack'[q], LiveCells(q)')
  <2>1. CASE q = p
    <3>1. PageInv(p, b, stack[p], LiveCells(p))
      BY <1>3 DEF b
    <3>2. PageInv(p, b, <<c>> \o stack[p], LiveCells(p) \ {c})
      BY <3>1, <1>5, <1>6, <1>8 DEF PageInv
    <3> QED BY <2>1, <3>2, <1>1, <1>3, <1>9, <1>10 DEF b
  <2>2. CASE q # p
    BY <2>2, <1>1, <1>3, <1>9, <1>10
  <2> QED BY <2>1, <2>2
<1>14. (OnlySmallPagesHaveCells /\ CellsPartition)'
  BY <1>13 DEF OnlySmallPagesHaveCells, CellsPartition, PageInv
<1>15. ListExact'
  <2> SUFFICES ASSUME NEW d \in SmallBin
               PROVE  /\ IsInjective(binHead'[d])
                      /\ Range(binHead'[d]) =
                           {q \in Page : hdrSize'[q] = d /\ stack'[q] # <<>>}
    BY DEF ListExact
  <2>1. /\ IsInjective(binHead[d])
        /\ Range(binHead[d]) = {q \in Page : hdrSize[q] = d /\ stack[q] # <<>>}
    BY <1>2 DEF ListExact
  <2>2. CASE d = b
    <3>1. \A q \in Page : (hdrSize'[q] = b /\ stack'[q] # <<>>)
                            <=> q = p \/ (hdrSize[q] = b /\ stack[q] # <<>>)
      BY <1>1, <1>8, <1>9 DEF b
    <3>2. {q \in Page : hdrSize'[q] = b /\ stack'[q] # <<>>}
            = {p} \cup {q \in Page : hdrSize[q] = b /\ stack[q] # <<>>}
      BY <3>1
    <3> QED BY <2>1, <2>2, <3>2, <1>11
  <2>3. CASE d # b
    <3>1. \A q \in Page : (hdrSize'[q] = d /\ stack'[q] # <<>>)
                            <=> (hdrSize[q] = d /\ stack[q] # <<>>)
      BY <2>3, <1>1, <1>9 DEF b
    <3>2. {q \in Page : hdrSize'[q] = d /\ stack'[q] # <<>>}
            = {q \in Page : hdrSize[q] = d /\ stack[q] # <<>>}
      BY <3>1
    <3> QED BY <2>1, <2>3, <3>2, <1>11
  <2> QED BY <2>2, <2>3
<1> QED BY <1>12, <1>14, <1>15 DEF SlabInv

LEMMA GrowForBigBinInv ==
  ASSUME SlabInv, NEW n \in 1 .. MaxPages, GrowForBigBin(n)
  PROVE  SlabInv'
<1> DEFINE sz == BigBinSize(n)
<1> USE ConstantFacts
<1>1. /\ heapEnd + n <= MaxPages /\ heapEnd' = heapEnd + n
      /\ hdrSize' = [hdrSize EXCEPT ![heapEnd] = sz]
      /\ binHead' = binHead /\ stack' = stack /\ live' = live
  BY DEF GrowForBigBin, Sbrk
<1>2. SlabTypeOK /\ ListExact
  BY DEF SlabInv
<1>3. \A q \in Page : /\ q >= heapEnd => hdrSize[q] = Untouched
                      /\ PageInv(q, hdrSize[q], stack[q], LiveCells(q))
  BY InvOfPage DEF SlabInv
<1>4. sz \in Int /\ sz \notin SmallBin
  BY BigBinSizeFacts
<1> HIDE DEF sz
<1>5. heapEnd \in Page /\ heapEnd \in Nat /\ heapEnd' \in 0 .. MaxPages
  BY <1>1, <1>2 DEF SlabTypeOK, Page
<1>6. hdrSize[heapEnd] = Untouched
  BY <1>3, <1>5
<1>7. /\ hdrSize' \in [Page -> Int] /\ hdrSize'[heapEnd] = sz
      /\ \A q \in Page : q # heapEnd => hdrSize'[q] = hdrSize[q]
  BY <1>1, <1>2, <1>4, <1>5 DEF SlabTypeOK
<1>8. SlabTypeOK'
  BY <1>1, <1>2, <1>5, <1>7 DEF SlabTypeOK
<1>9. \A q \in Page : LiveCells(q)' = LiveCells(q)
  BY <1>1 DEF LiveCells
<1>10. ASSUME NEW q \in Page
       PROVE  /\ q >= heapEnd' => hdrSize'[q] = Untouched
              /\ PageInv(q, hdrSize'[q], stack'[q], LiveCells(q)')
  <2>1. CASE q = heapEnd
    <3>1. ~(heapEnd >= heapEnd')
      BY <1>1, <1>5
    <3>2. Untouched \notin SmallBin
      OBVIOUS
    <3> QED BY <2>1, <3>1, <3>2, <1>1, <1>3, <1>4, <1>6, <1>7, <1>9 DEF PageInv
  <2>2. CASE q # heapEnd
    <3>1. q >= heapEnd' => q >= heapEnd
      BY <1>1, <1>5 DEF Page
    <3> QED BY <2>2, <3>1, <1>1, <1>3, <1>7, <1>9
  <2> QED BY <2>1, <2>2
<1>11. (OnlySmallPagesHaveCells /\ CellsPartition)'
  BY <1>10 DEF OnlySmallPagesHaveCells, CellsPartition, PageInv
<1>12. ListExact'
  <2> SUFFICES ASSUME NEW d \in SmallBin
               PROVE  {q \in Page : hdrSize'[q] = d /\ stack'[q] # <<>>}
                        = {q \in Page : hdrSize[q] = d /\ stack[q] # <<>>}
    BY <1>1, <1>2 DEF ListExact
  <2>1. hdrSize'[heapEnd] # d /\ hdrSize[heapEnd] # d
    BY <1>4, <1>6, <1>7
  <2>2. \A q \in Page : (hdrSize'[q] = d /\ stack'[q] # <<>>)
                          <=> (hdrSize[q] = d /\ stack[q] # <<>>)
    BY <2>1, <1>1, <1>7
  <2> QED BY <2>2
<1> QED BY <1>8, <1>11, <1>12 DEF SlabInv

\* SlabInv is inductive.
LEMMA StepInv == SlabInv /\ [SlabNext]_slabVars => SlabInv'
<1> SUFFICES ASSUME SlabInv, [SlabNext]_slabVars PROVE SlabInv'
  OBVIOUS
<1>1. ASSUME NEW b \in SmallBin, MallocSmall(b) PROVE SlabInv'
  BY <1>1, MallocSmallInv
<1>2. ASSUME NEW ptr \in live, FreeSmall(ptr[1], ptr[2]) PROVE SlabInv'
  <2>1. ptr[1] \in Page /\ ptr[2] \in Nat
    BY DEF SlabInv, SlabTypeOK
  <2> QED BY <2>1, <1>2, FreeSmallInv
<1>3. ASSUME NEW n \in 1 .. MaxPages, GrowForBigBin(n) PROVE SlabInv'
  BY <1>3, GrowForBigBinInv
<1>4. CASE UNCHANGED slabVars
  BY <1>4 DEF slabVars, SlabInv, SlabTypeOK, OnlySmallPagesHaveCells,
              CellsPartition, ListExact, LiveCells
<1> QED BY <1>1, <1>2, <1>3, <1>4 DEF SlabNext
-----------------------------------------------------------------------------
(* The theorems.                                                           *)

\* The small-bin half of klmalloc and klfree keeps its invariant, whatever
\* the geometry of pages and bins and however the big half grows the heap.
THEOREM SlabInvariant == SlabSpec => []SlabInv
BY InitInv, StepInv, PTL DEF SlabSpec

\* Its words keep their types.
THEOREM SlabTypeCorrect == SlabSpec => []SlabTypeOK
<1>1. SlabInv => SlabTypeOK
  BY DEF SlabInv
<1> QED BY <1>1, SlabInvariant, PTL

\* No cell of a small page is lost or owned twice.
THEOREM SlabCellsPartition == SlabSpec => []CellsPartition
<1>1. SlabInv => CellsPartition
  BY DEF SlabInv
<1> QED BY <1>1, SlabInvariant, PTL

\* The lists of klmalloc_bin_head hold exactly the pages with a free cell.
THEOREM SlabListExact == SlabSpec => []ListExact
<1>1. SlabInv => ListExact
  BY DEF SlabInv
<1> QED BY <1>1, SlabInvariant, PTL

\* The cell on top of a bucket's stack is nobody's.
LEMMA NextCellFacts ==
  ASSUME SlabInv, NEW b \in SmallBin, binHead[b] # <<>> \/ heapEnd < MaxPages
  PROVE  NextCell(b) \in Page \X Nat /\ NextCell(b) \notin live
<1> DEFINE P == TopPage(b)
           T == TopStack(b)
<1>1. P \in Page /\ PageInv(P, b, T, LiveCells(P)) /\ T \in Seq(Nat) /\ T # <<>>
  BY TopFacts
<1>2. Head(T) \in Range(T) /\ Head(T) \in Nat
  BY <1>1, PopProperties
<1>3. Head(T) \notin LiveCells(P)
  BY <1>1, <1>2 DEF PageInv
<1>4. <<P, Head(T)>> \notin live
  BY <1>1, <1>3 DEF LiveCells
<1> QED BY <1>1, <1>2, <1>4 DEF NextCell

\* klmalloc never returns a cell that somebody owns.
THEOREM SlabNextCellIsFree == SlabSpec => []NextCellIsFree
<1>1. SlabInv => NextCellIsFree
  BY NextCellFacts DEF NextCellIsFree
<1> QED BY <1>1, SlabInvariant, PTL

\* A bucket grows only when each of its pages is full.
THEOREM SlabGrowOnlyWhenFull == SlabSpec => GrowOnlyWhenFull
<1>1. SlabInv /\ [SlabNext]_slabVars => [GrowStep]_slabVars
  <2> SUFFICES ASSUME SlabInv, SlabNext, NEW b \in SmallBin, NEW p \in Page,
                      hdrSize[p] # b, hdrSize'[p] = b,
                      NEW q \in Page, hdrSize[q] = b
               PROVE  stack[q] = <<>>
    BY DEF GrowStep
  <2>1. SlabTypeOK /\ ListExact
    BY DEF SlabInv
  <2>2. CASE \E d \in SmallBin : MallocSmall(d)
    <3>1. PICK d \in SmallBin : MallocSmall(d)
      BY <2>2
    <3>2. binHead[d] = <<>> /\ hdrSize' = [hdrSize EXCEPT ![heapEnd] = d]
      BY <3>1 DEF MallocSmall, GrowBin
    <3>3. d = b
      BY <3>2, <2>1 DEF SlabTypeOK
    <3>4. Range(binHead[b]) = {}
      BY <3>2, <3>3 DEF Range
    <3> QED BY <3>4, <2>1 DEF ListExact
  <2>3. CASE \E ptr \in live : FreeSmall(ptr[1], ptr[2])
    BY <2>3 DEF FreeSmall
  <2>4. CASE \E n \in 1 .. MaxPages : GrowForBigBin(n)
    <3>1. PICK n \in 1 .. MaxPages : GrowForBigBin(n)
      BY <2>4
    <3>2. hdrSize' = [hdrSize EXCEPT ![heapEnd] = BigBinSize(n)]
      BY <3>1 DEF GrowForBigBin
    <3>3. b = BigBinSize(n)
      BY <3>2, <2>1 DEF SlabTypeOK
    <3> QED BY <3>3, BigBinSizeFacts
  <2> QED BY <2>2, <2>3, <2>4 DEF SlabNext
<1> QED BY <1>1, SlabInvariant, PTL DEF SlabSpec, GrowOnlyWhenFull
-----------------------------------------------------------------------------
(* The sizes, for every geometry and every size_t.                         *)

\* The sizes that the run steps through are those of a size_t, without 0.
SizeInv == request \in 1 .. WORD - 1

LEMMA SizeInvariant == SizeSpec => []SizeInv
<1>1. SizeInit => SizeInv
  BY GeometryAssumption DEF SizeInit, SizeInv
<1>2. SizeInv /\ [NextSize]_request => SizeInv'
  BY GeometryAssumption DEF NextSize, SizeInv
<1> QED BY <1>1, <1>2, PTL DEF SizeSpec

\* BinIsSmallestThatFits: klmalloc_bin_size counts leading zeros and corrects
\* for powers of two, and finds the bucket of the smallest cells that hold the
\* request.
THEOREM SizesSmallestThatFits == SizeSpec => []BinIsSmallestThatFits
<1>1. SizeInv => BinIsSmallestThatFits
  <2> SUFFICES ASSUME SizeInv PROVE BinIsSmallestThatFits
    OBVIOUS
  <2>1. /\ BinSize(request) \in 0 .. BIG_BIN
        /\ BinSize(request) < BIG_BIN => request <= CellSize(BinSize(request))
        /\ BinSize(request) > 0 => CellSize(BinSize(request) - 1) < request
    BY BinSizeFacts DEF SizeInv
  <2>2. BinSize(request) \in SmallBin => BinSize(request) < BIG_BIN
    BY ConstantFacts DEF SmallBin
  <2>3. BinSize(request) <= BIG_BIN
    BY <2>1, ConstantFacts
  <2> QED BY <2>1, <2>2, <2>3 DEF BinIsSmallestThatFits, Bin
<1> QED BY <1>1, SizeInvariant, PTL

\* CellsStayInPage: no cell reaches into a header or the next page, so masking
\* the low bits of an address in it gives the page.
THEOREM SizesCellsStayInPage == SizeSpec => []CellsStayInPage
<1>1. CellsStayInPage
  <2> SUFFICES ASSUME Bin \in SmallBin, NEW c \in 0 .. Cells(Bin) - 1
               PROVE  LET first == CellOffset(Bin, c)
                          last == first + CellSize(Bin) - 1
                      IN /\ first >= BIN_HDR
                         /\ PageOf(7 * PAGE_SIZE + first) = 7
                         /\ PageOf(7 * PAGE_SIZE + last) = 7
                         /\ c > 0 => CellOffset(Bin, c - 1) + CellSize(Bin) <= first
    BY DEF CellsStayInPage
  <2> DEFINE first == CellOffset(Bin, c)
             s == CellSize(Bin)
  <2>1. first \in Nat /\ first >= BIN_HDR /\ first + s <= PAGE_SIZE
    BY CellInPage
  <2>2. s \in Nat /\ s > 0 /\ Cells(Bin) \in Nat /\ PAGE_SIZE \in Nat /\ PAGE_SIZE > 0
    BY CellFacts, GeometryAssumption, ConstantFacts
  <2>3. ASSUME c > 0 PROVE CellOffset(Bin, c - 1) + s <= first
    <3>1. c - 1 \in Nat /\ c \in Nat /\ c - 1 < c
      BY <2>2, <2>3
    <3> QED BY <3>1, CellsApart
  <2> HIDE DEF first, s
  <2>4. \A x \in 0 .. PAGE_SIZE - 1 : PageOf(7 * PAGE_SIZE + x) = 7
    BY <2>2 DEF PageOf
  <2>5. first \in 0 .. PAGE_SIZE - 1 /\ first + s - 1 \in 0 .. PAGE_SIZE - 1
    BY <2>1, <2>2
  <2>6. /\ PageOf(7 * PAGE_SIZE + first) = 7
        /\ PageOf(7 * PAGE_SIZE + (first + s - 1)) = 7
    BY <2>4, <2>5
  <2> QED BY <2>1, <2>3, <2>6 DEF first, s
<1> QED BY <1>1, PTL

\* BigBinFits: unless the rounding wraps, the pages of a big bin hold the
\* request and the header, at most a page is wasted, and klfree will not take
\* the size word for a bucket number.
THEOREM SizesBigBinFits == SizeSpec => []BigBinFits
<1>1. SizeInv => BigBinFits
  <2> SUFFICES ASSUME SizeInv, Roundable
               PROVE  /\ GrowBytes(PagesFor(request)) >= request + BIG_HDR
                      /\ BigBinSize(PagesFor(request)) >= request
                      /\ BigBinSize(PagesFor(request)) - request <= PAGE_SIZE
                      /\ BigBinSize(PagesFor(request)) > NUM_BINS
    BY DEF BigBinFits
  <2> DEFINE n == PagesFor(request)
             m == n * PAGE_SIZE
  <2>1. /\ request \in Nat /\ PAGE_SIZE \in Nat /\ PAGE_SIZE > 0 /\ BIG_HDR \in Nat
        /\ WORD \in Nat /\ request + BIG_HDR < WORD - PAGE_SIZE
    BY GeometryAssumption DEF SizeInv, Roundable
  <2>2. /\ n \in Nat /\ n > 0 /\ m > request + BIG_HDR
        /\ m <= request + BIG_HDR + PAGE_SIZE
    BY <2>1, PagesForFits
  <2>3. m \in Nat /\ m >= PAGE_SIZE
    <3>1. (n - 1) * PAGE_SIZE >= 0
      BY <2>1, <2>2
    <3> QED BY <2>1, <2>2, <3>1
  <2> HIDE DEF m
  <2>4. m % WORD = m /\ (m - BIG_HDR) % WORD = m - BIG_HDR
    BY <2>1, <2>2, <2>3
  <2>5. GrowBytes(n) = m /\ BigBinSize(n) = m - BIG_HDR
    BY <2>4 DEF GrowBytes, BigBinSize, m
  <2>6. m - BIG_HDR > NUM_BINS
    BY <2>1, <2>3, BigSizeAssumption, ConstantFacts
  <2> HIDE DEF n
  <2> QED BY <2>1, <2>2, <2>3, <2>5, <2>6 DEF n
<1> QED BY <1>1, SizeInvariant, PTL
=============================================================================
