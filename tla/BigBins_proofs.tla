--------------------------- MODULE BigBins_proofs ---------------------------
(***************************************************************************)
(* Proofs about BigBins, for every page size, number of pages, number of   *)
(* levels and sequence of requests: the skip list is one, the search finds *)
(* the best fit, and the chain is in the order of addresses.               *)
(***************************************************************************)
EXTENDS BigBins, SlabBins_proofs, FiniteSetTheorems

(***************************************************************************)
(* The skip list as its invariant sees it.  There is an order of the free  *)
(* bins, given by their ranks from 1 on, in which no bin is followed by a  *)
(* smaller one.  Each level is a set of bins, within the one below, and    *)
(* every forward word leads to the next bin of its level in that order.    *)
(* The head has rank 0.                                                    *)
(***************************************************************************)
Behind(n, S, rank) == {q \in S : rank[n] < rank[q]}

IsNextOf(n, m, S, rank) ==
  IF Behind(n, S, rank) = {} THEN m = Nil
  ELSE m \in Behind(n, S, rank) /\ \A q \in Behind(n, S, rank) : rank[m] <= rank[q]

RankOK(rank) ==
  /\ rank \in [Node -> Nat]
  /\ rank[SkipHead] = 0
  /\ \A p \in avail : rank[p] \in 1 .. Cardinality(avail)
  /\ \A p, q \in avail : rank[p] = rank[q] => p = q
  /\ \A p, q \in avail : rank[p] < rank[q] => hdrSize[p] <= hdrSize[q]

LevelsOK(on) ==
  /\ on \in [Level -> SUBSET Page]
  /\ on[0] = avail
  /\ \A i, j \in Level : j <= i => on[i] \subseteq on[j]
  /\ \A i \in Level : i > level => on[i] = {}
  /\ level > 0 => on[level] # {}

Represents(rank, on) ==
  /\ RankOK(rank)
  /\ LevelsOK(on)
  /\ \A i \in Level : \A n \in on[i] \cup {SkipHead} : IsNextOf(n, fwd[n][i], on[i], rank)

SkipListInv ==
  \E rank \in [Node -> Nat], on \in [Level -> SUBSET Page] : Represents(rank, on)

\* Every bin belongs to the list or to one caller, and pages that sbrk has
\* not handed out belong to nobody.
OwnersInv ==
  /\ avail \cap bigLive = {}
  /\ avail \cup bigLive = BigPages
  /\ \A p \in Page : p >= heapEnd => hdrSize[p] = Untouched

BigInv == BigTypeOK /\ OwnersInv /\ SkipListInv
-----------------------------------------------------------------------------
LEMMA LevelFacts ==
  /\ 0 \in Level /\ Level \subseteq Nat /\ SKIP_MAX_LEVEL \in Nat
  /\ SkipHead \in Node /\ SkipHead \notin Page /\ Nil \notin Page /\ Junk \notin Page
  /\ Nil \notin Node /\ Page \subseteq Node /\ Node = Page \cup {SkipHead}
  /\ Page \subseteq Nat
BY BigRequestAssumption, MaxPagesAssumption DEF Level, Node, Page, SkipHead, Nil, Junk

\* There are no more free bins than pages, so no rank is above MaxPages.
LEMMA RanksBounded ==
  ASSUME avail \subseteq Page
  PROVE  IsFiniteSet(avail) /\ Cardinality(avail) \in 0 .. MaxPages
<1> USE MaxPagesAssumption
<1>1. IsFiniteSet(Page) /\ Cardinality(Page) = MaxPages
  BY FS_Interval DEF Page
<1>2. /\ IsFiniteSet(avail) /\ Cardinality(avail) <= Cardinality(Page)
      /\ Cardinality(avail) \in Nat
  BY <1>1, FS_Subset, FS_CardinalityType
<1> QED BY <1>1, <1>2

\* Where the bins smaller than a size end: the search stops there.
Cut(c, size, rank) == \A p \in avail : hdrSize[p] < size <=> rank[p] <= c

LEMMA CutExists ==
  ASSUME BigTypeOK, NEW rank, RankOK(rank), NEW size \in Int
  PROVE  \E c \in Nat : Cut(c, size, rank) /\ c <= Cardinality(avail)
<1> DEFINE T == {0} \cup {rank[p] : p \in {q \in avail : hdrSize[q] < size}}
<1>1. avail \subseteq Page /\ Cardinality(avail) \in Nat
  BY RanksBounded DEF BigTypeOK
<1>2. T \in SUBSET Nat /\ T # {} /\ \A n \in T : n <= Cardinality(avail)
  <2>1. \A p \in avail : rank[p] \in Nat /\ rank[p] <= Cardinality(avail)
    BY <1>1 DEF RankOK
  <2> QED BY <1>1, <2>1
<1>3. PICK c \in T : \A n \in T : n <= c
  <2>1. T \in SUBSET Int /\ Cardinality(avail) \in Int
    BY <1>1, <1>2
  <2> HIDE DEF T
  <2> QED BY <1>2, <2>1, GreatestNumber
<1>4. ASSUME NEW p \in avail, hdrSize[p] < size PROVE rank[p] <= c
  BY <1>3, <1>4
<1>5. ASSUME NEW p \in avail, rank[p] <= c PROVE hdrSize[p] < size
  <2>1. rank[p] \in Nat /\ rank[p] >= 1
    BY <1>1 DEF RankOK
  <2>2. c # 0
    BY <1>5, <2>1
  <2>3. PICK q \in avail : hdrSize[q] < size /\ rank[q] = c
    BY <1>3, <2>2
  <2>4. hdrSize[p] \in Int /\ hdrSize[q] \in Int
    BY <1>1 DEF BigTypeOK
  <2>5. CASE p = q
    BY <2>3, <2>5
  <2>6. CASE p # q
    <3>1. rank[p] < rank[q]
      BY <1>5, <2>1, <2>3, <2>6, <1>2 DEF RankOK
    <3> QED BY <2>3, <2>4, <3>1 DEF RankOK
  <2> QED BY <2>5, <2>6
<1>6. c \in Nat /\ c <= Cardinality(avail)
  BY <1>2
<1> QED BY <1>4, <1>5, <1>6 DEF Cut

-----------------------------------------------------------------------------
(* The search.                                                             *)

\* Where the search stands when it leaves a level: at the last node whose
\* rank is not above the cut.
LastBefore(n, S, c, rank) ==
  /\ n \in S \cup {SkipHead}
  /\ rank[n] <= c
  /\ \A q \in S : rank[n] < rank[q] => c < rank[q]

\* What a level's nodes and words are.
LEMMA LevelNodes ==
  ASSUME BigTypeOK, NEW rank, NEW on, Represents(rank, on), NEW i \in Level
  PROVE  /\ on[i] \subseteq avail /\ on[i] \subseteq Page
         /\ \A n \in on[i] \cup {SkipHead} :
              rank[n] \in 0 .. MaxPages /\ IsNextOf(n, fwd[n][i], on[i], rank)
         /\ \A p \in avail : rank[p] \in 1 .. MaxPages /\ hdrSize[p] \in Int
<1>1. avail \subseteq Page /\ Cardinality(avail) \in 0 .. MaxPages
  BY RanksBounded DEF BigTypeOK
<1>2. on[i] \subseteq avail
  BY LevelFacts DEF Represents, LevelsOK
<1>3. \A p \in avail : rank[p] \in 1 .. MaxPages
  BY <1>1, MaxPagesAssumption DEF Represents, RankOK
<1>4. rank[SkipHead] = 0 /\ MaxPages \in Nat
  BY MaxPagesAssumption DEF Represents, RankOK
<1>5. \A n \in on[i] \cup {SkipHead} : rank[n] \in 0 .. MaxPages
  BY <1>2, <1>3, <1>4
<1>6. \A p \in avail : hdrSize[p] \in Int
  BY <1>1 DEF BigTypeOK
<1> QED BY <1>1, <1>2, <1>3, <1>5, <1>6 DEF Represents

\* A turn of the search on a level either stays, and then at the last node
\* before the cut, or goes on to the next.
LEMMA TurnOfWalk ==
  ASSUME BigTypeOK, NEW rank, NEW on, Represents(rank, on), NEW i \in Level,
         NEW size \in Int, NEW c \in Nat, Cut(c, size, rank),
         NEW n \in on[i] \cup {SkipHead}, rank[n] <= c,
         NEW k \in Nat, LastBefore(n, on[i], c, rank) \/ rank[n] >= k - 1,
         NEW m, m = IF fwd[n][i] # Nil /\ hdrSize[fwd[n][i]] < size THEN fwd[n][i] ELSE n
  PROVE  /\ m \in on[i] \cup {SkipHead} /\ rank[m] <= c
         /\ LastBefore(m, on[i], c, rank) \/ rank[m] >= k
<1> DEFINE q == fwd[n][i]
<1>1. /\ on[i] \subseteq avail /\ on[i] \subseteq Page /\ IsNextOf(n, q, on[i], rank)
      /\ rank[n] \in Nat
      /\ \A p \in on[i] : rank[p] \in Nat
  BY LevelNodes
<1> HIDE DEF q
<1>2. CASE Behind(n, on[i], rank) = {}
  <2>1. m = n
    BY <1>1, <1>2 DEF IsNextOf, q
  <2>2. \A p \in on[i] : ~(rank[n] < rank[p])
    BY <1>2 DEF Behind
  <2> QED BY <2>1, <2>2 DEF LastBefore
<1>3. CASE Behind(n, on[i], rank) # {}
  <2>1. /\ q \in on[i] /\ rank[n] < rank[q]
        /\ \A p \in on[i] : rank[n] < rank[p] => rank[q] <= rank[p]
    BY <1>1, <1>3 DEF IsNextOf, Behind
  <2>2. q # Nil /\ (hdrSize[q] < size <=> rank[q] <= c)
    BY <1>1, <2>1, LevelFacts DEF Cut
  <2>3. CASE rank[q] <= c
    <3>1. m = q
      BY <2>2, <2>3 DEF q
    <3>2. ~LastBefore(n, on[i], c, rank)
      BY <1>1, <2>1, <2>3 DEF LastBefore
    <3> QED BY <1>1, <2>1, <2>3, <3>1, <3>2
  <2>4. CASE ~(rank[q] <= c)
    <3>1. m = n
      BY <2>2, <2>4 DEF q
    <3>2. \A p \in on[i] : rank[n] < rank[p] => c < rank[p]
      BY <1>1, <2>1, <2>4
    <3> QED BY <3>1, <3>2 DEF LastBefore
  <2> QED BY <2>3, <2>4
<1> QED BY <1>2, <1>3

\* The search on a level ends at the last node before the cut, from wherever
\* before the cut it starts.
LEMMA WalkStops ==
  ASSUME BigTypeOK, NEW rank, NEW on, Represents(rank, on), NEW i \in Level,
         NEW size \in Int, NEW c \in Nat, Cut(c, size, rank),
         NEW from \in on[i] \cup {SkipHead}, rank[from] <= c
  PROVE  LastBefore(Walk(i, from, size), on[i], c, rank)
<1> DEFINE Turn(n) == IF fwd[n][i] # Nil /\ hdrSize[fwd[n][i]] < size THEN fwd[n][i] ELSE n
           S == on[i] \cup {SkipHead}
           In(k) == {n \in S : rank[n] <= c /\ (LastBefore(n, on[i], c, rank) \/ rank[n] >= k)}
           in == [k \in 0 .. MaxPages |-> In(k)]
           step == [k \in 1 .. MaxPages |-> [n \in S |-> Turn(n)]]
           Loop(h) == h = [k \in 0 .. MaxPages |-> IF k = 0 THEN from ELSE Turn(h[k - 1])]
<1> USE MaxPagesAssumption
<1>1. rank[from] \in Nat
  BY LevelNodes
<1>2. from \in In(0)
  BY <1>1
<1>3. \A k \in 1 .. MaxPages : \A n \in In(k - 1) : Turn(n) \in In(k)
  <2> SUFFICES ASSUME NEW k \in 1 .. MaxPages, NEW n \in In(k - 1)
               PROVE  Turn(n) \in In(k)
    OBVIOUS
  <2>1. PICK m : m = Turn(n)
    OBVIOUS
  <2>2. /\ m \in on[i] \cup {SkipHead} /\ rank[m] <= c
        /\ LastBefore(m, on[i], c, rank) \/ rank[m] >= k
    BY <2>1, TurnOfWalk
  <2> QED BY <2>1, <2>2
<1> HIDE DEF In, Turn
<1>4. PICK f : IsLoop(f, MaxPages, from, step) /\ \A k \in 0 .. MaxPages : f[k] \in in[k]
  <2>1. from \in in[0]
    BY <1>2
  <2>2. \A k \in 1 .. MaxPages : \A n \in in[k - 1] : step[k][n] \in in[k]
    <3> SUFFICES ASSUME NEW k \in 1 .. MaxPages, NEW n \in in[k - 1]
                 PROVE  step[k][n] \in in[k]
      OBVIOUS
    <3>1. n \in In(k - 1) /\ in[k] = In(k)
      OBVIOUS
    <3>2. n \in S
      BY <3>1 DEF In
    <3> QED BY <3>1, <3>2, <1>3
  <2>3. MaxPages \in Nat
    OBVIOUS
  <2> HIDE DEF in, step
  <2> QED BY <2>1, <2>2, <2>3, LoopExists
<1>5. Loop(f)
  <2>1. \A k \in 1 .. MaxPages : step[k][f[k - 1]] = Turn(f[k - 1])
    <3> SUFFICES ASSUME NEW k \in 1 .. MaxPages PROVE step[k][f[k - 1]] = Turn(f[k - 1])
      OBVIOUS
    <3>1. f[k - 1] \in In(k - 1)
      <4>1. k - 1 \in 0 .. MaxPages
        OBVIOUS
      <4>2. f[k - 1] \in in[k - 1]
        BY <1>4, <4>1
      <4> QED BY <4>1, <4>2
    <3> QED BY <3>1 DEF In
  <2>2. \A k \in 0 .. MaxPages : f[k] = IF k = 0 THEN from ELSE Turn(f[k - 1])
    <3> HIDE DEF step, in
    <3> QED BY <1>4, <2>1 DEF IsLoop
  <2>3. f = [k \in 0 .. MaxPages |-> f[k]]
    <3> HIDE DEF step, in
    <3> QED BY <1>4 DEF IsLoop
  <2> QED BY <2>2, <2>3
<1> DEFINE at == CHOOSE h : Loop(h)
<1>6. Walk(i, from, size) = at[MaxPages]
  BY DEF Walk, Turn
<1>7. Loop(at)
  <2> HIDE DEF Loop
  <2> QED BY <1>5
<1>8. at[0] = from /\ \A k \in 1 .. MaxPages : at[k] = Turn(at[k - 1])
  <2> HIDE DEF at
  <2> QED BY <1>7
<1>9. \A k \in 0 .. MaxPages : at[k] \in In(k)
  <2> DEFINE T == {k \in 0 .. MaxPages : at[k] \in In(k)}
  <2> HIDE DEF at
  <2>1. 0 \in T
    BY <1>2, <1>8
  <2>2. \A k \in 1 .. MaxPages : k - 1 \in T => k \in T
    BY <1>3, <1>8
  <2>3. \A k \in 0 .. MaxPages : k \in T
    <3> HIDE DEF T
    <3> QED BY <2>1, <2>2, LoopInduction
  <2> QED BY <2>3
<1>10. at[MaxPages] \in In(MaxPages)
  BY <1>9
<1> HIDE DEF at
<1>11. \A q \in on[i] : rank[q] <= MaxPages
  BY LevelNodes
<1> QED BY <1>6, <1>10, <1>11, LevelNodes DEF In, LastBefore

\* From the top of the list down, the search starts on each level where it left
\* the one above, and leaves every level at the last node before the cut.
LEMMA UpdateStops ==
  ASSUME BigTypeOK, NEW rank, NEW on, Represents(rank, on),
         NEW size \in Int, NEW c \in Nat, Cut(c, size, rank)
  PROVE  \A i \in Level : LastBefore(Update(size)[i], on[i], c, rank)
<1> DEFINE From(k) == {n \in Node : LastBefore(n, on[level - k], c, rank)}
           in == [k \in 0 .. level |-> From(k)]
           step == [k \in 1 .. level |-> [n \in Node |-> Walk(level - k, n, size)]]
           top == Walk(level, SkipHead, size)
           Down(h) == h = [i \in Level |->
                             IF i > level THEN SkipHead
                             ELSE Walk(i, IF i = level THEN SkipHead ELSE h[i + 1], size)]
<1>1. /\ level \in Level /\ level \in Nat
      /\ \A k \in 0 .. level : level - k \in Level
      /\ \A i \in Level : i <= level => level - i \in 0 .. level
  BY BigRequestAssumption DEF BigTypeOK, Level
<1>2. rank[SkipHead] = 0 /\ \A i \in Level : SkipHead \in on[i] \cup {SkipHead}
  BY DEF Represents, RankOK
<1>3. \A i \in Level : \A n : LastBefore(n, on[i], c, rank) => n \in Node
  BY LevelFacts, LevelNodes DEF LastBefore
\* The start.
<1>4. LastBefore(top, on[level], c, rank)
  BY <1>1, <1>2, WalkStops
\* One level down.
<1>5. \A i \in Level, n \in Node :
        i + 1 \in Level /\ LastBefore(n, on[i + 1], c, rank)
          => LastBefore(Walk(i, n, size), on[i], c, rank)
  <2> SUFFICES ASSUME NEW i \in Level, NEW n \in Node, i + 1 \in Level,
                      LastBefore(n, on[i + 1], c, rank)
               PROVE  LastBefore(Walk(i, n, size), on[i], c, rank)
    OBVIOUS
  <2>1. on[i + 1] \subseteq on[i]
    BY LevelFacts DEF Represents, LevelsOK
  <2>2. n \in on[i] \cup {SkipHead} /\ rank[n] <= c
    BY <2>1 DEF LastBefore
  <2> QED BY <2>2, WalkStops
<1> HIDE DEF top
<1>6. PICK f : IsLoop(f, level, top, step) /\ \A k \in 0 .. level : f[k] \in in[k]
  <2>1. top \in in[0]
    BY <1>1, <1>3, <1>4
  <2>2. \A k \in 1 .. level : \A n \in in[k - 1] : step[k][n] \in in[k]
    <3> SUFFICES ASSUME NEW k \in 1 .. level, NEW n \in in[k - 1]
                 PROVE  step[k][n] \in in[k]
      OBVIOUS
    <3>1. /\ k \in 0 .. level /\ k - 1 \in 0 .. level /\ level - k \in Level
          /\ level - (k - 1) \in Level /\ level - (k - 1) = (level - k) + 1
      <4>1. k \in 0 .. level /\ k - 1 \in 0 .. level /\ level - (k - 1) = (level - k) + 1
        BY <1>1
      <4> QED BY <1>1, <4>1
    <3>2. n \in Node /\ LastBefore(n, on[(level - k) + 1], c, rank)
      BY <3>1
    <3>3. LastBefore(Walk(level - k, n, size), on[level - k], c, rank)
      BY <1>5, <3>1, <3>2
    <3>4. Walk(level - k, n, size) \in From(k)
      BY <1>3, <3>1, <3>3
    <3> QED BY <3>1, <3>2, <3>4
  <2> HIDE DEF in, step
  <2> QED BY <1>1, <2>1, <2>2, LoopExists
<1>7. /\ f[0] = top
      /\ \A k \in 1 .. level : f[k] = Walk(level - k, f[k - 1], size)
  <2>1. \A k \in 1 .. level : f[k - 1] \in Node
    <3> SUFFICES ASSUME NEW k \in 1 .. level PROVE f[k - 1] \in Node
      OBVIOUS
    <3>1. k - 1 \in 0 .. level
      BY <1>1
    <3>2. f[k - 1] \in in[k - 1]
      BY <1>6, <3>1
    <3> QED BY <3>1, <3>2
  <2>2. \A k \in 1 .. level : step[k][f[k - 1]] = Walk(level - k, f[k - 1], size)
    BY <2>1
  <2> HIDE DEF step, in
  <2>3. f[0] = top /\ \A k \in 1 .. level : f[k] = step[k][f[k - 1]]
    BY <1>1, <1>6 DEF IsLoop
  <2> QED BY <2>2, <2>3
<1> DEFINE g == [i \in Level |-> IF i > level THEN SkipHead ELSE f[level - i]]
<1>8. \A i \in Level :
        g[i] = IF i > level THEN SkipHead
               ELSE Walk(i, IF i = level THEN SkipHead ELSE g[i + 1], size)
  <2> SUFFICES ASSUME NEW i \in Level, i <= level
               PROVE  g[i] = Walk(i, IF i = level THEN SkipHead ELSE g[i + 1], size)
    BY <1>1, LevelFacts
  <2>1. CASE i = level
    BY <1>1, <1>7, <2>1 DEF top
  <2>2. CASE i # level
    <3>1. /\ level - i \in 1 .. level /\ i + 1 \in Level /\ ~(i + 1 > level)
          /\ level - (level - i) = i /\ (level - i) - 1 = level - (i + 1)
      BY <1>1, <2>2, LevelFacts, BigRequestAssumption DEF Level
    <3>2. f[level - i] = Walk(i, f[level - (i + 1)], size)
      BY <1>7, <3>1
    <3> QED BY <1>1, <2>2, <3>1, <3>2, LevelFacts
  <2> QED BY <2>1, <2>2
<1>9. Down(g)
  <2>1. g = [i \in Level |-> g[i]]
    OBVIOUS
  <2> HIDE DEF g
  <2> QED BY <1>8, <2>1
<1> DEFINE u == CHOOSE h : Down(h)
<1>10. Update(size) = u
  BY DEF Update
<1>11. Down(u)
  <2> HIDE DEF Down, g
  <2> QED BY <1>9
<1>12. \A i \in Level :
         u[i] = IF i > level THEN SkipHead
                ELSE Walk(i, IF i = level THEN SkipHead ELSE u[i + 1], size)
  <2> HIDE DEF u
  <2> QED BY <1>11
<1> HIDE DEF u
<1>13. \A k \in 0 .. level : u[level - k] \in From(k)
  <2> DEFINE T == {k \in 0 .. level : u[level - k] \in From(k)}
  <2>1. 0 \in T
    BY <1>1, <1>3, <1>4, <1>12, LevelFacts DEF top
  <2>2. ASSUME NEW k \in 1 .. level, k - 1 \in T PROVE k \in T
    <3>1. /\ k \in 0 .. level /\ level - k \in Level /\ (level - k) + 1 \in Level
          /\ level - (k - 1) = (level - k) + 1 /\ level - k # level /\ ~(level - k > level)
      BY <1>1
    <3>2. u[(level - k) + 1] \in Node /\ LastBefore(u[(level - k) + 1], on[(level - k) + 1], c, rank)
      BY <2>2, <3>1
    <3>3. u[level - k] = Walk(level - k, u[(level - k) + 1], size)
      BY <1>12, <3>1
    <3>4. LastBefore(u[level - k], on[level - k], c, rank)
      BY <1>5, <3>1, <3>2, <3>3
    <3> QED BY <1>3, <3>1, <3>4
  <2>3. \A k \in 0 .. level : k \in T
    <3> HIDE DEF T
    <3> QED BY <1>1, <2>1, <2>2, LoopInduction
  <2> QED BY <2>3
<1>14. ASSUME NEW i \in Level PROVE LastBefore(u[i], on[i], c, rank)
  <2>1. CASE i > level
    <3>1. u[i] = SkipHead /\ on[i] = {}
      BY <1>12, <2>1 DEF Represents, LevelsOK
    <3> QED BY <1>2, <3>1 DEF LastBefore
  <2>2. CASE ~(i > level)
    <3>1. level - i \in 0 .. level /\ level - (level - i) = i
      BY <1>1, <2>2, LevelFacts
    <3>2. u[level - (level - i)] \in From(level - i)
      BY <1>13, <3>1
    <3> QED BY <3>1, <3>2
  <2> QED BY <2>1, <2>2
<1> QED BY <1>10, <1>14

\* The bins that are large enough, and the first of them in the list's order.
Enough(size) == {q \in avail : hdrSize[q] >= size}

IsFirstFit(p, size, rank) == p \in Enough(size) /\ \A q \in Enough(size) : rank[p] <= rank[q]

\* The search returns the first bin that is large enough, or Nil if none is.
LEMMA FindBestIsFirstFit ==
  ASSUME BigTypeOK, NEW rank, NEW on, Represents(rank, on), NEW size \in Int
  PROVE  IF Enough(size) = {} THEN FindBest(size) = Nil
         ELSE IsFirstFit(FindBest(size), size, rank)
<1>1. PICK c \in Nat : Cut(c, size, rank)
  BY CutExists DEF Represents
<1> DEFINE n == Update(size)[0]
           p == FindBest(size)
<1>2. LastBefore(n, avail, c, rank)
  BY <1>1, UpdateStops, LevelFacts DEF Represents, LevelsOK
<1>3. IsNextOf(n, p, avail, rank)
  BY <1>2, LevelNodes, LevelFacts DEF FindBest, LastBefore, Represents, LevelsOK
<1>4. rank[n] \in Nat /\ \A q \in avail : rank[q] \in Nat /\ hdrSize[q] \in Int
  <2>1. 0 \in Level /\ on[0] = avail /\ n \in on[0] \cup {SkipHead}
    BY <1>2, LevelFacts DEF LastBefore, Represents, LevelsOK
  <2> HIDE DEF n
  <2> QED BY <2>1, LevelNodes
<1> HIDE DEF n, p
<1>5. \A q \in avail : q \in Enough(size) <=> rank[n] < rank[q]
  BY <1>1, <1>2, <1>4 DEF Cut, LastBefore, Enough
<1>6. Behind(n, avail, rank) = Enough(size)
  BY <1>5 DEF Behind, Enough
<1> QED BY <1>3, <1>6 DEF IsNextOf, IsFirstFit, p

\* Nothing but the first bin of its size is in front of the place that the
\* search for that size finds.
LEMMA FirstFitCut ==
  ASSUME BigTypeOK, NEW rank, NEW on, Represents(rank, on), NEW size \in Int,
         NEW p, IsFirstFit(p, size, rank)
  PROVE  rank[p] - 1 \in Nat /\ Cut(rank[p] - 1, hdrSize[p], rank)
<1>1. \A q \in avail : rank[q] \in Nat /\ rank[q] >= 1 /\ hdrSize[q] \in Int
  BY LevelNodes, LevelFacts
<1>2. p \in avail /\ hdrSize[p] >= size
  BY DEF IsFirstFit, Enough
<1>3. ASSUME NEW q \in avail
      PROVE  hdrSize[q] < hdrSize[p] <=> rank[q] <= rank[p] - 1
  <2>1. CASE rank[q] < rank[p]
    <3>1. ~(hdrSize[q] >= size)
      BY <1>1, <1>2, <2>1 DEF IsFirstFit, Enough
    <3> QED BY <1>1, <1>2, <2>1, <3>1
  <2>2. CASE rank[p] < rank[q]
    <3>1. hdrSize[p] <= hdrSize[q]
      BY <1>2, <2>2 DEF Represents, RankOK
    <3> QED BY <1>1, <1>2, <2>2, <3>1
  <2>3. CASE rank[p] = rank[q]
    <3>1. p = q
      BY <1>2, <2>3 DEF Represents, RankOK
    <3> QED BY <1>1, <1>2, <3>1
  <2> QED BY <1>1, <1>2, <2>1, <2>2, <2>3
<1> QED BY <1>1, <1>2, <1>3 DEF Cut

\* At every level that names it, the search for a first fit's size stops right
\* in front of it, and at the others it finds something else.
LEMMA SearchFindsFirstFit ==
  ASSUME BigTypeOK, NEW rank, NEW on, Represents(rank, on), NEW size \in Int,
         NEW p, IsFirstFit(p, size, rank), NEW i \in Level
  PROVE  LET n == Update(hdrSize[p])[i]
         IN /\ n \in on[i] \cup {SkipHead} /\ rank[n] < rank[p]
            /\ \A q \in on[i] : rank[n] < rank[q] => rank[p] <= rank[q]
            /\ p \in on[i] <=> fwd[n][i] = p
<1> DEFINE n == Update(hdrSize[p])[i]
<1>1. rank[p] - 1 \in Nat /\ Cut(rank[p] - 1, hdrSize[p], rank)
  BY FirstFitCut
<1>2. p \in avail /\ p \in Page /\ hdrSize[p] \in Int /\ rank[p] \in Nat
  BY LevelNodes, LevelFacts DEF IsFirstFit, Enough, BigTypeOK
<1>3. LastBefore(n, on[i], rank[p] - 1, rank)
  BY <1>1, <1>2, UpdateStops
<1>4. on[i] \subseteq avail /\ IsNextOf(n, fwd[n][i], on[i], rank) /\ rank[n] \in Nat
      /\ \A q \in on[i] : rank[q] \in Nat
  BY <1>3, LevelNodes DEF LastBefore
<1> HIDE DEF n
<1>5. /\ n \in on[i] \cup {SkipHead} /\ rank[n] < rank[p]
      /\ \A q \in on[i] : rank[n] < rank[q] => rank[p] <= rank[q]
  BY <1>2, <1>3, <1>4 DEF LastBefore
<1>6. ASSUME p \in on[i] PROVE fwd[n][i] = p
  <2>1. p \in Behind(n, on[i], rank)
    BY <1>5, <1>6 DEF Behind
  <2>2. /\ fwd[n][i] \in on[i] /\ rank[n] < rank[fwd[n][i]]
        /\ rank[fwd[n][i]] <= rank[p]
    BY <1>4, <2>1 DEF IsNextOf, Behind
  <2>3. rank[fwd[n][i]] = rank[p]
    BY <1>2, <1>4, <1>5, <2>2
  <2> QED BY <1>2, <1>4, <2>2, <2>3 DEF Represents, RankOK
<1>7. ASSUME fwd[n][i] = p PROVE p \in on[i]
  BY <1>2, <1>4, <1>7, LevelFacts DEF IsNextOf, Behind
<1> QED BY <1>5, <1>6, <1>7 DEF n
-----------------------------------------------------------------------------
(* Deletion.                                                               *)

\* The rank that is left when a bin is gone.
RankWithout(p, rank) == [n \in Node |-> IF rank[n] > rank[p] THEN rank[n] - 1 ELSE rank[n]]

LEMMA RankWithoutOrder ==
  ASSUME BigTypeOK, NEW rank, NEW on, Represents(rank, on), NEW p \in avail,
         NEW n \in (avail \ {p}) \cup {SkipHead}, NEW q \in (avail \ {p}) \cup {SkipHead}
  PROVE  /\ RankWithout(p, rank)[n] < RankWithout(p, rank)[q] <=> rank[n] < rank[q]
         /\ RankWithout(p, rank)[n] <= RankWithout(p, rank)[q] <=> rank[n] <= rank[q]
         /\ RankWithout(p, rank)[n] = RankWithout(p, rank)[q] <=> rank[n] = rank[q]
<1>1. avail \subseteq Page /\ \A x \in avail : rank[x] \in Nat /\ rank[x] >= 1
  BY LevelNodes, LevelFacts DEF BigTypeOK
<1>2. rank[SkipHead] = 0 /\ \A x, y \in avail : rank[x] = rank[y] => x = y
  BY DEF Represents, RankOK
<1>3. \A x \in (avail \ {p}) \cup {SkipHead} :
        x \in Node /\ rank[x] \in Nat /\ rank[x] # rank[p]
  BY <1>1, <1>2, LevelFacts
<1>4. \A x \in (avail \ {p}) \cup {SkipHead} :
        RankWithout(p, rank)[x] = IF rank[x] > rank[p] THEN rank[x] - 1 ELSE rank[x]
  BY <1>3 DEF RankWithout
<1> QED BY <1>1, <1>3, <1>4

\* What klmalloc_skip_list_delete does to the words, the list being one.
LEMMA SkipDeleteWords ==
  ASSUME BigTypeOK, NEW rank, NEW on, Represents(rank, on), NEW size \in Int,
         NEW p, IsFirstFit(p, size, rank), SkipDelete(p)
  PROVE  /\ fwd' \in [Node -> [Level -> Page \cup {Nil, Junk}]]
         /\ \A n \in Node, i \in Level :
              fwd'[n][i] = IF p \in on[i] /\ n = Update(hdrSize[p])[i] THEN fwd[p][i]
                           ELSE IF n = p THEN Junk ELSE fwd[n][i]
         /\ LET used == {0} \cup {i \in 0 .. level : fwd'[SkipHead][i] # Nil}
            IN level' \in used /\ \A j \in used : j <= level'
<1> DEFINE u == Update(hdrSize[p])
           linked == {i \in 0 .. level : \A j \in 0 .. i : fwd[u[j]][j] = p}
           used == {0} \cup {i \in 0 .. level : fwd'[SkipHead][i] # Nil}
<1>1. level \in Level /\ level \in Nat /\ 0 .. level \subseteq Level
  BY BigRequestAssumption DEF BigTypeOK, Level
<1>2. fwd' = [n \in Node |-> [i \in Level |->
                IF i \in linked /\ n = u[i] THEN fwd[p][i]
                ELSE IF n = p THEN Junk ELSE fwd[n][i]]]
  BY DEF SkipDelete
<1>3. \A i \in Level : p \in on[i] <=> fwd[u[i]][i] = p
  BY SearchFindsFirstFit
<1> HIDE DEF u
<1>4. \A i \in Level : i \in linked <=> p \in on[i]
  <2> SUFFICES ASSUME NEW i \in Level PROVE i \in linked <=> p \in on[i]
    OBVIOUS
  <2>1. ASSUME p \in on[i] PROVE i \in linked
    <3>1. i \in 0 .. level
      BY <1>1, <2>1, LevelFacts DEF Represents, LevelsOK
    <3>2. \A j \in 0 .. i : j \in Level /\ j <= i
      BY <1>1, <3>1
    <3>3. \A j \in 0 .. i : p \in on[j]
      BY <2>1, <3>2 DEF Represents, LevelsOK
    <3> QED BY <1>3, <3>1, <3>2, <3>3
  <2>2. ASSUME i \in linked PROVE p \in on[i]
    <3>1. i \in 0 .. i
      BY LevelFacts
    <3> QED BY <1>3, <2>2, <3>1
  <2> QED BY <2>1, <2>2
<1> HIDE DEF linked
<1>5. p \in Node
  BY LevelFacts DEF IsFirstFit, Enough, BigTypeOK
<1>6. \A n \in Node, i \in Level :
        fwd'[n][i] = IF p \in on[i] /\ n = u[i] THEN fwd[p][i]
                     ELSE IF n = p THEN Junk ELSE fwd[n][i]
  BY <1>2, <1>4
<1>7. fwd' \in [Node -> [Level -> Page \cup {Nil, Junk}]]
  <2>1. \A n \in Node, i \in Level : fwd[n][i] \in Page \cup {Nil, Junk}
    BY DEF BigTypeOK
  <2> QED BY <1>2, <1>5, <2>1
<1>8. level' \in used /\ \A j \in used : j <= level'
  <2>1. level' = CHOOSE i \in used : \A j \in used : j <= i
    BY DEF SkipDelete
  <2>2. used \in SUBSET Int /\ used # {} /\ \A i \in used : i <= level
    BY <1>1
  <2> HIDE DEF used
  <2>3. \E i \in used : \A j \in used : j <= i
    BY <1>1, <2>2, GreatestNumber
  <2> QED BY <2>1, <2>3
<1> QED BY <1>6, <1>7, <1>8 DEF u

\* In every level the word in front of the bin is led past it, and the others
\* stay right.
LEMMA SkipDeleteLinks ==
  ASSUME BigTypeOK, NEW rank, NEW on, Represents(rank, on), NEW size \in Int,
         NEW p, IsFirstFit(p, size, rank), SkipDelete(p),
         NEW i \in Level, NEW n \in (on[i] \ {p}) \cup {SkipHead}
  PROVE  IsNextOf(n, fwd'[n][i], on[i] \ {p}, RankWithout(p, rank))
<1> DEFINE u == Update(hdrSize[p])[i]
           rk == RankWithout(p, rank)
           m == fwd[n][i]
<1>1. p \in avail /\ p # SkipHead
  BY LevelFacts DEF IsFirstFit, Enough, BigTypeOK
<1>2. /\ on[i] \subseteq avail /\ on[i] \subseteq Page /\ IsNextOf(n, m, on[i], rank)
      /\ rank[n] \in Nat
      /\ \A q \in avail : rank[q] \in Nat
  BY LevelNodes
<1>3. n \in Node /\ n # p
  BY <1>1, <1>2, LevelFacts
<1>4. fwd'[n][i] = IF p \in on[i] /\ n = u THEN fwd[p][i] ELSE m
  BY <1>3, SkipDeleteWords
<1>5. \A q \in on[i] \ {p} : rk[n] < rk[q] <=> rank[n] < rank[q]
  BY <1>1, <1>2, <1>3, RankWithoutOrder
<1>6. \A q, r \in on[i] \ {p} : rk[q] <= rk[r] <=> rank[q] <= rank[r]
  BY <1>1, <1>2, RankWithoutOrder
<1>7. /\ u \in on[i] \cup {SkipHead} /\ rank[u] < rank[p]
      /\ \A q \in on[i] : rank[u] < rank[q] => rank[p] <= rank[q]
      /\ p \in on[i] <=> fwd[u][i] = p
  BY SearchFindsFirstFit
<1> HIDE DEF u, rk
<1>8. Behind(n, on[i] \ {p}, rk) = Behind(n, on[i], rank) \ {p}
  BY <1>5 DEF Behind
<1>9. CASE p \in on[i] /\ n = u
  <2>1. IsNextOf(p, fwd[p][i], on[i], rank)
    BY <1>9, LevelNodes
  <2>2. \A q \in on[i] : q # p => (rank[n] < rank[q] <=> rank[p] < rank[q])
    <3>1. \A q \in avail : q # p => rank[q] # rank[p]
      BY <1>1 DEF Represents, RankOK
    <3> QED BY <1>1, <1>2, <1>7, <1>9, <3>1
  <2>3. Behind(p, on[i], rank) = Behind(n, on[i], rank) \ {p}
    BY <1>1, <1>2, <2>2 DEF Behind
  <2>4. Behind(p, on[i], rank) \subseteq on[i] \ {p}
    BY <1>1, <1>2 DEF Behind
  <2>5. fwd'[n][i] = fwd[p][i]
    BY <1>4, <1>9
  <2> QED BY <1>6, <1>8, <2>1, <2>3, <2>4, <2>5 DEF IsNextOf, rk
<1>10. CASE ~(p \in on[i] /\ n = u)
  <2>1. fwd'[n][i] = m
    BY <1>4, <1>10
  <2>2. ASSUME p \in on[i], Behind(n, on[i], rank) # {} PROVE m # p
    <3> SUFFICES ASSUME m = p PROVE FALSE
      OBVIOUS
    <3>1. rank[n] < rank[p] /\ \A q \in Behind(n, on[i], rank) : rank[p] <= rank[q]
      BY <1>2, <2>2 DEF IsNextOf, Behind
    <3>2. u # n /\ u \in on[i] \cup {SkipHead} /\ n \in on[i] \cup {SkipHead}
      BY <1>7, <1>10, <2>2
    <3>3. rank[SkipHead] = 0 /\ \A q \in avail : rank[q] >= 1
      BY LevelNodes, LevelFacts DEF Represents, RankOK
    <3>4. rank[u] \in Nat /\ rank[u] # rank[n]
      <4>1. \A q, r \in avail : rank[q] = rank[r] => q = r
        BY DEF Represents, RankOK
      <4> QED BY <1>2, <3>2, <3>3, <4>1
    <3>5. CASE rank[u] < rank[n]
      <4>1. n \in on[i]
        BY <1>2, <3>2, <3>3, <3>4, <3>5
      <4> QED BY <1>1, <1>2, <1>7, <3>1, <3>5, <4>1
    <3>6. CASE rank[n] < rank[u]
      <4>1. u \in Behind(n, on[i], rank)
        BY <1>2, <3>2, <3>3, <3>6 DEF Behind
      <4> QED BY <1>1, <1>2, <1>7, <3>1, <3>4, <4>1
    <3> QED BY <1>2, <3>4, <3>5, <3>6
  <2>3. CASE Behind(n, on[i], rank) = {}
    BY <1>2, <1>8, <2>1, <2>3 DEF IsNextOf, rk
  <2>4. CASE Behind(n, on[i], rank) # {}
    <3>1. m \in Behind(n, on[i], rank) /\ \A q \in Behind(n, on[i], rank) : rank[m] <= rank[q]
      BY <1>2, <2>4 DEF IsNextOf
    <3>2. m # p
      BY <2>2, <2>4, <3>1 DEF Behind
    <3>3. m \in Behind(n, on[i] \ {p}, rk) /\ m \in on[i] \ {p}
      BY <1>8, <3>1, <3>2 DEF Behind
    <3>4. \A q \in Behind(n, on[i] \ {p}, rk) : q \in on[i] \ {p} /\ rank[m] <= rank[q]
      BY <1>8, <3>1 DEF Behind
    <3>5. \A q \in Behind(n, on[i] \ {p}, rk) : rk[m] <= rk[q]
      BY <1>6, <3>3, <3>4
    <3> QED BY <2>1, <3>3, <3>5 DEF IsNextOf, rk
  <2> QED BY <2>3, <2>4
<1> QED BY <1>9, <1>10

\* So the list is one again, of the other bins, and as high as its highest node.
LEMMA SkipDeleteKeepsList ==
  ASSUME BigTypeOK, NEW rank, NEW on, Represents(rank, on), NEW size \in Int,
         NEW p, IsFirstFit(p, size, rank), SkipDelete(p),
         avail' = avail \ {p}, hdrSize' = hdrSize
  PROVE  SkipListInv' /\ level' \in Level
<1> DEFINE rk == RankWithout(p, rank)
           lv == [i \in Level |-> on[i] \ {p}]
<1>1. p \in avail /\ avail \subseteq Page /\ IsFiniteSet(avail) /\ Cardinality(avail) \in Nat
  BY RanksBounded DEF IsFirstFit, Enough, BigTypeOK
<1>2. Cardinality(avail') = Cardinality(avail) - 1
  BY <1>1, FS_RemoveElement
<1>3. /\ rank \in [Node -> Nat] /\ rank[SkipHead] = 0
      /\ \A q \in avail : rank[q] \in 1 .. Cardinality(avail)
      /\ \A q, r \in avail : rank[q] = rank[r] => q = r
      /\ \A q, r \in avail : rank[q] < rank[r] => hdrSize[q] <= hdrSize[r]
  BY DEF Represents, RankOK
<1>4. /\ on \in [Level -> SUBSET Page] /\ on[0] = avail
      /\ \A i, j \in Level : j <= i => on[i] \subseteq on[j]
      /\ \A i \in Level : i > level => on[i] = {}
  BY DEF Represents, LevelsOK
<1>5. \A n \in Node : rk[n] = IF rank[n] > rank[p] THEN rank[n] - 1 ELSE rank[n]
  BY DEF RankWithout
<1>6. rk \in [Node -> Nat]
  BY <1>1, <1>3 DEF RankWithout
<1>7. RankOK(rk)'
  <2>1. rk[SkipHead] = 0
    BY <1>1, <1>3, <1>5, LevelFacts
  <2>2. \A q \in avail' : rk[q] \in 1 .. Cardinality(avail')
    <3> SUFFICES ASSUME NEW q \in avail' PROVE rk[q] \in 1 .. Cardinality(avail')
      OBVIOUS
    <3>1. q \in avail /\ q \in Node /\ rank[q] # rank[p]
      BY <1>1, <1>3, LevelFacts
    <3>2. /\ rank[q] \in 1 .. Cardinality(avail) /\ rank[p] \in 1 .. Cardinality(avail)
      BY <1>1, <1>3, <3>1
    <3> QED BY <1>1, <1>2, <1>5, <3>1, <3>2
  <2>3. \A q, r \in avail' : /\ rk[q] = rk[r] => q = r
                             /\ rk[q] < rk[r] => hdrSize'[q] <= hdrSize'[r]
    <3> SUFFICES ASSUME NEW q \in avail', NEW r \in avail'
                 PROVE  /\ rk[q] = rk[r] => q = r
                        /\ rk[q] < rk[r] => hdrSize'[q] <= hdrSize'[r]
      OBVIOUS
    <3>1. q \in avail \ {p} /\ r \in avail \ {p}
      OBVIOUS
    <3>2. (rk[q] = rk[r] <=> rank[q] = rank[r]) /\ (rk[q] < rk[r] <=> rank[q] < rank[r])
      BY <1>1, <3>1, RankWithoutOrder
    <3> HIDE DEF rk
    <3> QED BY <1>3, <3>1, <3>2
  <2> HIDE DEF rk
  <2> QED BY <1>6, <2>1, <2>2, <2>3 DEF RankOK
<1>8. \A i \in Level : \A n \in lv[i] \cup {SkipHead} : IsNextOf(n, fwd'[n][i], lv[i], rk)
  BY SkipDeleteLinks
<1>9. \A q \in avail' : rk[q] >= 1 /\ rk[q] \in Nat /\ rk[SkipHead] = 0
  <2>1. Cardinality(avail') \in Int
    BY <1>1, <1>2
  <2> HIDE DEF rk
  <2> QED BY <1>7, <2>1 DEF RankOK
<1> HIDE DEF rk
\* The head's word tells which levels are empty.
<1>10. \A i \in Level : lv[i] = {} <=> fwd'[SkipHead][i] = Nil
  <2> SUFFICES ASSUME NEW i \in Level PROVE lv[i] = {} <=> fwd'[SkipHead][i] = Nil
    OBVIOUS
  <2>1. lv[i] \subseteq avail' /\ lv[i] \subseteq Page
    BY <1>1, <1>4, LevelFacts
  <2>2. Behind(SkipHead, lv[i], rk) = lv[i]
    BY <1>9, <2>1 DEF Behind
  <2>3. IsNextOf(SkipHead, fwd'[SkipHead][i], lv[i], rk)
    BY <1>8
  <2> HIDE DEF lv
  <2> QED BY <2>1, <2>2, <2>3, LevelFacts DEF IsNextOf
<1>11. /\ level' \in {0} \cup {i \in 0 .. level : fwd'[SkipHead][i] # Nil}
       /\ \A j \in {0} \cup {i \in 0 .. level : fwd'[SkipHead][i] # Nil} : j <= level'
  BY SkipDeleteWords
<1>12. level \in Level /\ level \in Nat /\ 0 .. level \subseteq Level
  BY BigRequestAssumption DEF BigTypeOK, Level
<1>13. level' \in Level
  BY <1>11, <1>12, LevelFacts
<1>14. LevelsOK(lv)'
  <2>1. lv \in [Level -> SUBSET Page] /\ lv[0] = avail'
        /\ \A i, j \in Level : j <= i => lv[i] \subseteq lv[j]
    BY <1>4, LevelFacts
  <2>2. ASSUME NEW i \in Level, i > level' PROVE lv[i] = {}
    <3>1. CASE i > level
      BY <1>4, <3>1
    <3>2. CASE ~(i > level)
      <4>1. i \in 0 .. level /\ ~(i <= level')
        BY <1>12, <1>13, <2>2, <3>2, LevelFacts
      <4>2. fwd'[SkipHead][i] = Nil
        BY <1>11, <4>1
      <4> QED BY <1>10, <4>2
    <3> QED BY <3>1, <3>2
  <2>3. level' > 0 => lv[level'] # {}
    BY <1>10, <1>11, <1>13
  <2> HIDE DEF lv
  <2> QED BY <2>1, <2>2, <2>3 DEF LevelsOK
<1>15. Represents(rk, lv)'
  <2> HIDE DEF lv
  <2> QED BY <1>7, <1>8, <1>14 DEF Represents
<1>16. lv \in [Level -> SUBSET Page]
  BY <1>4
<1> HIDE DEF lv
<1> QED BY <1>6, <1>13, <1>15, <1>16 DEF SkipListInv
-----------------------------------------------------------------------------
(* Insertion.                                                              *)

\* The rank when a bin is put in behind those up to the cut.
RankWith(p, c, rank) ==
  [n \in Node |-> IF n = p THEN c + 1 ELSE IF rank[n] > c THEN rank[n] + 1 ELSE rank[n]]

LEMMA RankWithOrder ==
  ASSUME BigTypeOK, NEW rank, NEW on, Represents(rank, on),
         NEW p \in Page \ avail, NEW c \in Nat,
         NEW n \in avail \cup {SkipHead}, NEW q \in avail \cup {SkipHead}
  PROVE  /\ RankWith(p, c, rank)[n] < RankWith(p, c, rank)[q] <=> rank[n] < rank[q]
         /\ RankWith(p, c, rank)[n] <= RankWith(p, c, rank)[q] <=> rank[n] <= rank[q]
         /\ RankWith(p, c, rank)[n] = RankWith(p, c, rank)[q] <=> rank[n] = rank[q]
         /\ RankWith(p, c, rank)[n] < RankWith(p, c, rank)[p] <=> rank[n] <= c
         /\ RankWith(p, c, rank)[p] <= RankWith(p, c, rank)[n] <=> c < rank[n]
         /\ RankWith(p, c, rank)[p] < RankWith(p, c, rank)[n] <=> c < rank[n]
         /\ RankWith(p, c, rank)[p] # RankWith(p, c, rank)[n]
<1>1. avail \subseteq Page /\ \A x \in avail : rank[x] \in Nat /\ rank[x] >= 1
  BY LevelNodes, LevelFacts DEF BigTypeOK
<1>2. rank[SkipHead] = 0
  BY DEF Represents, RankOK
<1>3. \A x \in avail \cup {SkipHead} : x \in Node /\ rank[x] \in Nat /\ x # p
  BY <1>1, <1>2, LevelFacts
<1>4. \A x \in avail \cup {SkipHead} :
        RankWith(p, c, rank)[x] = IF rank[x] > c THEN rank[x] + 1 ELSE rank[x]
  BY <1>3 DEF RankWith
<1>5. RankWith(p, c, rank)[p] = c + 1
  BY LevelFacts DEF RankWith
<1> QED BY <1>3, <1>4, <1>5

\* What klmalloc_skip_list_insert does to the words, the bin not being on the
\* list.
LEMMA SkipInsertWords ==
  ASSUME BigTypeOK, NEW rank, NEW on, Represents(rank, on), NEW c \in Nat,
         NEW p \in Page \ avail, Cut(c, hdrSize[p], rank),
         NEW lv \in Level, SkipInsert(p, lv)
  PROVE  /\ fwd' \in [Node -> [Level -> Page \cup {Nil, Junk}]]
         /\ \A n \in Node, i \in Level :
              fwd'[n][i] = IF i <= lv /\ n = p THEN fwd[Update(hdrSize[p])[i]][i]
                           ELSE IF i <= lv /\ n = Update(hdrSize[p])[i] THEN p
                           ELSE fwd[n][i]
         /\ level' = IF lv > level THEN lv ELSE level
<1> DEFINE u == Update(hdrSize[p])
<1>1. hdrSize[p] \in Int
  BY DEF BigTypeOK
<1>2. \A i \in Level : LastBefore(u[i], on[i], c, rank)
  BY <1>1, UpdateStops
<1> HIDE DEF u
<1>3. \A i \in Level : u[i] \in Node
  BY <1>2, LevelNodes, LevelFacts DEF LastBefore
<1>4. fwd[u[0]][0] # p
  <2>1. on[0] = avail /\ u[0] \in on[0] \cup {SkipHead}
    BY <1>2, LevelFacts DEF LastBefore, Represents, LevelsOK
  <2>2. IsNextOf(u[0], fwd[u[0]][0], avail, rank)
    BY <2>1, LevelNodes, LevelFacts
  <2> QED BY <2>2, LevelFacts DEF IsNextOf, Behind
<1>5. /\ level' = IF lv > level THEN lv ELSE level
      /\ fwd' = [n \in Node |-> [i \in Level |->
                   IF i <= lv /\ n = p THEN fwd[u[i]][i]
                   ELSE IF i <= lv /\ n = u[i] THEN p
                   ELSE fwd[n][i]]]
  BY <1>4 DEF SkipInsert, u
<1>6. fwd' \in [Node -> [Level -> Page \cup {Nil, Junk}]]
  <2>1. \A n \in Node, i \in Level : fwd[n][i] \in Page \cup {Nil, Junk}
    BY DEF BigTypeOK
  <2> QED BY <1>3, <1>5, <2>1
<1> QED BY <1>5, <1>6 DEF u

\* An order by the new rank among the bins there were is the one by the old.
LEMMA IsNextOfKept ==
  ASSUME BigTypeOK, NEW rank, NEW on, Represents(rank, on), NEW i \in Level,
         NEW p \in Page \ avail, NEW c \in Nat, NEW n \in on[i] \cup {SkipHead}
  PROVE  /\ Behind(n, on[i], RankWith(p, c, rank)) = Behind(n, on[i], rank)
         /\ IsNextOf(n, fwd[n][i], on[i], RankWith(p, c, rank))
<1> DEFINE rk == RankWith(p, c, rank)
<1>1. on[i] \subseteq avail /\ IsNextOf(n, fwd[n][i], on[i], rank)
  BY LevelNodes
<1>2. \A q \in on[i] : rk[n] < rk[q] <=> rank[n] < rank[q]
  BY <1>1, RankWithOrder
<1>3. \A q, r \in on[i] : rk[q] <= rk[r] <=> rank[q] <= rank[r]
  BY <1>1, RankWithOrder
<1> HIDE DEF rk
<1>4. Behind(n, on[i], rk) = Behind(n, on[i], rank)
  BY <1>2 DEF Behind
<1>5. IsNextOf(n, fwd[n][i], on[i], rk)
  <2>1. Behind(n, on[i], rank) \subseteq on[i]
    BY DEF Behind
  <2> QED BY <1>1, <1>3, <1>4, <2>1 DEF IsNextOf
<1> QED BY <1>4, <1>5 DEF rk

\* On the levels of the new bin, the word in front of the cut leads to it and
\* its own leads on; all others stay right.
LEMMA SkipInsertLinks ==
  ASSUME BigTypeOK, NEW rank, NEW on, Represents(rank, on), NEW c \in Nat,
         NEW p \in Page \ avail, Cut(c, hdrSize[p], rank),
         NEW lv \in Level, SkipInsert(p, lv),
         NEW i \in Level, i <= lv, NEW n \in (on[i] \cup {p}) \cup {SkipHead}
  PROVE  IsNextOf(n, fwd'[n][i], on[i] \cup {p}, RankWith(p, c, rank))
<1> DEFINE u == Update(hdrSize[p])[i]
           rk == RankWith(p, c, rank)
           S == on[i]
<1>1. hdrSize[p] \in Int /\ p # SkipHead /\ p \in Node
  BY LevelFacts DEF BigTypeOK
<1>2. LastBefore(u, S, c, rank)
  BY <1>1, UpdateStops
<1>3. S \subseteq avail /\ S \subseteq Page /\ p \notin S
  BY LevelNodes
<1>4. n \in Node /\ u \in Node /\ u # p /\ u \in S \cup {SkipHead}
  BY <1>1, <1>2, <1>3, LevelFacts DEF LastBefore
<1>5. fwd'[n][i] = IF n = p THEN fwd[u][i] ELSE IF n = u THEN p ELSE fwd[n][i]
  BY <1>4, SkipInsertWords
<1>6. \A x \in S \cup {SkipHead} : rank[x] \in Nat
  BY LevelNodes
<1>7. \A x, y \in S \cup {SkipHead} :
        /\ rk[x] < rk[y] <=> rank[x] < rank[y]
        /\ rk[x] <= rk[y] <=> rank[x] <= rank[y]
        /\ rk[x] < rk[p] <=> rank[x] <= c
        /\ rk[p] <= rk[x] <=> c < rank[x]
        /\ rk[p] < rk[x] <=> c < rank[x]
  BY <1>3, RankWithOrder
<1>8. \A x \in S \cup {SkipHead} : /\ Behind(x, S, rk) = Behind(x, S, rank)
                                   /\ IsNextOf(x, fwd[x][i], S, rk)
  BY IsNextOfKept
<1>9. rk[p] = c + 1
  BY <1>1 DEF RankWith
<1>10. rank[u] <= c /\ \A q \in S : rank[u] < rank[q] => c < rank[q]
  BY <1>2 DEF LastBefore
<1> HIDE DEF u, rk, S
<1>11. CASE n = p
  <2>1. \A q \in S : rk[p] < rk[q] <=> rank[u] < rank[q]
    BY <1>4, <1>6, <1>7, <1>10
  <2>2. Behind(p, S \cup {p}, rk) = Behind(u, S, rank)
    BY <1>9, <2>1 DEF Behind
  <2>3. Behind(p, S \cup {p}, rk) = Behind(u, S, rk)
    BY <1>4, <1>8, <2>2
  <2>4. IsNextOf(u, fwd[u][i], S, rk)
    BY <1>4, <1>8
  <2> QED BY <1>5, <1>11, <2>3, <2>4 DEF IsNextOf, rk, S
<1>12. CASE n # p /\ c < rank[n]
  <2>1. n \in S \cup {SkipHead}
    BY <1>12 DEF S
  <2>2. ~(rk[n] < rk[p])
    BY <1>6, <1>7, <1>12, <2>1
  <2>3. Behind(n, S \cup {p}, rk) = Behind(n, S, rk)
    BY <2>2 DEF Behind
  <2>4. n # u
    BY <1>4, <1>6, <1>10, <1>12
  <2>5. fwd'[n][i] = fwd[n][i] /\ IsNextOf(n, fwd[n][i], S, rk)
    BY <1>5, <1>8, <1>12, <2>1, <2>4
  <2> QED BY <2>3, <2>5 DEF IsNextOf, rk, S
<1>13. CASE n # p /\ ~(c < rank[n])
  <2>1. n \in S \cup {SkipHead} /\ rank[n] <= c
    BY <1>6, <1>13 DEF S
  <2>2. p \in Behind(n, S \cup {p}, rk)
    BY <1>7, <2>1 DEF Behind
  <2>3. CASE n = u
    <3>1. \A q \in Behind(n, S \cup {p}, rk) : rk[p] <= rk[q]
      <4> SUFFICES ASSUME NEW q \in S \cup {p}, rk[n] < rk[q] PROVE rk[p] <= rk[q]
        BY DEF Behind
      <4>1. CASE q = p
        BY <1>9, <4>1
      <4>2. CASE q \in S
        BY <1>4, <1>7, <1>10, <2>3, <4>2
      <4> QED BY <4>1, <4>2
    <3>2. fwd'[n][i] = p
      BY <1>5, <1>13, <2>3
    <3> QED BY <2>2, <3>1, <3>2 DEF IsNextOf, rk, S
  <2>4. CASE n # u
    <3>1. rank[n] < rank[u] /\ u \in S
      <4>1. rank[SkipHead] = 0 /\ (\A x \in avail : rank[x] >= 1)
            /\ \A x, y \in avail : rank[x] = rank[y] => x = y
        BY LevelNodes, LevelFacts DEF Represents, RankOK
      <4>2. rank[n] # rank[u]
        BY <1>3, <1>4, <1>6, <2>1, <2>4, <4>1
      <4>3. ~(rank[u] < rank[n])
        <5>1. CASE n = SkipHead
          BY <1>4, <1>6, <4>1, <5>1
        <5>2. CASE n \in S
          BY <1>10, <1>13, <5>2
        <5> QED BY <2>1, <5>1, <5>2
      <4>4. rank[n] \in Nat /\ rank[u] \in Nat
        BY <1>4, <1>6, <2>1
      <4> QED BY <1>4, <2>1, <4>1, <4>2, <4>3, <4>4
    <3> DEFINE m == fwd[n][i]
    <3>2. Behind(n, S, rk) # {} /\ u \in Behind(n, S, rk)
      BY <1>7, <2>1, <3>1 DEF Behind
    <3>3. IsNextOf(n, m, S, rk) /\ fwd'[n][i] = m
      BY <1>5, <1>8, <1>13, <2>1, <2>4
    <3> HIDE DEF m
    <3>4. m \in Behind(n, S, rk) /\ \A q \in Behind(n, S, rk) : rk[m] <= rk[q]
      BY <3>2, <3>3 DEF IsNextOf
    <3>5. m \in S /\ rank[m] <= rank[u]
      BY <1>7, <3>1, <3>2, <3>4 DEF Behind
    <3>6. rk[m] <= rk[p]
      <4>1. rank[m] <= c /\ rank[m] \in Nat
        BY <1>6, <1>10, <3>1, <3>5
      <4>2. rk[m] < rk[p] /\ ~(rk[p] <= rk[m])
        BY <1>7, <3>5, <4>1
      <4>3. rk[m] \in Nat
        BY <1>3, <3>5, <1>6, LevelFacts DEF rk, RankWith
      <4> QED BY <1>9, <4>2, <4>3
    <3>7. m \in Behind(n, S \cup {p}, rk)
      BY <3>4 DEF Behind
    <3>8. \A q \in Behind(n, S \cup {p}, rk) : q = p \/ q \in Behind(n, S, rk)
      BY DEF Behind
    <3> QED BY <2>2, <3>3, <3>4, <3>6, <3>7, <3>8 DEF IsNextOf, rk, S
  <2> QED BY <2>3, <2>4
<1> QED BY <1>11, <1>12, <1>13

\* So the list is one again, with the new bin, and as high as its highest node.
LEMMA SkipInsertKeepsList ==
  ASSUME BigTypeOK, NEW rank, NEW on, Represents(rank, on), NEW p \in Page \ avail,
         NEW lv \in Level, SkipInsert(p, lv),
         avail' = avail \cup {p}, hdrSize' = hdrSize
  PROVE  SkipListInv' /\ level' \in Level
<1>1. p \in Page /\ p \notin avail /\ avail \subseteq Page /\ hdrSize[p] \in Int
      /\ IsFiniteSet(avail) /\ Cardinality(avail) \in Nat
  BY RanksBounded DEF BigTypeOK
<1>2. PICK c \in Nat : Cut(c, hdrSize[p], rank) /\ c <= Cardinality(avail)
  BY <1>1, CutExists DEF Represents
<1> DEFINE rk == RankWith(p, c, rank)
           up == [i \in Level |-> IF i <= lv THEN on[i] \cup {p} ELSE on[i]]
<1>3. Cardinality(avail') = Cardinality(avail) + 1
  BY <1>1, FS_AddElement
<1>4. /\ rank \in [Node -> Nat] /\ rank[SkipHead] = 0
      /\ \A q \in avail : rank[q] \in 1 .. Cardinality(avail)
      /\ \A q, r \in avail : rank[q] = rank[r] => q = r
      /\ \A q, r \in avail : rank[q] < rank[r] => hdrSize[q] <= hdrSize[r]
  BY DEF Represents, RankOK
<1>5. /\ on \in [Level -> SUBSET Page] /\ on[0] = avail
      /\ \A i, j \in Level : j <= i => on[i] \subseteq on[j]
      /\ \A i \in Level : i > level => on[i] = {}
      /\ level > 0 => on[level] # {}
  BY DEF Represents, LevelsOK
<1>6. rk \in [Node -> Nat] /\ rk[p] = c + 1
  BY <1>1, <1>2, <1>4, LevelFacts DEF RankWith
<1>7. RankOK(rk)'
  <2>1. rk[SkipHead] = 0
    BY <1>1, <1>2, <1>4, LevelFacts DEF RankWith
  <2>2. \A q \in avail : rk[q] \in 1 .. Cardinality(avail) + 1
    <3> SUFFICES ASSUME NEW q \in avail PROVE rk[q] \in 1 .. Cardinality(avail) + 1
      OBVIOUS
    <3>1. q \in Node /\ q # p /\ rank[q] \in 1 .. Cardinality(avail)
      BY <1>1, <1>4, LevelFacts
    <3> QED BY <1>1, <3>1 DEF RankWith
  <2>3. \A q \in avail' : rk[q] \in 1 .. Cardinality(avail')
    BY <1>1, <1>2, <1>3, <1>6, <2>2
  <2>4. \A q, r \in avail : /\ rk[q] = rk[r] <=> rank[q] = rank[r]
                            /\ rk[q] < rk[r] <=> rank[q] < rank[r]
    BY <1>1, <1>2, RankWithOrder
  <2>5. \A q \in avail : /\ rk[q] # rk[p]
                         /\ rk[q] < rk[p] <=> rank[q] <= c
                         /\ rk[p] < rk[q] <=> c < rank[q]
    BY <1>1, <1>2, RankWithOrder
  <2>6. \A q \in avail : /\ hdrSize[q] < hdrSize[p] <=> rank[q] <= c
                         /\ hdrSize[q] \in Int /\ rank[q] \in Nat
    BY <1>1, <1>2, <1>4 DEF Cut, BigTypeOK
  <2> HIDE DEF rk
  <2>7. \A q, r \in avail' : rk[q] = rk[r] => q = r
    BY <1>4, <2>4, <2>5
  <2>8. \A q, r \in avail' : rk[q] < rk[r] => hdrSize[q] <= hdrSize[r]
    <3> SUFFICES ASSUME NEW q \in avail', NEW r \in avail', rk[q] < rk[r]
                 PROVE  hdrSize[q] <= hdrSize[r]
      OBVIOUS
    <3>1. CASE q \in avail /\ r \in avail
      BY <1>4, <2>4, <3>1
    <3>2. CASE q \in avail /\ r = p
      BY <1>1, <2>5, <2>6, <3>2
    <3>3. CASE q = p /\ r \in avail
      BY <1>1, <1>2, <2>5, <2>6, <3>3
    <3>4. CASE q = p /\ r = p
      BY <1>1, <3>4
    <3> QED BY <3>1, <3>2, <3>3, <3>4
  <2> QED BY <1>6, <2>1, <2>3, <2>7, <2>8 DEF RankOK
<1>8. ASSUME NEW i \in Level, NEW n \in up[i] \cup {SkipHead}
      PROVE  IsNextOf(n, fwd'[n][i], up[i], rk)
  <2>1. CASE i <= lv
    <3>1. up[i] = on[i] \cup {p} /\ n \in (on[i] \cup {p}) \cup {SkipHead}
      BY <2>1
    <3> QED BY <1>2, <2>1, <3>1, SkipInsertLinks
  <2>2. CASE ~(i <= lv)
    <3>1. up[i] = on[i] /\ n \in on[i] \cup {SkipHead}
      BY <2>2
    <3>2. n \in Node
      BY <1>5, <3>1, LevelFacts
    <3>3. fwd'[n][i] = fwd[n][i]
      BY <1>2, <2>2, <3>2, SkipInsertWords
    <3> QED BY <1>2, <3>1, <3>3, IsNextOfKept
  <2> QED BY <2>1, <2>2
<1>9. level' = IF lv > level THEN lv ELSE level
  BY <1>2, SkipInsertWords
<1>10. level \in Level /\ level \in Nat /\ lv \in Nat /\ level' \in Level
  BY <1>9, LevelFacts DEF BigTypeOK
<1>11. LevelsOK(up)'
  <2>1. up \in [Level -> SUBSET Page] /\ up[0] = avail'
    BY <1>1, <1>5, <1>10, LevelFacts
  <2>2. ASSUME NEW i \in Level, NEW j \in Level, j <= i PROVE up[i] \subseteq up[j]
    <3>1. on[i] \subseteq on[j] /\ (i <= lv => j <= lv)
      BY <1>5, <1>10, <2>2, LevelFacts
    <3> QED BY <3>1
  <2>3. ASSUME NEW i \in Level, i > level' PROVE up[i] = {}
    <3>1. i > level /\ ~(i <= lv)
      BY <1>9, <1>10, <2>3, LevelFacts
    <3> QED BY <1>5, <3>1
  <2>4. level' > 0 => up[level'] # {}
    <3>1. CASE lv >= level
      BY <1>9, <1>10, <3>1
    <3>2. CASE lv < level
      BY <1>5, <1>9, <1>10, <3>2
    <3> QED BY <1>10, <3>1, <3>2
  <2> HIDE DEF up
  <2> QED BY <2>1, <2>2, <2>3, <2>4 DEF LevelsOK
<1>12. Represents(rk, up)'
  <2> HIDE DEF up, rk
  <2> QED BY <1>7, <1>8, <1>11 DEF Represents
<1>13. up \in [Level -> SUBSET Page]
  BY <1>1, <1>5
<1> HIDE DEF up, rk
<1> QED BY <1>6, <1>10, <1>12, <1>13 DEF SkipListInv
-----------------------------------------------------------------------------
(* The steps.                                                              *)

\* The list does not see what is not on it.
LEMMA SkipListKept ==
  ASSUME BigTypeOK, SkipListInv, UNCHANGED <<fwd, level, avail>>,
         \A p \in avail : hdrSize'[p] = hdrSize[p]
  PROVE  SkipListInv'
<1>1. PICK rank \in [Node -> Nat], on \in [Level -> SUBSET Page] : Represents(rank, on)
  BY DEF SkipListInv
<1>2. RankOK(rank)'
  BY <1>1 DEF Represents, RankOK
<1>3. LevelsOK(on)'
  BY <1>1 DEF Represents, LevelsOK
<1>4. Represents(rank, on)'
  BY <1>1, <1>2, <1>3 DEF Represents
<1> QED BY <1>4 DEF SkipListInv

\* Initially nothing is on the list.
LEMMA BigInitInv ==
  ASSUME BigBinsInit
  PROVE  BigInv
<1> DEFINE rank == [n \in Node |-> 0]
           on == [i \in Level |-> {}]
<1>1. BigTypeOK
  BY ConstantFacts, LevelFacts DEF BigBinsInit, BigInit, HeapInit, BigTypeOK, Untouched
<1>2. OwnersInv
  BY ConstantFacts DEF BigBinsInit, BigInit, HeapInit, OwnersInv, BigPages, IsBig, Untouched
<1>3. Cardinality(avail) = 0 /\ avail = {}
  BY FS_EmptySet DEF BigBinsInit, BigInit
<1>4. RankOK(rank)
  BY <1>3, LevelFacts DEF RankOK
<1>5. LevelsOK(on)
  BY <1>3, LevelFacts DEF LevelsOK, BigBinsInit, BigInit
<1>6. \A i \in Level : \A n \in on[i] \cup {SkipHead} : IsNextOf(n, fwd[n][i], on[i], rank)
  <2> SUFFICES ASSUME NEW i \in Level
               PROVE  IsNextOf(SkipHead, fwd[SkipHead][i], on[i], rank)
    OBVIOUS
  <2>1. Behind(SkipHead, on[i], rank) = {}
    BY DEF Behind
  <2>2. fwd[SkipHead][i] = Nil
    BY LevelFacts DEF BigBinsInit, BigInit
  <2> QED BY <2>1, <2>2 DEF IsNextOf
<1>7. Represents(rank, on)
  <2> HIDE DEF rank, on
  <2> QED BY <1>4, <1>5, <1>6 DEF Represents
<1>8. rank \in [Node -> Nat] /\ on \in [Level -> SUBSET Page]
  OBVIOUS
<1> HIDE DEF rank, on
<1> QED BY <1>1, <1>2, <1>7, <1>8 DEF BigInv, SkipListInv

\* A bin at the heap's end, small or big: it was nobody's, and a big one goes
\* to the caller.
LEMMA GrowKeepsBigInv ==
  ASSUME BigInv, NEW n \in Int, n > 0, Sbrk(n), NEW v \in Int,
         hdrSize' = [hdrSize EXCEPT ![heapEnd] = v],
         bigLive' = IF v > NUM_BINS THEN bigLive \cup {heapEnd} ELSE bigLive,
         UNCHANGED <<fwd, level, avail>>,
         prev' \in [Page -> Page \cup {Nil, Junk}],
         next' \in [Page -> Page \cup {Nil, Junk}],
         newest' \in Page \cup {Nil}
  PROVE  BigInv'
<1>1. BigTypeOK /\ OwnersInv /\ SkipListInv
  BY DEF BigInv
<1>2. /\ heapEnd \in Page /\ heapEnd \in Nat /\ MaxPages \in Nat
      /\ heapEnd' = heapEnd + n /\ heapEnd' \in 0 .. MaxPages
  BY <1>1, ConstantFacts DEF BigTypeOK, Sbrk, Page
<1>3. \A p \in Page : hdrSize'[p] = IF p = heapEnd THEN v ELSE hdrSize[p]
  BY <1>1, <1>2 DEF BigTypeOK
<1>4. ~IsBig(heapEnd) /\ heapEnd \notin avail
  <2>1. hdrSize[heapEnd] = Untouched
    BY <1>1, <1>2 DEF OwnersInv
  <2>2. ~IsBig(heapEnd)
    BY <2>1, ConstantFacts DEF IsBig, Untouched
  <2> QED BY <1>1, <2>2 DEF OwnersInv, BigPages
<1>5. BigTypeOK'
  BY <1>1, <1>2 DEF BigTypeOK
<1>6. OwnersInv'
  <2>1. BigPages' = IF v > NUM_BINS THEN BigPages \cup {heapEnd} ELSE BigPages
    BY <1>2, <1>3, <1>4 DEF BigPages, IsBig
  <2>2. \A p \in Page : p >= heapEnd' => hdrSize'[p] = Untouched
    BY <1>1, <1>2, <1>3, ConstantFacts DEF OwnersInv
  <2> QED BY <1>1, <1>4, <2>1, <2>2 DEF OwnersInv
<1>7. SkipListInv'
  <2>1. \A p \in avail : p \in Page /\ p # heapEnd
    BY <1>1, <1>4 DEF BigTypeOK
  <2> QED BY <1>1, <1>3, <2>1, SkipListKept
<1> QED BY <1>5, <1>6, <1>7 DEF BigInv

\* klmalloc of a big bin that was free.
LEMMA ReuseBinKeepsBigInv ==
  ASSUME BigInv, NEW size \in Int, ReuseBin(size)
  PROVE  BigInv'
<1>1. BigTypeOK /\ OwnersInv /\ SkipListInv
  BY DEF BigInv
<1>2. PICK rank \in [Node -> Nat], on \in [Level -> SUBSET Page] : Represents(rank, on)
  BY <1>1 DEF SkipListInv
<1>3. PICK p : p = FindBest(size)
  OBVIOUS
<1>4. /\ p # Nil /\ SkipDelete(p) /\ avail' = avail \ {p} /\ bigLive' = bigLive \cup {p}
      /\ UNCHANGED <<heapEnd, hdrSize, prev, next, newest>>
  BY <1>3 DEF ReuseBin, chainVars
<1>5. IsFirstFit(p, size, rank)
  BY <1>1, <1>2, <1>3, <1>4, FindBestIsFirstFit
<1>6. p \in avail /\ p \in Page
  BY <1>1, <1>5 DEF IsFirstFit, Enough, BigTypeOK
<1>7. SkipListInv' /\ level' \in Level
  BY <1>1, <1>2, <1>4, <1>5, SkipDeleteKeepsList
<1>8. fwd' \in [Node -> [Level -> Page \cup {Nil, Junk}]]
  BY <1>1, <1>2, <1>4, <1>5, SkipDeleteWords
<1>9. BigTypeOK'
  BY <1>1, <1>4, <1>6, <1>7, <1>8 DEF BigTypeOK
<1>10. OwnersInv'
  <2>1. BigPages' = BigPages
    BY <1>4 DEF BigPages, IsBig
  <2> QED BY <1>1, <1>4, <1>6, <2>1 DEF OwnersInv
<1> QED BY <1>7, <1>9, <1>10 DEF BigInv

\* klfree of a big bin.
LEMMA FreeBigKeepsBigInv ==
  ASSUME BigInv, NEW p, NEW lv \in Level, FreeBig(p, lv)
  PROVE  BigInv'
<1>1. BigTypeOK /\ OwnersInv /\ SkipListInv
  BY DEF BigInv
<1>2. PICK rank \in [Node -> Nat], on \in [Level -> SUBSET Page] : Represents(rank, on)
  BY <1>1 DEF SkipListInv
<1>3. /\ p \in bigLive /\ SkipInsert(p, lv)
      /\ avail' = avail \cup {p} /\ bigLive' = bigLive \ {p}
      /\ UNCHANGED <<heapEnd, hdrSize, prev, next, newest>>
  BY DEF FreeBig, chainVars
<1>4. p \in Page \ avail
  BY <1>1, <1>3 DEF OwnersInv, BigTypeOK
<1>5. SkipListInv' /\ level' \in Level
  BY <1>1, <1>2, <1>3, <1>4, SkipInsertKeepsList
<1>6. fwd' \in [Node -> [Level -> Page \cup {Nil, Junk}]]
  <2>1. hdrSize[p] \in Int
    BY <1>1, <1>4 DEF BigTypeOK
  <2>2. PICK c \in Nat : Cut(c, hdrSize[p], rank)
    BY <1>1, <1>2, <2>1, CutExists DEF Represents
  <2> QED BY <1>1, <1>2, <1>3, <1>4, <2>2, SkipInsertWords
<1>7. BigTypeOK'
  BY <1>1, <1>3, <1>4, <1>5, <1>6 DEF BigTypeOK
<1>8. OwnersInv'
  <2>1. BigPages' = BigPages
    BY <1>3 DEF BigPages, IsBig
  <2> QED BY <1>1, <1>3, <1>4, <2>1 DEF OwnersInv
<1> QED BY <1>5, <1>7, <1>8 DEF BigInv

\* klmalloc of a big bin that sbrk gives.
LEMMA NewBinFacts ==
  ASSUME BigTypeOK, NEW size \in Int, NewBin(size)
  PROVE  /\ PagesFor(size) \in 1 .. MaxPages
         /\ heapEnd \in Page
         /\ BigBinSize(PagesFor(size)) \in Int
         /\ BigBinSize(PagesFor(size)) > NUM_BINS
<1>1. heapEnd \in 0 .. MaxPages /\ heapEnd + PagesFor(size) <= MaxPages
  BY DEF BigTypeOK, NewBin, Sbrk
<1>2. PagesFor(size) \in 1 .. MaxPages
  BY <1>1, PagesForFacts
<1>3. heapEnd \in Page
  BY <1>1, <1>2, ConstantFacts DEF Page
<1> QED BY <1>2, <1>3, BigBinSizeFacts

LEMMA NewBinKeepsBigInv ==
  ASSUME BigInv, NEW size \in Int, NewBin(size)
  PROVE  BigInv'
<1> DEFINE n == PagesFor(size)
           v == BigBinSize(PagesFor(size))
<1>1. BigTypeOK
  BY DEF BigInv
<1>2. n \in 1 .. MaxPages /\ heapEnd \in Page /\ v \in Int /\ v > NUM_BINS
  BY <1>1, NewBinFacts
<1>3. /\ Sbrk(n) /\ hdrSize' = [hdrSize EXCEPT ![heapEnd] = v]
      /\ bigLive' = bigLive \cup {heapEnd}
      /\ UNCHANGED <<fwd, level, avail>>
      /\ prev' = [prev EXCEPT ![heapEnd] = newest]
      /\ next' = [p \in Page |-> IF p = heapEnd THEN Nil
                                 ELSE IF p = newest THEN heapEnd ELSE next[p]]
      /\ newest' = heapEnd
  BY DEF NewBin, skipVars
<1> HIDE DEF n, v
<1>4. /\ prev' \in [Page -> Page \cup {Nil, Junk}]
      /\ next' \in [Page -> Page \cup {Nil, Junk}]
      /\ newest' \in Page \cup {Nil}
  BY <1>1, <1>2, <1>3 DEF BigTypeOK
<1>5. bigLive' = IF v > NUM_BINS THEN bigLive \cup {heapEnd} ELSE bigLive
  BY <1>2, <1>3
<1>6. n \in Int /\ n > 0
  BY <1>2, ConstantFacts
<1> QED BY <1>2, <1>3, <1>4, <1>5, <1>6, GrowKeepsBigInv

\* klmalloc of a small bin that sbrk gives.
LEMMA SmallGrowthKeepsBigInv ==
  ASSUME BigInv, NEW b \in SmallBin, GrowForSmallBin(b)
  PROVE  BigInv'
<1>1. /\ Sbrk(1) /\ hdrSize' = [hdrSize EXCEPT ![heapEnd] = b]
      /\ UNCHANGED <<fwd, level, prev, next, newest, avail, bigLive>>
  BY DEF GrowForSmallBin, skipVars, chainVars
<1>2. b \in Int /\ ~(b > NUM_BINS)
  BY ConstantFacts
<1>3. /\ prev' \in [Page -> Page \cup {Nil, Junk}]
      /\ next' \in [Page -> Page \cup {Nil, Junk}]
      /\ newest' \in Page \cup {Nil}
  BY <1>1 DEF BigInv, BigTypeOK
<1>4. bigLive' = IF b > NUM_BINS THEN bigLive \cup {heapEnd} ELSE bigLive
  BY <1>1, <1>2
<1>5. PICK n \in Int : n > 0 /\ n = 1
  OBVIOUS
<1>6. Sbrk(n) /\ UNCHANGED <<fwd, level, avail>>
  BY <1>1, <1>5
<1> QED BY <1>1, <1>2, <1>3, <1>4, <1>5, <1>6, GrowKeepsBigInv

\* Between the calls nothing changes.
LEMMA BigStutter ==
  ASSUME BigInv, UNCHANGED bigVars
  PROVE  BigInv'
<1>1. /\ UNCHANGED <<heapEnd, hdrSize, fwd, level, avail, bigLive>>
      /\ UNCHANGED <<prev, next, newest>>
  BY DEF bigVars, skipVars, chainVars
<1>2. SkipListInv'
  BY <1>1, SkipListKept DEF BigInv
<1>3. BigTypeOK' /\ OwnersInv'
  BY <1>1 DEF BigInv, BigTypeOK, OwnersInv, BigPages, IsBig
<1> QED BY <1>2, <1>3 DEF BigInv

\* A step of the big bins for a request of any size.
AnyBigNext ==
  \/ \E size \in Int : MallocBig(size)
  \/ \E p \in bigLive, lv \in Level : FreeBig(p, lv)
  \/ \E b \in SmallBin : GrowForSmallBin(b)

LEMMA BigNextIsAnyBigNext == [BigNext]_bigVars => [AnyBigNext]_bigVars
<1>1. \A size \in BigRequest : size \in Int
  BY BigRequestAssumption
<1> QED BY <1>1 DEF BigNext, AnyBigNext

\* Every step of the big bins keeps their invariant.
LEMMA BigStepKeepsBigInv ==
  ASSUME BigInv, [AnyBigNext]_bigVars
  PROVE  BigInv'
<1>1. ASSUME NEW size \in Int, ReuseBin(size) PROVE BigInv'
  BY <1>1, ReuseBinKeepsBigInv
<1>2. ASSUME NEW size \in Int, NewBin(size) PROVE BigInv'
  BY <1>2, NewBinKeepsBigInv
<1>3. ASSUME NEW p \in bigLive, NEW lv \in Level, FreeBig(p, lv) PROVE BigInv'
  BY <1>3, FreeBigKeepsBigInv
<1>4. ASSUME NEW b \in SmallBin, GrowForSmallBin(b) PROVE BigInv'
  BY <1>4, SmallGrowthKeepsBigInv
<1>5. CASE UNCHANGED bigVars
  BY <1>5, BigStutter
<1> QED BY <1>1, <1>2, <1>3, <1>4, <1>5 DEF AnyBigNext, MallocBig

\* At every moment the skip list is a skip list: whatever was allocated and
\* freed, in whatever order, with nodes of whatever height.
THEOREM BigInvariant == BigSpec => []BigInv
<1>1. BigBinsInit => BigInv
  BY BigInitInv
<1>2. BigInv /\ [BigNext]_bigVars => BigInv'
  BY BigNextIsAnyBigNext, BigStepKeepsBigInv
<1> QED BY <1>1, <1>2, PTL DEF BigSpec
-----------------------------------------------------------------------------
(* What the invariant says in the words of the properties.                 *)

\* The nodes that the words of a level lead to, one after the other, are the
\* bins of the level in their order, and then Nil.
LEMMA LinksFacts ==
  ASSUME BigTypeOK, NEW rank, NEW on, Represents(rank, on), NEW i \in Level
  PROVE  /\ Links(i)[MaxPages + 1] = Nil
         /\ OnLevel(i) = on[i]
         /\ \A k \in 1 .. MaxPages : Links(i)[k + 1] \in Page =>
              Links(i)[k] \in on[i] /\ Links(i)[k + 1] \in on[i]
              /\ rank[Links(i)[k]] < rank[Links(i)[k + 1]]
<1> DEFINE N == MaxPages + 1
           S == on[i] \cup {SkipHead}
           Turn(n) == IF n \in Node THEN fwd[n][i] ELSE n
           In(k) == {Nil} \cup {n \in S : rank[n] >= k}
           in == [k \in 0 .. N |-> In(k)]
           step == [k \in 1 .. N |-> [n \in S \cup {Nil} |-> Turn(n)]]
           Loop(h) == h = [k \in 0 .. N |->
                             IF k = 0 THEN SkipHead
                             ELSE IF h[k - 1] \in Node THEN fwd[h[k - 1]][i] ELSE h[k - 1]]
<1>1. /\ N \in Nat /\ N = MaxPages + 1 /\ MaxPages \in Nat
      /\ \A k \in 1 .. N : k \in 0 .. N /\ k - 1 \in 0 .. N /\ k \in Nat
      /\ rank[SkipHead] = 0 /\ SkipHead \in S
  BY MaxPagesAssumption DEF Represents, RankOK
<1>2. /\ on[i] \subseteq Page /\ SkipHead \notin on[i]
      /\ S \subseteq Node /\ Nil \notin S
      /\ \A n \in S : rank[n] \in 0 .. MaxPages /\ IsNextOf(n, fwd[n][i], on[i], rank)
  BY LevelNodes, LevelFacts
<1> HIDE DEF N
\* A turn leads to a bin of a higher rank, or there is none.
<1>3. ASSUME NEW n \in S
      PROVE  \/ Turn(n) = Nil /\ \A q \in on[i] : ~(rank[n] < rank[q])
             \/ /\ Turn(n) \in on[i] /\ rank[n] < rank[Turn(n)]
                /\ \A q \in on[i] : rank[n] < rank[q] => rank[Turn(n)] <= rank[q]
  <2>1. Turn(n) = fwd[n][i]
    BY <1>2
  <2> HIDE DEF Turn
  <2> QED BY <1>2, <2>1 DEF IsNextOf, Behind
<1>4. Turn(Nil) = Nil
  BY LevelFacts
<1> HIDE DEF Turn
<1>5. \A k \in 1 .. N : \A n \in In(k - 1) : Turn(n) \in In(k) /\ n \in S \cup {Nil}
  <2> SUFFICES ASSUME NEW k \in 1 .. N, NEW n \in S, rank[n] >= k - 1
               PROVE  Turn(n) \in In(k)
    BY <1>4
  <2>1. CASE Turn(n) = Nil
    BY <2>1
  <2>2. CASE Turn(n) # Nil
    <3>1. Turn(n) \in on[i] /\ rank[n] < rank[Turn(n)]
      BY <1>3, <2>2
    <3>2. rank[n] \in 0 .. MaxPages /\ rank[Turn(n)] \in 0 .. MaxPages
      BY <1>2, <3>1
    <3> QED BY <1>1, <3>1, <3>2
  <2> QED BY <2>1, <2>2
<1> HIDE DEF In, S
<1>6. SkipHead \in In(0)
  BY <1>1, <1>2 DEF In, S
<1>7. PICK f : IsLoop(f, N, SkipHead, step) /\ \A k \in 0 .. N : f[k] \in in[k]
  <2>1. SkipHead \in in[0]
    BY <1>1, <1>6
  <2>2. \A k \in 1 .. N : \A n \in in[k - 1] : step[k][n] \in in[k]
    <3> SUFFICES ASSUME NEW k \in 1 .. N, NEW n \in in[k - 1]
                 PROVE  step[k][n] \in in[k]
      OBVIOUS
    <3>1. n \in In(k - 1) /\ in[k] = In(k)
      BY <1>1
    <3> QED BY <1>5, <3>1
  <2> HIDE DEF in, step
  <2> QED BY <1>1, <2>1, <2>2, LoopExists
<1>8. Loop(f)
  <2>1. \A k \in 1 .. N : f[k - 1] \in S \cup {Nil}
    <3> SUFFICES ASSUME NEW k \in 1 .. N PROVE f[k - 1] \in S \cup {Nil}
      OBVIOUS
    <3>1. f[k - 1] \in in[k - 1] /\ k - 1 \in 0 .. N
      BY <1>1, <1>7
    <3> QED BY <1>5, <3>1
  <2>2. \A k \in 1 .. N : step[k][f[k - 1]] = Turn(f[k - 1])
    BY <2>1
  <2>3. \A k \in 0 .. N : f[k] = IF k = 0 THEN SkipHead ELSE Turn(f[k - 1])
    <3> HIDE DEF step, in
    <3> QED BY <1>1, <1>7, <2>2 DEF IsLoop
  <2>4. f = [k \in 0 .. N |-> f[k]]
    <3> HIDE DEF step, in
    <3> QED BY <1>7 DEF IsLoop
  <2> QED BY <2>3, <2>4 DEF Turn
<1> DEFINE at == CHOOSE h : Loop(h)
<1>9. Links(i) = at
  BY DEF Links, N
<1>10. Loop(at)
  <2> HIDE DEF Loop
  <2> QED BY <1>8
<1>11. at[0] = SkipHead /\ \A k \in 1 .. N : at[k] = Turn(at[k - 1])
  <2> HIDE DEF at
  <2> QED BY <1>1, <1>10 DEF Turn
<1> HIDE DEF at, Loop, in, step
<1>12. \A k \in 0 .. N : at[k] \in In(k)
  <2> DEFINE T == {k \in 0 .. N : at[k] \in In(k)}
  <2>1. 0 \in T
    BY <1>1, <1>6, <1>11
  <2>2. \A k \in 1 .. N : k - 1 \in T => k \in T
    BY <1>1, <1>5, <1>11
  <2>3. \A k \in 0 .. N : k \in T
    <3> HIDE DEF T
    <3> QED BY <1>1, <2>1, <2>2, LoopInduction
  <2> QED BY <2>3
<1>13. \A k \in 1 .. N : at[k] \in on[i] \cup {Nil}
  BY <1>1, <1>12 DEF In, S
<1>14. at[N] = Nil
  BY <1>1, <1>2, <1>12 DEF In
\* No bin of the level is left out.
<1>15. \A k \in 0 .. N : \A q \in on[i] :
         \/ \E j \in 1 .. k : at[j] = q
         \/ at[k] # Nil /\ rank[at[k]] < rank[q]
  <2> DEFINE Seen(k) == \A q \in on[i] : \/ \E j \in 1 .. k : at[j] = q
                                         \/ at[k] # Nil /\ rank[at[k]] < rank[q]
             T == {k \in 0 .. N : Seen(k)}
  <2>1. Seen(0)
    <3>1. \A q \in on[i] : rank[q] >= 1
      <4>1. \A q \in avail : rank[q] >= 1
        BY LevelNodes, LevelFacts
      <4> QED BY <4>1, LevelNodes
    <3>2. \A q \in on[i] : rank[SkipHead] < rank[q]
      BY <1>1, <1>2, <3>1 DEF S
    <3> QED BY <1>2, <1>11, <3>2, LevelFacts
  <2>2. ASSUME NEW k \in 1 .. N, Seen(k - 1) PROVE Seen(k)
    <3> SUFFICES ASSUME NEW q \in on[i],
                        ~ \E j \in 1 .. k : at[j] = q
                 PROVE  at[k] # Nil /\ rank[at[k]] < rank[q]
      BY Zenon
    <3>1. at[k - 1] # Nil /\ rank[at[k - 1]] < rank[q]
      BY <2>2
    <3>2. at[k - 1] \in S /\ at[k] = Turn(at[k - 1]) /\ at[k] # q
      BY <1>1, <1>11, <1>12, <3>1 DEF In
    <3>3. /\ at[k] \in on[i] /\ rank[at[k]] <= rank[q]
      BY <1>3, <3>1, <3>2
    <3>4. rank[at[k]] # rank[q]
      <4>1. \A x, y \in avail : rank[x] = rank[y] => x = y
        BY DEF Represents, RankOK
      <4>2. on[i] \subseteq avail
        BY LevelNodes
      <4> QED BY <3>2, <3>3, <4>1, <4>2
    <3>5. at[k] # Nil /\ rank[at[k]] \in Nat /\ rank[q] \in Nat
      BY <1>2, <3>3 DEF S
    <3> QED BY <3>3, <3>4, <3>5
  <2>3. 0 \in T /\ \A k \in 1 .. N : k - 1 \in T => k \in T
    <3> HIDE DEF Seen
    <3> QED BY <1>1, <2>1, <2>2
  <2>4. \A k \in 0 .. N : k \in T
    <3> HIDE DEF T
    <3> QED BY <1>1, <2>3, LoopInduction
  <2> QED BY <2>4
<1>16. OnLevel(i) = on[i]
  <2>1. OnLevel(i) = {at[k] : k \in 1 .. N} \ {Nil}
    BY <1>9 DEF OnLevel, N
  <2>2. on[i] \subseteq {at[k] : k \in 1 .. N}
    BY <1>1, <1>14, <1>15
  <2>3. Nil \notin on[i]
    BY <1>2 DEF S
  <2> QED BY <1>13, <2>1, <2>2, <2>3
<1>17. ASSUME NEW k \in 1 .. MaxPages, at[k + 1] \in Page
       PROVE  at[k] \in on[i] /\ at[k + 1] \in on[i] /\ rank[at[k]] < rank[at[k + 1]]
  <2>1. k + 1 \in 1 .. N /\ k \in 1 .. N /\ (k + 1) - 1 = k
    BY <1>1
  <2>2. at[k + 1] = Turn(at[k]) /\ at[k] \in on[i] \cup {Nil} /\ at[k + 1] # Nil
    BY <1>11, <1>13, <1>17, <2>1, LevelFacts
  <2>3. at[k] \in on[i]
    BY <1>4, <2>2
  <2> QED BY <1>3, <2>2, <2>3 DEF S
<1> QED BY <1>9, <1>14, <1>16, <1>17 DEF N

LEMMA BigInvSkipListExact == BigInv => SkipListExact
<1> SUFFICES ASSUME BigInv PROVE SkipListExact
  OBVIOUS
<1>1. BigTypeOK /\ OwnersInv /\ SkipListInv
  BY DEF BigInv
<1>2. PICK rank \in [Node -> Nat], on \in [Level -> SUBSET Page] : Represents(rank, on)
  BY <1>1 DEF SkipListInv
<1>3. level \in Level /\ level \in Nat /\ 0 .. level \subseteq Level
  BY <1>1, BigRequestAssumption DEF BigTypeOK, Level
<1>4. SkipListSorted
  <2> SUFFICES ASSUME NEW i \in 0 .. level
               PROVE  /\ Links(i)[MaxPages + 1] = Nil
                      /\ OnLevel(i) \subseteq Page
                      /\ \A k \in 1 .. MaxPages : Links(i)[k + 1] \in Page =>
                           hdrSize[Links(i)[k]] <= hdrSize[Links(i)[k + 1]]
                      /\ i > 0 => OnLevel(i) \subseteq OnLevel(i - 1)
    BY DEF SkipListSorted
  <2>1. i \in Level
    BY <1>3
  <2>2. Links(i)[MaxPages + 1] = Nil /\ OnLevel(i) = on[i]
    BY <1>1, <1>2, <2>1, LinksFacts
  <2>3. on[i] \subseteq Page /\ on[i] \subseteq avail
    BY <1>1, <1>2, <2>1, LevelNodes
  <2>4. ASSUME NEW k \in 1 .. MaxPages, Links(i)[k + 1] \in Page
        PROVE  hdrSize[Links(i)[k]] <= hdrSize[Links(i)[k + 1]]
    <3>1. /\ Links(i)[k] \in avail /\ Links(i)[k + 1] \in avail
          /\ rank[Links(i)[k]] < rank[Links(i)[k + 1]]
      BY <1>1, <1>2, <2>1, <2>3, <2>4, LinksFacts
    <3> QED BY <1>2, <3>1 DEF Represents, RankOK
  <2>5. ASSUME i > 0 PROVE OnLevel(i) \subseteq OnLevel(i - 1)
    <3>1. i - 1 \in Level /\ i - 1 <= i
      BY <1>3, <2>5
    <3>2. OnLevel(i - 1) = on[i - 1]
      BY <1>1, <1>2, <3>1, LinksFacts
    <3> QED BY <1>2, <2>1, <2>2, <3>1, <3>2 DEF Represents, LevelsOK
  <2> QED BY <2>2, <2>3, <2>4, <2>5
<1>5. SkipListHoldsFreeBins
  <2>1. OnLevel(0) = avail
    BY <1>1, <1>2, LevelFacts, LinksFacts DEF Represents, LevelsOK
  <2> QED BY <1>1, <2>1 DEF SkipListHoldsFreeBins, OwnersInv
<1>6. ASSUME NEW i \in Level PROVE fwd[SkipHead][i] = Nil <=> on[i] = {}
  <2>1. on[i] \subseteq avail /\ IsNextOf(SkipHead, fwd[SkipHead][i], on[i], rank)
    BY <1>1, <1>2, LevelNodes
  <2>2. Nil \notin on[i]
    BY <1>1, <2>1, LevelFacts DEF BigTypeOK
  <2>3. Behind(SkipHead, on[i], rank) = on[i]
    <3>1. rank[SkipHead] = 0 /\ \A q \in avail : rank[q] \in Nat /\ rank[q] >= 1
      BY <1>1, <1>2, LevelNodes, LevelFacts DEF Represents, RankOK
    <3> QED BY <2>1, <3>1 DEF Behind
  <2> QED BY <2>1, <2>2, <2>3 DEF IsNextOf
<1>7. LevelTight
  BY <1>2, <1>3, <1>6 DEF LevelTight, Represents, LevelsOK
<1> QED BY <1>1, <1>4, <1>5, <1>7 DEF SkipListExact

LEMMA BigInvBestFit == BigInv => FindBestIsBestFit
<1> SUFFICES ASSUME BigInv, NEW size \in BigRequest
             PROVE  IF Enough(size) = {} THEN FindBest(size) = Nil
                    ELSE /\ FindBest(size) \in Enough(size)
                         /\ \A q \in Enough(size) : hdrSize[FindBest(size)] <= hdrSize[q]
  BY DEF FindBestIsBestFit, Enough
<1>1. BigTypeOK /\ size \in Int
  BY BigRequestAssumption DEF BigInv
<1>2. PICK rank \in [Node -> Nat], on \in [Level -> SUBSET Page] : Represents(rank, on)
  BY DEF BigInv, SkipListInv
<1>3. PICK p : p = FindBest(size)
  OBVIOUS
<1>4. IF Enough(size) = {} THEN p = Nil ELSE IsFirstFit(p, size, rank)
  BY <1>1, <1>2, <1>3, FindBestIsFirstFit
<1>5. ASSUME IsFirstFit(p, size, rank), NEW q \in Enough(size)
      PROVE  hdrSize[p] <= hdrSize[q]
  <2>1. p \in avail /\ q \in avail /\ rank[p] <= rank[q]
    BY <1>5 DEF IsFirstFit, Enough
  <2>2. /\ rank[p] \in Int /\ rank[q] \in Int
        /\ hdrSize[p] \in Int /\ hdrSize[q] \in Int
    BY <1>1, <1>2, <2>1, LevelNodes, LevelFacts
  <2>3. CASE rank[p] = rank[q]
    BY <1>2, <2>1, <2>2, <2>3 DEF Represents, RankOK
  <2>4. CASE rank[p] < rank[q]
    BY <1>2, <2>1, <2>4 DEF Represents, RankOK
  <2> QED BY <2>1, <2>2, <2>3, <2>4
<1> QED BY <1>3, <1>4, <1>5 DEF IsFirstFit

LEMMA BigInvDeleteFinds == BigInv => DeleteFindsNode
<1> SUFFICES ASSUME BigInv, NEW size \in BigRequest, NEW p, p = FindBest(size), p # Nil
             PROVE  /\ fwd[Update(hdrSize[p])[0]][0] = p
                    /\ \A i \in 0 .. level :
                         p \in OnLevel(i) <=> fwd[Update(hdrSize[p])[i]][i] = p
  BY DEF DeleteFindsNode
<1>1. BigTypeOK /\ size \in Int
  BY BigRequestAssumption DEF BigInv
<1>2. PICK rank \in [Node -> Nat], on \in [Level -> SUBSET Page] : Represents(rank, on)
  BY DEF BigInv, SkipListInv
<1>3. IsFirstFit(p, size, rank)
  BY <1>1, <1>2, FindBestIsFirstFit
<1>4. \A i \in Level : p \in on[i] <=> fwd[Update(hdrSize[p])[i]][i] = p
  BY <1>1, <1>2, <1>3, SearchFindsFirstFit
<1>5. \A i \in Level : OnLevel(i) = on[i]
  BY <1>1, <1>2, LinksFacts
<1>6. 0 \in Level /\ p \in on[0] /\ 0 .. level \subseteq Level
  BY <1>1, <1>2, <1>3, BigRequestAssumption
  DEF IsFirstFit, Enough, Represents, LevelsOK, BigTypeOK, Level
<1> QED BY <1>4, <1>5, <1>6

\* SkipListExact: on every level the forward words lead through a list that is
\* sorted, ends, and lies within the one below; the lowest holds the bins that
\* are free and no others, and the list is no higher than its highest node.
THEOREM BigSkipListExact == BigSpec => []SkipListExact
BY BigInvariant, BigInvSkipListExact, PTL

\* FindBestIsBestFit: klmalloc_skip_list_findbest returns what a look at all
\* free bins would, so the heap grows only when none is large enough.
THEOREM BigBestFit == BigSpec => []FindBestIsBestFit
BY BigInvariant, BigInvBestFit, PTL

\* DeleteFindsNode: deletion, which looks for its node by size, stops right in
\* front of it on every level that has it.
THEOREM BigDeleteFindsNode == BigSpec => []DeleteFindsNode
BY BigInvariant, BigInvDeleteFinds, PTL
-----------------------------------------------------------------------------
(* The chain of all big bins.                                              *)

\* The big bins on either side of one, and its place between them.
Before(p) == {q \in BigPages : q < p}
After(p) == {q \in BigPages : q > p}

Chained(p) ==
  /\ IF Before(p) = {} THEN prev[p] = Nil
     ELSE prev[p] \in Before(p) /\ \A q \in Before(p) : q <= prev[p]
  /\ IF After(p) = {} THEN next[p] = Nil /\ newest = p
     ELSE next[p] \in After(p) /\ \A q \in After(p) : next[p] <= q

\* The chain is in the order of addresses, and its end is known to be none as
\* long as there is no big bin.
ChainInv == (\A p \in BigPages : Chained(p)) /\ (BigPages = {} => newest = Nil)

LEMMA ChainInvOrder == ChainInv => ChainInAddressOrder
BY DEF ChainInv, ChainInAddressOrder, Chained, Before, After

\* With that, the end of the chain is the last big bin.
LEMMA NewestIsLast ==
  ASSUME ChainInv, BigPages # {}
  PROVE  newest \in BigPages /\ \A q \in BigPages : q <= newest
<1>1. BigPages \in SUBSET Int /\ MaxPages \in Int /\ \A p \in BigPages : p <= MaxPages
  BY ConstantFacts DEF BigPages, Page
<1>2. PICK p \in BigPages : \A q \in BigPages : q <= p
  BY <1>1, GreatestNumber
<1>3. p \in Int /\ \A q \in BigPages : q \in Int /\ ~(q > p)
  BY <1>1, <1>2
<1>4. After(p) = {}
  BY <1>3 DEF After
<1> QED BY <1>2, <1>4 DEF ChainInv, Chained

\* The chain does not see what is not a big bin.
LEMMA ChainKept ==
  ASSUME ChainInv, BigPages' = BigPages, UNCHANGED <<prev, next, newest>>
  PROVE  ChainInv'
BY DEF ChainInv, Chained, Before, After

\* A bin that sbrk gives is behind all others, and is chained there.
LEMMA NewBinKeepsChain ==
  ASSUME BigTypeOK, OwnersInv, ChainInv, NEW size \in Int, NewBin(size)
  PROVE  ChainInv'
<1> PICK e : e = heapEnd
  OBVIOUS
<1>1. /\ e \in Page /\ BigBinSize(PagesFor(size)) > NUM_BINS
      /\ BigBinSize(PagesFor(size)) \in Int
  BY NewBinFacts
<1>2. /\ hdrSize' = [hdrSize EXCEPT ![e] = BigBinSize(PagesFor(size))]
      /\ prev' = [prev EXCEPT ![e] = newest]
      /\ next' = [p \in Page |-> IF p = e THEN Nil
                                 ELSE IF p = newest THEN e ELSE next[p]]
      /\ newest' = e
  BY DEF NewBin
<1>3. /\ BigPages \subseteq Page /\ BigPages \subseteq Int /\ e \in Int
      /\ \A p \in BigPages : p \in Int /\ p < e
  <2>1. \A p \in Page : p \in Int /\ (p >= heapEnd => ~IsBig(p))
    BY ConstantFacts DEF OwnersInv, IsBig, Untouched
  <2>2. heapEnd \in Int
    BY DEF BigTypeOK
  <2> QED BY <1>1, <2>1, <2>2 DEF BigPages
<1>4. BigPages' = BigPages \cup {e}
  <2>1. \A p \in Page : hdrSize'[p] = IF p = e THEN BigBinSize(PagesFor(size)) ELSE hdrSize[p]
    BY <1>1, <1>2 DEF BigTypeOK
  <2> QED BY <1>1, <2>1 DEF BigPages, IsBig
<1>5. \A p \in Page : /\ prev'[p] = IF p = e THEN newest ELSE prev[p]
                      /\ next'[p] = IF p = e THEN Nil
                                    ELSE IF p = newest THEN e ELSE next[p]
  BY <1>1, <1>2 DEF BigTypeOK
<1>6. Chained(e)'
  <2>1. Before(e)' = BigPages /\ After(e)' = {}
    <3>1. \A q \in BigPages \cup {e} : (q < e <=> q \in BigPages) /\ ~(q > e)
      BY <1>3
    <3> HIDE DEF BigPages
    <3> QED BY <1>4, <3>1 DEF Before, After
  <2>2. prev'[e] = newest /\ next'[e] = Nil /\ newest' = e
    BY <1>1, <1>2, <1>5
  <2>3. CASE BigPages = {}
    BY <2>1, <2>2, <2>3 DEF ChainInv, Chained
  <2>4. CASE BigPages # {}
    BY <2>1, <2>2, <2>4, NewestIsLast DEF Chained
  <2> QED BY <2>3, <2>4
<1>7. ASSUME NEW p \in BigPages PROVE Chained(p)'
  <2>1. p \in Page /\ p < e /\ p \in Int /\ p # e
    BY <1>3
  <2>2. Before(p)' = Before(p) /\ After(p)' = After(p) \cup {e}
    BY <1>3, <1>4, <2>1 DEF Before, After
  <2>3. prev'[p] = prev[p] /\ Chained(p)
    BY <1>5, <2>1 DEF ChainInv
  <2>4. CASE After(p) = {}
    <3>1. newest = p /\ next'[p] = e
      BY <1>5, <2>1, <2>3, <2>4 DEF Chained
    <3> QED BY <1>3, <2>2, <2>3, <2>4, <3>1 DEF Chained
  <2>5. CASE After(p) # {}
    <3>1. PICK q \in BigPages : q > p
      BY <2>5 DEF After
    <3>2. newest # p
      <4>1. q <= newest
        BY NewestIsLast
      <4> QED BY <1>3, <2>1, <3>1, <4>1
    <3>3. next'[p] = next[p] /\ next[p] \in After(p) /\ \A r \in After(p) : next[p] <= r
      BY <1>5, <2>1, <2>3, <2>5, <3>2 DEF Chained
    <3>4. next[p] \in BigPages
      BY <3>3 DEF After
    <3>5. next[p] <= e
      <4>1. PICK m \in BigPages : m = next[p]
        BY <3>4
      <4>2. m \in Int /\ e \in Int /\ m < e
        BY <1>3, <4>1
      <4> QED BY <4>1, <4>2
    <3> QED BY <2>2, <2>3, <3>3, <3>5 DEF Chained
  <2> QED BY <2>4, <2>5
<1> QED BY <1>4, <1>6, <1>7 DEF ChainInv

LEMMA ChainInit == BigBinsInit => ChainInv
BY ConstantFacts
DEF BigBinsInit, BigInit, HeapInit, ChainInv, BigPages, IsBig, Untouched

\* Every step keeps the chain: only a new bin enters it, and none leaves it.
LEMMA BigStepKeepsChain ==
  ASSUME BigInv, ChainInv, [AnyBigNext]_bigVars
  PROVE  ChainInv'
<1>1. BigTypeOK /\ OwnersInv
  BY DEF BigInv
<1>2. ASSUME UNCHANGED hdrSize, UNCHANGED chainVars PROVE ChainInv'
  BY <1>2, ChainKept DEF chainVars, BigPages, IsBig
<1>3. ASSUME NEW size \in Int, ReuseBin(size) PROVE ChainInv'
  BY <1>2, <1>3 DEF ReuseBin
<1>4. ASSUME NEW size \in Int, NewBin(size) PROVE ChainInv'
  BY <1>1, <1>4, NewBinKeepsChain
<1>5. ASSUME NEW p \in bigLive, NEW lv \in Level, FreeBig(p, lv) PROVE ChainInv'
  BY <1>2, <1>5 DEF FreeBig
<1>6. ASSUME NEW b \in SmallBin, GrowForSmallBin(b) PROVE ChainInv'
  <2>1. /\ heapEnd \in Page /\ hdrSize' = [hdrSize EXCEPT ![heapEnd] = b]
        /\ UNCHANGED <<prev, next, newest>>
    BY <1>1, <1>6, ConstantFacts DEF GrowForSmallBin, Sbrk, BigTypeOK, Page, chainVars
  <2>2. \A p \in Page : hdrSize'[p] > NUM_BINS <=> hdrSize[p] > NUM_BINS
    <3>1. hdrSize[heapEnd] = Untouched /\ heapEnd \in Nat
      BY <1>1, <2>1, ConstantFacts DEF OwnersInv
    <3> QED BY <1>1, <2>1, <3>1, ConstantFacts DEF BigTypeOK, Untouched
  <2>3. BigPages' = BigPages
    BY <2>2 DEF BigPages, IsBig
  <2> QED BY <2>1, <2>3, ChainKept
<1>7. CASE UNCHANGED bigVars
  BY <1>2, <1>7 DEF bigVars
<1> QED BY <1>3, <1>4, <1>5, <1>6, <1>7 DEF AnyBigNext, MallocBig

\* ChainInAddressOrder: prev and next chain the big bins in the order of their
\* addresses, whichever are free.
THEOREM BigChain == BigSpec => []ChainInAddressOrder
<1>1. BigBinsInit => ChainInv
  BY ChainInit
<1>2. BigInv /\ ChainInv /\ [BigNext]_bigVars => ChainInv'
  BY BigNextIsAnyBigNext, BigStepKeepsChain
<1>3. ChainInv => ChainInAddressOrder
  BY ChainInvOrder
<1> QED BY <1>1, <1>2, <1>3, BigInvariant, PTL DEF BigSpec
=============================================================================
