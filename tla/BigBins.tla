------------------------------ MODULE BigBins ------------------------------
(***************************************************************************)
(* The big bins of kernel/core/alloc.c.  A big bin is a run of pages with  *)
(* one header and one cell.  The free ones are kept in a skip list ordered *)
(* by size, from which klmalloc takes the best fit.  All big bins, free or *)
(* not, are chained in the order sbrk gave them.                           *)
(*                                                                         *)
(* A bin is named by its first page.  Every read of a forward word that    *)
(* the code makes is a read of fwd, and a word that was never written is   *)
(* Junk: reading one where a link is expected stops TLC.                   *)
(***************************************************************************)
EXTENDS HeapPages, FiniteSets

CONSTANTS
  SKIP_MAX_LEVEL,   \* 6
  BigRequest        \* bound: the sizes that callers ask for

ASSUME BigRequestAssumption ==
  /\ SKIP_MAX_LEVEL \in Nat
  /\ BigRequest \subseteq 1 .. WORD - 1

Nil == -1                     \* NULL
SkipHead == -2                \* &klmalloc_big_bins.head
Junk == -3                    \* memory that sbrk handed out as it was
Level == 0 .. SKIP_MAX_LEVEL
Node == Page \cup {SkipHead}

VARIABLES
  fwd,      \* header->forward of every node
  level,    \* klmalloc_big_bins.level
  avail,    \* the bins whose header->head is not NULL
  prev,     \* header->prev
  next,     \* header->next
  newest,   \* klmalloc_newest_big
  bigLive   \* the bins that callers own (history: no code keeps it)

skipVars == <<fwd, level>>
chainVars == <<prev, next, newest>>
bigVars == <<heapEnd, hdrSize, skipVars, chainVars, avail, bigLive>>

BigInit ==
  /\ fwd = [n \in Node |-> [i \in Level |-> IF n = SkipHead THEN Nil ELSE Junk]]
  /\ level = 0
  /\ avail = {}
  /\ prev = [p \in Page |-> Junk]
  /\ next = [p \in Page |-> Junk]
  /\ newest = Nil
  /\ bigLive = {}
-----------------------------------------------------------------------------
(* The search that findbest, insert and delete have in common.             *)

\* A mistake: <= for <, so that the search steps past bins of its size.
Walk_TooFar(i, from, size) ==
  LET at[k \in 0 .. MaxPages] ==
        IF k = 0 THEN from
        ELSE LET n == at[k - 1]
                 m == fwd[n][i]
             IN IF m # Nil /\ hdrSize[m] <= size THEN m ELSE n
  IN at[MaxPages]

\* while (node->forward[i] && node->forward[i]->size < size) step forward.
\* A list that is one ends before the turns do (SkipListSorted).
Walk(i, from, size) ==
  LET at[k \in 0 .. MaxPages] ==
        IF k = 0 THEN from
        ELSE LET n == at[k - 1]
                 m == fwd[n][i]
             IN IF m # Nil /\ hdrSize[m] < size THEN m ELSE n
  IN at[MaxPages]

\* update[i]: where the search stands when it leaves level i.
Update(size) ==
  LET u[i \in Level] ==
        IF i > level THEN SkipHead
        ELSE Walk(i, IF i = level THEN SkipHead ELSE u[i + 1], size)
  IN u

FindBest(size) == fwd[Update(size)[0]][0]
-----------------------------------------------------------------------------
(* Insertion and deletion.                                                 *)

\* klmalloc_skip_list_insert, with lv what klmalloc_random_level returns.
\* Update gives the list's head for the levels above the list's own.
SkipInsert(p, lv) ==
  LET u == Update(hdrSize[p])
  IN IF fwd[u[0]][0] = p
       THEN UNCHANGED skipVars
       ELSE /\ level' = IF lv > level THEN lv ELSE level
            /\ fwd' = [n \in Node |-> [i \in Level |->
                         IF i <= lv /\ n = p THEN fwd[u[i]][i]
                         ELSE IF i <= lv /\ n = u[i] THEN p
                         ELSE fwd[n][i]]]

\* A mistake: the list keeps the height of a node that is gone.
SkipDelete_KeepsLevel(p) ==
  LET u == Update(hdrSize[p])
      linked == {i \in 0 .. level : \A j \in 0 .. i : fwd[u[j]][j] = p}
  IN /\ fwd' = [n \in Node |-> [i \in Level |->
                  IF i \in linked /\ n = u[i] THEN fwd[p][i]
                  ELSE IF n = p THEN Junk ELSE fwd[n][i]]]
     /\ UNCHANGED level

\* A mistake: the level is lowered without a look at level > 0.
SkipDelete_NoFloor(p) ==
  LET u == Update(hdrSize[p])
      linked == {i \in 0 .. level : \A j \in 0 .. i : fwd[u[j]][j] = p}
      used(f) == {-1} \cup {i \in 0 .. level : f[SkipHead][i] # Nil}
  IN /\ fwd' = [n \in Node |-> [i \in Level |->
                  IF i \in linked /\ n = u[i] THEN fwd[p][i]
                  ELSE IF n = p THEN Junk ELSE fwd[n][i]]]
     /\ level' = CHOOSE i \in used(fwd') : \A j \in used(fwd') : j <= i

\* klmalloc_skip_list_delete.  The levels that name p are unlinked up to the
\* first one that does not; then the empty levels at the top are dropped.
\* p's own forward words stay, but are as good as Junk from here on: nothing
\* may read them before the next insertion writes them.
\* The loop that looks for p behind update[0] does not run (DeleteFindsNode).
SkipDelete(p) ==
  LET u == Update(hdrSize[p])
      linked == {i \in 0 .. level : \A j \in 0 .. i : fwd[u[j]][j] = p}
      used(f) == {0} \cup {i \in 0 .. level : f[SkipHead][i] # Nil}
  IN /\ fwd' = [n \in Node |-> [i \in Level |->
                  IF i \in linked /\ n = u[i] THEN fwd[p][i]
                  ELSE IF n = p THEN Junk ELSE fwd[n][i]]]
     /\ level' = CHOOSE i \in used(fwd') : \A j \in used(fwd') : j <= i
-----------------------------------------------------------------------------
(* klmalloc and klfree of a big bin.                                       *)

\* The best fit is taken off the skip list and its only cell popped.
ReuseBin(size) ==
  LET p == FindBest(size)
  IN /\ p # Nil
     /\ SkipDelete(p)
     /\ avail' = avail \ {p}
     /\ bigLive' = bigLive \cup {p}
     /\ UNCHANGED <<heapEnd, hdrSize, chainVars>>

\* A mistake: the former newest bin is not told of its successor.
NewBin_NoNext(size) ==
  /\ FindBest(size) = Nil
  /\ Sbrk(PagesFor(size))
  /\ hdrSize' = [hdrSize EXCEPT ![heapEnd] = BigBinSize(PagesFor(size))]
  /\ prev' = [prev EXCEPT ![heapEnd] = newest]
  /\ next' = [next EXCEPT ![heapEnd] = Nil]
  /\ newest' = heapEnd
  /\ bigLive' = bigLive \cup {heapEnd}
  /\ UNCHANGED <<skipVars, avail>>

\* No free bin fits: sbrk, and chain the new bin behind the newest.  Its
\* forward words stay as they are.
NewBin(size) ==
  /\ FindBest(size) = Nil
  /\ Sbrk(PagesFor(size))
  /\ hdrSize' = [hdrSize EXCEPT ![heapEnd] = BigBinSize(PagesFor(size))]
  /\ prev' = [prev EXCEPT ![heapEnd] = newest]
  /\ next' = [p \in Page |-> IF p = heapEnd THEN Nil
                             ELSE IF p = newest THEN heapEnd ELSE next[p]]
  /\ newest' = heapEnd
  /\ bigLive' = bigLive \cup {heapEnd}
  /\ UNCHANGED <<skipVars, avail>>

MallocBig(size) == ReuseBin(size) \/ NewBin(size)

\* klfree of a big bin its caller owns.
FreeBig(p, lv) ==
  /\ p \in bigLive
  /\ IsBig(p)
  /\ SkipInsert(p, lv)
  /\ avail' = avail \cup {p}
  /\ bigLive' = bigLive \ {p}
  /\ UNCHANGED <<heapEnd, hdrSize, chainVars>>

\* The other half of the allocator takes a page for a small bin.
GrowForSmallBin(b) ==
  /\ Sbrk(1)
  /\ hdrSize' = [hdrSize EXCEPT ![heapEnd] = b]
  /\ UNCHANGED <<skipVars, chainVars, avail, bigLive>>

BigNext ==
  \/ \E size \in BigRequest : MallocBig(size)
  \/ \E p \in bigLive, lv \in Level : FreeBig(p, lv)
  \/ \E b \in SmallBin : GrowForSmallBin(b)

BigBinsInit == HeapInit /\ BigInit

BigSpec == BigBinsInit /\ [][BigNext]_bigVars
-----------------------------------------------------------------------------
(* Invariants.                                                             *)

BigPages == {p \in Page : IsBig(p)}

BigTypeOK ==
  /\ heapEnd \in 0 .. MaxPages
  /\ hdrSize \in [Page -> Int]
  /\ fwd \in [Node -> [Level -> Page \cup {Nil, Junk}]]
  /\ level \in Level
  /\ avail \subseteq Page /\ bigLive \subseteq Page
  /\ prev \in [Page -> Page \cup {Nil, Junk}]
  /\ next \in [Page -> Page \cup {Nil, Junk}]
  /\ newest \in Page \cup {Nil}

\* The first nodes of level i, as many as there can be without a cycle; the
\* sequence ends in Nil if the level is a list.
Links(i) ==
  LET at[k \in 0 .. MaxPages + 1] ==
        IF k = 0 THEN SkipHead
        ELSE IF at[k - 1] \in Node THEN fwd[at[k - 1]][i] ELSE at[k - 1]
  IN at

OnLevel(i) == {Links(i)[k] : k \in 1 .. MaxPages + 1} \ {Nil}

\* Every level of the skip list is a finite list, ordered by size, of nodes
\* that are also on the level below: the search relies on all three.
SkipListSorted ==
  \A i \in 0 .. level :
    /\ Links(i)[MaxPages + 1] = Nil
    /\ OnLevel(i) \subseteq Page
    /\ \A k \in 1 .. MaxPages :
         Links(i)[k + 1] \in Page => hdrSize[Links(i)[k]] <= hdrSize[Links(i)[k + 1]]
    /\ i > 0 => OnLevel(i) \subseteq OnLevel(i - 1)

\* A bin is on the skip list if and only if its cell is free, and otherwise
\* exactly one caller owns it: no bin is lost, none is handed out twice.
SkipListHoldsFreeBins ==
  /\ OnLevel(0) = avail
  /\ avail \cap bigLive = {}
  /\ avail \cup bigLive = BigPages

\* The list is as high as its highest node, and its head's words above that
\* are NULL: insertion copies them into a node that makes the list higher.
LevelTight ==
  /\ level > 0 => fwd[SkipHead][level] # Nil
  /\ \A i \in Level : i > level => fwd[SkipHead][i] = Nil

\* After any sequence of insertions and deletions, with nodes of any height, the
\* skip list is one: sorted on each level, of the free bins and no others, and as
\* high as its highest node.
SkipListExact == BigTypeOK /\ SkipListSorted /\ SkipListHoldsFreeBins /\ LevelTight

\* The skip-list search finds what a look at all free bins would: a smallest
\* one among those that are large enough.  So the heap grows for a big
\* request only when no free bin can serve it.
FindBestIsBestFit ==
  \A size \in BigRequest :
    LET enough == {q \in avail : hdrSize[q] >= size}
        p == FindBest(size)
    IN IF enough = {} THEN p = Nil
       ELSE p \in enough /\ \A q \in enough : hdrSize[p] <= hdrSize[q]

\* klmalloc_skip_list_delete looks for its node by size, while other nodes of
\* the same size may be on the list.  It is given only nodes that findbest
\* returned, and those are the first of their size: at level 0 the search
\* stops right before them, and at a higher level it stops before them or
\* they are not on it.  Were it given another one, it would leave the node
\* linked from its true predecessor.
DeleteFindsNode ==
  \A size \in BigRequest :
    LET p == FindBest(size)
        u == Update(hdrSize[p])
    IN p # Nil =>
         /\ fwd[u[0]][0] = p
         /\ \A i \in 0 .. level : p \in OnLevel(i) <=> fwd[u[i]][i] = p

\* prev and next chain the big bins in the order of their addresses, ending
\* at klmalloc_newest_big.  (The code that goes along the chain, to split and
\* join bins, is compiled out.)
ChainInAddressOrder ==
  \A p \in BigPages :
    LET before == {q \in BigPages : q < p}
        after == {q \in BigPages : q > p}
    IN /\ IF before = {} THEN prev[p] = Nil
          ELSE prev[p] \in before /\ \A q \in before : q <= prev[p]
       /\ IF after = {} THEN next[p] = Nil /\ newest = p
          ELSE next[p] \in after /\ \A q \in after : next[p] <= q
=============================================================================
