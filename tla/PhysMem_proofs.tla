--------------------------- MODULE PhysMem_proofs ---------------------------
(***************************************************************************)
(* Proofs for PhysMem: every page is mapped to the frame of its own        *)
(* number, and the mapped pages are those below the heap's end, for every  *)
(* page size, memory, module and sequence of sbrk's.                       *)
(***************************************************************************)
EXTENDS PhysMem, TLAPS

\* The number of pages that have been given a frame.
MappedPages == PageOf(IF pc = "idle" THEN heapEnd ELSE cursor)

\* The words of mem.c that need no other's value to keep their types.
WordTypes ==
  /\ pc \in {"start", "loaded", "map", "paging", "idle", "sbrk", "halted"}
  /\ placement \in Nat /\ heapEnd \in Nat /\ cursor \in Nat
  /\ ramdisk \in [base : Nat, len : Nat]
  /\ nframes \in 0 .. Entries * Entries /\ framesAt \in Nat /\ dirAt \in Nat
  /\ tables \in [TableIndex -> Nat]

\* Pages and frames are handed out together, upward from 0.
MappedInOrder ==
  /\ frames = 0 .. MappedPages - 1
  /\ DOMAIN pte = frames
  /\ \A page \in DOMAIN pte : pte[page] = page
  /\ frames \subseteq 0 .. nframes - 1

\* Where the loops are.  The placement pointer does not start a page until the
\* first table is made, in the first turn; from then on it does, and the loop
\* of paging_install meets it exactly.
LoopsInStep ==
  /\ cursor % PAGE_SIZE = 0
  /\ pc \in {"start", "loaded"} => cursor = 0 /\ tables = [t \in TableIndex |-> NULL]
  /\ pc = "map" =>
       /\ PAGE_SIZE <= placement /\ cursor <= placement
       /\ \/ cursor = 0 /\ tables = [t \in TableIndex |-> NULL]
          \/ placement % PAGE_SIZE = 0
  /\ pc = "paging" => cursor = placement /\ placement > 0
  /\ HeapReady => heapEnd % PAGE_SIZE = 0 /\ heapEnd > 0
  /\ pc = "sbrk" => cursor <= heapEnd

PhysInv == WordTypes /\ MappedInOrder /\ LoopsInStep
-----------------------------------------------------------------------------
(* Multiples of the page size.                                             *)

LEMMA ProductBelow ==
  ASSUME NEW n \in Nat \ {0}, NEW j \in Int, NEW k \in Int, j * n < k * n
  PROVE  j < k
<1> SUFFICES ASSUME j >= k PROVE FALSE
  OBVIOUS
<1>1. PICK d \in Nat : j = k + d
  BY j - k \in Nat
<1>2. j * n = k * n + d * n /\ d * n \in Nat
  BY <1>1
<1>3. QED
  BY <1>2

LEMMA DivMod ==
  ASSUME NEW n \in Nat \ {0}, NEW a \in Nat
  PROVE  /\ a \div n \in Nat /\ a % n \in 0 .. n - 1
         /\ a = (a \div n) * n + (a % n)
OBVIOUS

\* Dividing a multiple is exact.
LEMMA DivideMultiple ==
  ASSUME NEW n \in Nat \ {0}, NEW k \in Nat
  PROVE  (k * n) \div n = k /\ (k * n) % n = 0
<1> DEFINE q == (k * n) \div n
           r == (k * n) % n
<1>1. q \in Nat /\ r \in 0 .. n - 1 /\ k * n = q * n + r
  BY k * n \in Nat, DivMod
<1> HIDE DEF q, r
<1>2. k < q + 1
  BY <1>1, k * n < (q + 1) * n, ProductBelow
<1>3. q < k + 1
  BY <1>1, q * n < (k + 1) * n, ProductBelow
<1>4. q = k /\ r = 0
  BY <1>1, <1>2, <1>3
<1>5. QED
  BY <1>4 DEF q, r

\* Where a page starts is a multiple of its size.
LEMMA Multiple ==
  ASSUME NEW n \in Nat \ {0}, NEW a \in Nat, a % n = 0
  PROVE  a \div n \in Nat /\ a = (a \div n) * n
BY DivMod

\* Adding pages to where a page starts.
LEMMA AddPages ==
  ASSUME NEW a \in Nat, a % PAGE_SIZE = 0, NEW m \in Nat
  PROVE  /\ (a + m * PAGE_SIZE) % PAGE_SIZE = 0
         /\ PageOf(a + m * PAGE_SIZE) = PageOf(a) + m
<1> USE PhysAssumption
<1>1. PageOf(a) \in Nat /\ a = PageOf(a) * PAGE_SIZE
  BY Multiple DEF PageOf
<1>2. a + m * PAGE_SIZE = (PageOf(a) + m) * PAGE_SIZE
  <2>1. \A q \in Nat : q * PAGE_SIZE + m * PAGE_SIZE = (q + m) * PAGE_SIZE
    OBVIOUS
  <2>2. QED
    BY <1>1, <2>1
<1>3. PageOf(a) + m \in Nat
  BY <1>1
<1>4. QED
  BY <1>2, <1>3, DivideMultiple DEF PageOf

\* The next page.
LEMMA AddPage ==
  ASSUME NEW a \in Nat, a % PAGE_SIZE = 0
  PROVE  (a + PAGE_SIZE) % PAGE_SIZE = 0 /\ PageOf(a + PAGE_SIZE) = PageOf(a) + 1
<1>1. /\ (a + 1 * PAGE_SIZE) % PAGE_SIZE = 0
      /\ PageOf(a + 1 * PAGE_SIZE) = PageOf(a) + 1
  <2>1. 1 \in Nat
    OBVIOUS
  <2>2. QED
    BY <2>1, AddPages, Zenon
<1>2. 1 * PAGE_SIZE = PAGE_SIZE
  BY PhysAssumption
<1>3. QED
  BY <1>1, <1>2, Zenon

\* Of two places where pages start, the lower is a page or more below.
LEMMA NextPageAtMost ==
  ASSUME NEW a \in Nat, NEW b \in Nat, a % PAGE_SIZE = 0, b % PAGE_SIZE = 0, a < b
  PROVE  a + PAGE_SIZE <= b
<1> USE PhysAssumption
<1> DEFINE j == a \div PAGE_SIZE
           k == b \div PAGE_SIZE
<1>1. j \in Nat /\ a = j * PAGE_SIZE
  BY Multiple
<1>2. k \in Nat /\ b = k * PAGE_SIZE
  BY Multiple
<1> HIDE DEF j, k
<1>3. j < k
  BY <1>1, <1>2, ProductBelow
<1>4. PICK d \in Nat : k = j + 1 + d
  BY <1>1, <1>2, <1>3, k - j - 1 \in Nat
<1>5. k * PAGE_SIZE = j * PAGE_SIZE + PAGE_SIZE + d * PAGE_SIZE /\ d * PAGE_SIZE \in Nat
  BY <1>1, <1>4
<1>6. QED
  BY <1>1, <1>2, <1>5

\* PageStart rounds down.
LEMMA PageStartAligned ==
  ASSUME NEW a \in Nat
  PROVE  /\ PageStart(a) \in 0 .. a /\ PageStart(a) % PAGE_SIZE = 0
         /\ a % PAGE_SIZE = 0 => PageStart(a) = a
<1> USE PhysAssumption
<1>1. a \div PAGE_SIZE \in Nat /\ a % PAGE_SIZE \in 0 .. PAGE_SIZE - 1
      /\ a = (a \div PAGE_SIZE) * PAGE_SIZE + (a % PAGE_SIZE)
  BY DivMod
<1>2. PageStart(a) = (a \div PAGE_SIZE) * PAGE_SIZE
  BY <1>1 DEF PageStart
<1>3. PageStart(a) % PAGE_SIZE = 0
  BY <1>1, <1>2, DivideMultiple
<1>4. QED
  BY <1>1, <1>2, <1>3 DEF PageStart
-----------------------------------------------------------------------------
(* The helpers of the loops.                                               *)

\* get_page keeps the placement pointer and the tables what they are, and
\* leaves the pointer where a page starts if it was there or if it made a table.
LEMMA GetPageKeeps ==
  ASSUME NEW dir \in [placement : Nat, tables : [TableIndex -> Nat]],
         NEW page \in Nat
  PROVE  /\ GetPage(dir, page) \in [placement : Nat, tables : [TableIndex -> Nat]]
         /\ PAGE_SIZE <= dir.placement =>
              /\ PAGE_SIZE <= GetPage(dir, page).placement
              /\ dir.placement % PAGE_SIZE = 0 =>
                   /\ GetPage(dir, page).placement % PAGE_SIZE = 0
                   /\ dir.placement <= GetPage(dir, page).placement
              /\ dir.tables[TableOf(page)] = NULL =>
                   GetPage(dir, page).placement % PAGE_SIZE = 0
<1> USE PhysAssumption
<1> DEFINE table == AlignedPlace(dir.placement)
<1>1. dir.placement \in Nat /\ dir.tables \in [TableIndex -> Nat]
  OBVIOUS
<1>2. table \in Nat
  BY <1>1, PageStartAligned DEF AlignedPlace
<1>3. PAGE_SIZE <= dir.placement =>
        /\ table % PAGE_SIZE = 0
        /\ dir.placement % PAGE_SIZE = 0 => table = dir.placement
  BY <1>1, PageStartAligned DEF AlignedPlace
<1> HIDE DEF table
<1>4. table % PAGE_SIZE = 0 => (table + PAGE_SIZE) % PAGE_SIZE = 0
  BY <1>2, AddPage
<1>5. CASE dir.tables[TableOf(page)] # NULL
  BY <1>1, <1>5 DEF GetPage
<1>6. CASE dir.tables[TableOf(page)] = NULL
  <2>1. GetPage(dir, page) = [placement |-> table + PAGE_SIZE,
                              tables |-> [dir.tables EXCEPT ![TableOf(page)] = table]]
    BY <1>6 DEF GetPage, table
  <2>2. [dir.tables EXCEPT ![TableOf(page)] = table] \in [TableIndex -> Nat]
    BY <1>1, <1>2
  <2>3. QED
    BY <1>1, <1>2, <1>3, <1>4, <2>1, <2>2
<1>7. QED
  BY <1>5, <1>6

\* The number of a page is a natural number.
LEMMA PageOfNat == ASSUME NEW a \in Nat PROVE PageOf(a) \in Nat
BY PhysAssumption, DivMod DEF PageOf

\* The frames of the words that memory fills are frames of it.
LEMMA BitmapWithinMemory ==
  ASSUME nframes \in Nat
  PROVE  /\ WORD_BITS * (nframes \div WORD_BITS) \in Nat
         /\ WORD_BITS * (nframes \div WORD_BITS) <= nframes
<1>1. /\ nframes \div WORD_BITS \in Nat /\ nframes % WORD_BITS \in Nat
      /\ nframes = (nframes \div WORD_BITS) * WORD_BITS + (nframes % WORD_BITS)
  BY PhysAssumption, DivMod
<1>2. QED
  BY <1>1, PhysAssumption

\* When the frames below a number are taken, first_frame finds that number.
LEMMA FirstFrameIsNext ==
  ASSUME nframes \in Nat, NEW n \in Nat, frames = 0 .. n - 1, FreeFrames # {}
  PROVE  FirstFrame = n /\ n < nframes
<1> DEFINE top == WORD_BITS * (nframes \div WORD_BITS)
<1>1. top \in Nat /\ top <= nframes
  BY BitmapWithinMemory
<1>2. FreeFrames = {f \in 0 .. top - 1 : f \notin frames}
  BY DEF FreeFrames
<1> HIDE DEF top
<1>3. n \in FreeFrames /\ n < nframes
  BY <1>1, <1>2
<1>4. \A f \in FreeFrames : n <= f /\ f \in Nat
  BY <1>1, <1>2
<1>5. FirstFrame \in FreeFrames /\ \A g \in FreeFrames : FirstFrame <= g
  BY <1>3, <1>4 DEF FirstFrame
<1>6. QED
  BY <1>3, <1>4, <1>5

\* The next page gets the frame of its own number, or the kernel halts.
LEMMA AllocFrameInOrder ==
  ASSUME PhysInv, pc \in {"map", "sbrk"}, AllocFrame(PageOf(cursor))
  PROVE  \/ pc' = "halted" /\ UNCHANGED <<frames, pte>>
         \/ /\ pc' = pc
            /\ frames' = 0 .. PageOf(cursor) /\ DOMAIN pte' = frames'
            /\ \A page \in DOMAIN pte' : pte'[page] = page
            /\ frames' \subseteq 0 .. nframes - 1
<1> DEFINE n == PageOf(cursor)
<1>1. n \in Nat /\ nframes \in Nat
  BY PageOfNat, PhysAssumption DEF PhysInv, WordTypes
<1>2. /\ frames = 0 .. n - 1 /\ DOMAIN pte = frames
      /\ \A page \in DOMAIN pte : pte[page] = page
      /\ frames \subseteq 0 .. nframes - 1
  BY DEF PhysInv, MappedInOrder, MappedPages
<1> HIDE DEF n
<1>3. ~HasFrame(n)
  BY <1>1, <1>2 DEF HasFrame
<1>4. CASE FreeFrames = {}
  BY <1>3, <1>4 DEF AllocFrame, n
<1>5. CASE FreeFrames # {}
  <2>1. FirstFrame = n /\ n < nframes
    BY <1>1, <1>2, <1>5, FirstFrameIsNext
  <2>2. /\ pc' = pc /\ frames' = frames \cup {n}
        /\ pte' = [p \in DOMAIN pte \cup {n} |-> IF p = n THEN n ELSE pte[p]]
    BY <1>3, <1>5, <2>1 DEF AllocFrame, n
  <2>3. frames' = 0 .. n /\ frames' \subseteq 0 .. nframes - 1
    BY <1>1, <1>2, <2>1, <2>2
  <2>4. DOMAIN pte' = frames' /\ \A page \in DOMAIN pte' : pte'[page] = page
    BY <1>2, <2>2
  <2>5. QED
    BY <2>2, <2>3, <2>4 DEF n
<1>6. QED
  BY <1>4, <1>5
-----------------------------------------------------------------------------
(* The invariant is inductive.                                             *)

\* A state that changed none of the words that the invariant is about.
LEMMA PhysStutter == PhysInv /\ UNCHANGED vars => PhysInv'
BY DEF PhysInv, WordTypes, MappedInOrder, MappedPages, LoopsInStep, HeapReady, PageOf, vars, dirVars

\* main takes the module over, or there is none.
LEMMA StartKeeps ==
  ASSUME PhysInv, StartOther \/ \E size \in ModuleSize : StartMultiboot(size)
  PROVE  PhysInv'
<1>1. /\ placement' \in Nat /\ ramdisk' \in [base : Nat, len : Nat]
      /\ pc = "start" /\ pc' = "loaded"
      /\ UNCHANGED <<dirVars, tables, frames, pte, heapEnd, cursor>>
  BY PhysAssumption DEF StartOther, StartMultiboot, PhysInv, WordTypes
<1>2. WordTypes'
  BY <1>1 DEF PhysInv, WordTypes, dirVars
<1>3. MappedInOrder' /\ LoopsInStep'
  BY <1>1 DEF PhysInv, MappedInOrder, MappedPages, LoopsInStep, HeapReady, PageOf, dirVars
<1>4. QED
  BY <1>2, <1>3 DEF PhysInv

\* The bitmap and the directory are placed, and nothing is mapped yet.
LEMMA PagingInstallKeeps ==
  ASSUME PhysInv, NEW memory \in Memory, PagingInstall(memory)
  PROVE  PhysInv'
<1> USE PhysAssumption
<1>1. placement \in Nat /\ memory \in Nat /\ memory <= Entries * Entries
  <2>1. Entries \in Nat
    BY DivMod DEF Entries
  <2>2. Entries * Entries \in Nat
    BY <2>1
  <2>3. QED
    BY <2>2 DEF PhysInv, WordTypes
<1>2. dirAt' \in Nat /\ placement' \in Nat /\ PAGE_SIZE <= placement'
  <2>1. memory \div WORD_BITS \in Nat
    BY <1>1, DivMod
  <2>2. dirAt' \in Nat
    BY <1>1, <2>1, PageStartAligned DEF PagingInstall, AlignedPlace
  <2>3. QED
    BY <2>2 DEF PagingInstall, DIR_SIZE
<1>3. /\ cursor = 0 /\ tables = [t \in TableIndex |-> NULL]
      /\ frames = {} /\ DOMAIN pte = {}
  <2>1. cursor = 0 /\ tables = [t \in TableIndex |-> NULL]
    BY DEF PagingInstall, PhysInv, LoopsInStep
  <2>2. MappedPages = 0
    <3>1. 0 * PAGE_SIZE = 0
      OBVIOUS
    <3>2. QED
      BY <2>1, <3>1, DivideMultiple DEF MappedPages, PageOf, PagingInstall
  <2>3. QED
    BY <2>1, <2>2 DEF PhysInv, MappedInOrder
<1>4. WordTypes'
  BY <1>1, <1>2 DEF PhysInv, WordTypes, PagingInstall
<1>5. MappedInOrder'
  <2>1. MappedPages' = MappedPages
    BY DEF PagingInstall, MappedPages, PageOf
  <2>2. QED
    BY <1>3, <2>1 DEF PagingInstall, PhysInv, MappedInOrder
<1>6. LoopsInStep'
  BY <1>2, <1>3 DEF PhysInv, LoopsInStep, WordTypes, PagingInstall, HeapReady
<1>7. QED
  BY <1>4, <1>5, <1>6 DEF PhysInv

\* What a turn of either loop does with a page, the frame found or not.
LEMMA TurnMapsPage ==
  ASSUME PhysInv, pc \in {"map", "sbrk"}, AllocFrame(PageOf(cursor)),
         cursor' = IF pc' = "halted" THEN cursor ELSE cursor + PAGE_SIZE,
         UNCHANGED <<heapEnd, nframes>>
  PROVE  MappedInOrder' /\ cursor' % PAGE_SIZE = 0 /\ cursor' \in Nat
<1> USE PhysAssumption
<1>1. cursor \in Nat /\ cursor % PAGE_SIZE = 0 /\ PageOf(cursor) \in Nat
  BY PageOfNat DEF PhysInv, WordTypes, LoopsInStep
<1>2. CASE pc' = "halted" /\ UNCHANGED <<frames, pte>>
  BY <1>1, <1>2 DEF PhysInv, MappedInOrder, MappedPages, PageOf
<1>3. CASE pc' = pc /\ frames' = 0 .. PageOf(cursor) /\ DOMAIN pte' = frames'
           /\ (\A page \in DOMAIN pte' : pte'[page] = page)
           /\ frames' \subseteq 0 .. nframes - 1
  <2>1. cursor' = cursor + PAGE_SIZE
    BY <1>3
  <2>2. cursor' % PAGE_SIZE = 0 /\ PageOf(cursor') = PageOf(cursor) + 1
    BY <1>1, <2>1, AddPage
  <2>3. MappedPages' = PageOf(cursor')
    BY <1>3 DEF MappedPages, PageOf
  <2>4. QED
    BY <1>1, <1>3, <2>1, <2>2, <2>3 DEF MappedInOrder
<1>4. QED
  BY <1>2, <1>3, AllocFrameInOrder

\* A turn of paging_install's loop.
LEMMA MapPageKeeps == ASSUME PhysInv, MapPage PROVE PhysInv'
<1> USE PhysAssumption
<1> DEFINE dir == GetPage(Directory, PageOf(cursor))
<1>1. /\ Directory \in [placement : Nat, tables : [TableIndex -> Nat]]
      /\ Directory.placement = placement /\ Directory.tables = tables
      /\ cursor \in Nat /\ PageOf(cursor) \in Nat
  BY PageOfNat DEF Directory, PhysInv, WordTypes
<1>2. /\ PAGE_SIZE <= placement /\ cursor < placement /\ cursor % PAGE_SIZE = 0
      /\ \/ cursor = 0 /\ tables = [t \in TableIndex |-> NULL]
         \/ placement % PAGE_SIZE = 0
  BY DEF MapPage, PhysInv, LoopsInStep
<1>3. /\ placement' = dir.placement /\ tables' = dir.tables
      /\ AllocFrame(PageOf(cursor))
      /\ cursor' = IF pc' = "halted" THEN cursor ELSE cursor + PAGE_SIZE
      /\ UNCHANGED <<ramdisk, dirVars, heapEnd>> /\ pc = "map"
  BY DEF MapPage
<1>4. dir \in [placement : Nat, tables : [TableIndex -> Nat]] /\ PAGE_SIZE <= dir.placement
  BY <1>1, <1>2, GetPageKeeps
<1>5. dir.placement % PAGE_SIZE = 0
  <2>1. CASE placement % PAGE_SIZE = 0
    BY <1>1, <1>2, <2>1, GetPageKeeps
  <2>2. CASE cursor = 0 /\ tables = [t \in TableIndex |-> NULL]
    <3>1. 0 * PAGE_SIZE = 0 /\ 0 * Entries = 0 /\ Entries \in Nat \ {0}
      BY DivMod DEF Entries
    <3>2. TableOf(PageOf(cursor)) = 0
      BY <2>2, <3>1, DivideMultiple DEF TableOf, PageOf
    <3>3. tables[TableOf(PageOf(cursor))] = NULL
      BY <2>2, <3>1, <3>2 DEF TableIndex
    <3>4. QED
      BY <1>1, <1>2, <3>3, GetPageKeeps
  <2>3. QED
    BY <1>2, <2>1, <2>2
<1>6. cursor + PAGE_SIZE <= dir.placement
  <2>1. CASE placement % PAGE_SIZE = 0
    <3>1. placement <= dir.placement
      BY <1>1, <1>2, <2>1, GetPageKeeps
    <3>2. cursor + PAGE_SIZE <= placement
      BY <1>1, <1>2, <2>1, NextPageAtMost DEF PhysInv, WordTypes
    <3>3. QED
      BY <1>1, <1>4, <3>1, <3>2
  <2>2. CASE cursor = 0
    BY <1>4, <2>2
  <2>3. QED
    BY <1>2, <2>1, <2>2
<1>7. placement' \in Nat /\ tables' \in [TableIndex -> Nat]
  BY <1>3, <1>4
<1> HIDE DEF dir
<1>8. pc' \in {"map", "halted"} /\ (pc' = "map" => cursor' = cursor + PAGE_SIZE)
  BY <1>3, AllocFrameInOrder
<1>9. MappedInOrder' /\ cursor' % PAGE_SIZE = 0 /\ cursor' \in Nat
  BY <1>3, TurnMapsPage DEF dirVars
<1>10. WordTypes'
  BY <1>3, <1>7, <1>8, <1>9 DEF PhysInv, WordTypes, dirVars
<1>11. LoopsInStep'
  BY <1>3, <1>4, <1>5, <1>6, <1>8, <1>9 DEF LoopsInStep, HeapReady
<1>12. QED
  BY <1>9, <1>10, <1>11 DEF PhysInv

\* A turn of sbrk's loop.
LEMMA SbrkPageKeeps == ASSUME PhysInv, SbrkPage PROVE PhysInv'
<1> USE PhysAssumption
<1> DEFINE dir == GetPage(GetPage(Directory, PageOf(cursor)), PageOf(cursor))
<1>1. /\ cursor \in Nat /\ PageOf(cursor) \in Nat
      /\ Directory \in [placement : Nat, tables : [TableIndex -> Nat]]
  BY PageOfNat DEF Directory, PhysInv, WordTypes
<1>2. /\ placement' = dir.placement /\ tables' = dir.tables
      /\ AllocFrame(PageOf(cursor))
      /\ cursor' = IF pc' = "halted" THEN cursor ELSE cursor + PAGE_SIZE
      /\ UNCHANGED <<ramdisk, dirVars, heapEnd>> /\ pc = "sbrk"
  BY DEF SbrkPage
<1>3. dir \in [placement : Nat, tables : [TableIndex -> Nat]]
  BY <1>1, GetPageKeeps
<1>4. placement' \in Nat /\ tables' \in [TableIndex -> Nat]
  BY <1>2, <1>3
<1>5. pc' \in {"sbrk", "halted"} /\ (pc' = "sbrk" => cursor' = cursor + PAGE_SIZE)
  BY <1>2, AllocFrameInOrder
<1>6. MappedInOrder' /\ cursor' % PAGE_SIZE = 0 /\ cursor' \in Nat
  BY <1>2, TurnMapsPage DEF dirVars
<1>7. WordTypes'
  BY <1>2, <1>4, <1>5, <1>6 DEF PhysInv, WordTypes, dirVars
<1>8. heapEnd \in Nat /\ heapEnd % PAGE_SIZE = 0 /\ heapEnd > 0 /\ cursor + PAGE_SIZE <= heapEnd
  <2>1. heapEnd \in Nat /\ heapEnd % PAGE_SIZE = 0 /\ heapEnd > 0
        /\ cursor < heapEnd /\ cursor % PAGE_SIZE = 0
    BY <1>2 DEF SbrkPage, PhysInv, WordTypes, LoopsInStep, HeapReady
  <2>2. QED
    BY <1>1, <2>1, NextPageAtMost
<1>9. LoopsInStep'
  BY <1>2, <1>5, <1>6, <1>8 DEF LoopsInStep, HeapReady
<1>10. QED
  BY <1>6, <1>7, <1>9 DEF PhysInv

\* paging_install ends exactly where it has placed the last table, and the
\* heap starts there.
LEMMA InstallEndsKeep ==
  ASSUME PhysInv, SwitchPageDirectory \/ HeapInstall
  PROVE  PhysInv'
<1> USE PhysAssumption
<1>1. CASE SwitchPageDirectory
  <2>1. cursor = placement /\ placement > 0
    BY <1>1 DEF SwitchPageDirectory, PhysInv, WordTypes, LoopsInStep
  <2>2. LoopsInStep'
    BY <1>1, <2>1 DEF SwitchPageDirectory, PhysInv, LoopsInStep, HeapReady
  <2>3. MappedInOrder' /\ WordTypes'
    BY <1>1 DEF SwitchPageDirectory, PhysInv, WordTypes, MappedInOrder, MappedPages, PageOf, dirVars
  <2>4. QED
    BY <2>2, <2>3 DEF PhysInv
<1>2. CASE HeapInstall
  <2>1. cursor = placement /\ placement > 0 /\ cursor % PAGE_SIZE = 0 /\ placement \in Nat
    BY <1>2 DEF HeapInstall, PhysInv, WordTypes, LoopsInStep
  <2>2. LoopsInStep'
    BY <1>2, <2>1 DEF HeapInstall, LoopsInStep, HeapReady
  <2>3. WordTypes'
    BY <1>2, <2>1 DEF HeapInstall, PhysInv, WordTypes, dirVars
  <2>4. MappedPages' = MappedPages
    BY <1>2, <2>1 DEF HeapInstall, MappedPages, PageOf
  <2>5. MappedInOrder'
    BY <1>2, <2>4 DEF HeapInstall, PhysInv, MappedInOrder, dirVars
  <2>6. QED
    BY <2>2, <2>3, <2>5 DEF PhysInv
<1>3. QED
  BY <1>1, <1>2

\* sbrk moves the heap's end first and maps the pages up to it then.
LEMMA SbrkEndsKeep ==
  ASSUME PhysInv, SbrkReturn \/ \E n \in SbrkPages : SbrkCall(n)
  PROVE  PhysInv'
<1> USE PhysAssumption
<1>1. CASE \E n \in SbrkPages : SbrkCall(n)
  <2>1. PICK n \in SbrkPages : SbrkCall(n)
    BY <1>1
  <2>2. n * PAGE_SIZE \in Nat
    OBVIOUS
  <2>3. heapEnd \in Nat /\ heapEnd % PAGE_SIZE = 0 /\ heapEnd > 0
    BY <2>1 DEF SbrkCall, PhysInv, WordTypes, LoopsInStep, HeapReady
  <2>4. heapEnd' \in Nat /\ heapEnd' % PAGE_SIZE = 0 /\ heapEnd <= heapEnd' /\ cursor' = heapEnd
    <3>1. (heapEnd + n * PAGE_SIZE) % PAGE_SIZE = 0
      BY <2>3, AddPages
    <3>2. QED
      BY <2>1, <2>2, <2>3, <3>1 DEF SbrkCall
  <2>5. LoopsInStep' /\ WordTypes'
    BY <2>1, <2>3, <2>4 DEF SbrkCall, PhysInv, LoopsInStep, WordTypes, HeapReady, dirVars
  <2>6. MappedPages' = MappedPages
    BY <2>1 DEF SbrkCall, MappedPages, PageOf
  <2>7. QED
    BY <2>1, <2>5, <2>6 DEF SbrkCall, PhysInv, MappedInOrder, dirVars
<1>2. CASE SbrkReturn
  <2>1. cursor = heapEnd
    BY <1>2 DEF SbrkReturn, PhysInv, WordTypes, LoopsInStep
  <2>2. LoopsInStep' /\ WordTypes'
    BY <1>2 DEF SbrkReturn, PhysInv, LoopsInStep, WordTypes, HeapReady, dirVars
  <2>3. MappedPages' = MappedPages
    BY <1>2, <2>1 DEF SbrkReturn, MappedPages, PageOf
  <2>4. QED
    BY <1>2, <2>2, <2>3 DEF SbrkReturn, PhysInv, MappedInOrder, dirVars
<1>3. QED
  BY <1>1, <1>2

LEMMA PhysStep == PhysInv /\ [Next]_vars => PhysInv'
BY StartKeeps, PagingInstallKeeps, MapPageKeeps, InstallEndsKeep, SbrkPageKeeps, SbrkEndsKeep,
   PhysStutter DEF Next

\* Nothing is mapped at first.
LEMMA PhysStart == Init => PhysInv
<1> SUFFICES ASSUME Init PROVE PhysInv
  OBVIOUS
<1> USE PhysAssumption
<1>1. 0 * PAGE_SIZE = 0 /\ Entries \in Nat
  BY DivMod DEF Entries
<1>2. 0 \div PAGE_SIZE = 0 /\ 0 % PAGE_SIZE = 0
  BY <1>1, DivideMultiple
<1>3. MappedPages = 0
  BY <1>2 DEF Init, MappedPages, PageOf
<1>4. MappedInOrder
  BY <1>3 DEF Init, MappedInOrder
<1>5. Entries * Entries \in Nat
  BY <1>1
<1>6. WordTypes /\ LoopsInStep
  BY <1>2, <1>5 DEF Init, WordTypes, LoopsInStep, HeapReady, NULL
<1>7. QED
  BY <1>4, <1>6 DEF PhysInv
-----------------------------------------------------------------------------
(* The theorems.                                                           *)

\* Boot and sbrk: the inductive invariant holds in every reachable state.
THEOREM PhysInvariant == Spec => []PhysInv
BY PhysStart, PhysStep, PTL DEF Spec

\* No bit is set for a frame that memory does not have, and every entry of a
\* page table has a frame whose bit is set (set_frame, alloc_frame).
THEOREM PhysTypeCorrect == Spec => []PhysTypeOK
<1>1. PhysInv => PhysTypeOK
  <2> SUFFICES ASSUME PhysInv PROVE PhysTypeOK
    OBVIOUS
  <2>1. Entries * Entries \in Nat
    <3>1. Entries \in Nat
      BY PhysAssumption, DivMod DEF Entries
    <3>2. QED
      BY <3>1
  <2>2. DOMAIN pte \subseteq PageNumber
    BY <2>1 DEF PhysInv, WordTypes, MappedInOrder, PageNumber
  <2>3. Range(pte) \subseteq frames
    BY DEF PhysInv, MappedInOrder, Range
  <2>4. QED
    BY <2>1, <2>2, <2>3 DEF PhysInv, WordTypes, MappedInOrder, PhysTypeOK
<1>2. QED
  BY <1>1, PhysInvariant, PTL

\* Turning paging on moves nothing, whatever memory and module are: every page
\* is in the frame of its own number (paging_install, sbrk).
THEOREM PhysIdentityMapped == Spec => []IdentityMapped
<1>1. PhysInv => IdentityMapped
  BY DEF PhysInv, MappedInOrder, IdentityMapped
<1>2. QED
  BY <1>1, PhysInvariant, PTL

\* What sbrk returned is mapped, nothing behind it is, and it starts a page.
THEOREM PhysMappedUpToHeapEnd == Spec => []MappedUpToHeapEnd
<1>1. PhysInv => MappedUpToHeapEnd
  BY DEF PhysInv, MappedInOrder, MappedPages, LoopsInStep, MappedUpToHeapEnd, HeapReady
<1>2. QED
  BY <1>1, PhysInvariant, PTL
-----------------------------------------------------------------------------
(***************************************************************************)
(* Where the tables are.                                                   *)
(***************************************************************************)

\* Memory needs no more tables than there are pages below the kernel's end and
\* below the module: as the kernel is loaded at 1 MiB, 254 tables at least, for
\* a machine of up to 1016 MiB.
TablesFit ==
  \A memory \in Memory :
    /\ memory \div Entries + 2 <= PageOf(KERNEL_END)
    /\ memory \div Entries + 2 <= PageOf(MULTIBOOT_START)

Made == {t \in TableIndex : tables[t] # NULL}

\* Tables fill pages, no two the same, and every mapped page has one.
TablesApart ==
  /\ \A t \in Made : tables[t] % PAGE_SIZE = 0
  /\ \A t \in Made : \A u \in Made : tables[t] = tables[u] => t = u
  /\ \A page \in 0 .. MappedPages - 1 : TableOf(page) \in Made

\* The directory starts a page, with room below it for all tables.
DirPlaced ==
  /\ dirAt % PAGE_SIZE = 0
  /\ nframes \div Entries + 2 <= PageOf(dirAt)

\* Until paging is on, tables lie between the directory and the placement
\* pointer.
TablesBehindDir ==
  /\ PageOf(dirAt) + 2 <= PageOf(placement)
  /\ \A t \in Made : /\ PageOf(dirAt) + 2 <= PageOf(tables[t])
                     /\ PageOf(tables[t]) < PageOf(placement)

\* From then on they are made upward from the second page, one for Entries
\* pages of the heap, so that they stay below the directory.
TablesFromZero ==
  /\ placement % PAGE_SIZE = 0
  /\ PageOf(dirAt) + 2 <= MappedPages
  /\ PageOf(placement) <= TableOf(MappedPages - 1) + 1
  /\ \A t \in Made :
       \/ PageOf(dirAt) + 2 <= PageOf(tables[t]) /\ PageOf(tables[t]) < MappedPages
       \/ PageOf(tables[t]) < PageOf(placement)

TablesInv ==
  /\ pc \in {"start", "loaded"} => placement >= KERNEL_END \/ placement >= MULTIBOOT_START
  /\ pc \in {"map", "paging", "idle", "sbrk"} => TablesApart /\ DirPlaced
  /\ pc \in {"map", "paging"} => TablesBehindDir
  /\ HeapReady => TablesFromZero
-----------------------------------------------------------------------------
(* Pages and tables of addresses.                                          *)

LEMMA DivMonotone ==
  ASSUME NEW n \in Nat \ {0}, NEW a \in Nat, NEW b \in Nat, a <= b
  PROVE  a \div n <= b \div n
<1> DEFINE j == a \div n
           k == b \div n
<1>1. j \in Nat /\ a % n \in 0 .. n - 1 /\ a = j * n + (a % n)
  BY DivMod
<1>2. k \in Nat /\ b % n \in 0 .. n - 1 /\ b = k * n + (b % n)
  BY DivMod
<1> HIDE DEF j, k
<1>3. j * n < (k + 1) * n
  <2>1. (k + 1) * n = k * n + n /\ j * n \in Int /\ k * n \in Int
    BY <1>1, <1>2
  <2> QED BY <1>1, <1>2, <2>1
<1>4. j < k + 1
  BY <1>1, <1>2, <1>3, ProductBelow
<1> QED BY <1>1, <1>2, <1>4 DEF j, k

LEMMA PageOfMonotone ==
  ASSUME NEW a \in Nat, NEW b \in Nat, a <= b
  PROVE  PageOf(a) <= PageOf(b)
BY DivMonotone, PhysAssumption DEF PageOf

\* Of two places where pages start, the lower is in a lower page.
LEMMA PageOfStrict ==
  ASSUME NEW a \in Nat, NEW b \in Nat, a % PAGE_SIZE = 0, b % PAGE_SIZE = 0, a < b
  PROVE  PageOf(a) < PageOf(b)
<1>1. a + PAGE_SIZE <= b /\ a + PAGE_SIZE \in Nat
  BY NextPageAtMost, PhysAssumption
<1>2. PageOf(a + PAGE_SIZE) <= PageOf(b) /\ PageOf(a + PAGE_SIZE) = PageOf(a) + 1
  BY <1>1, PageOfMonotone, AddPage
<1> QED BY <1>2, PageOfNat

LEMMA PageOfPageStart ==
  ASSUME NEW a \in Nat
  PROVE  PageOf(PageStart(a)) = PageOf(a)
<1> USE PhysAssumption
<1>1. a \div PAGE_SIZE \in Nat /\ a % PAGE_SIZE \in 0 .. PAGE_SIZE - 1
      /\ a = (a \div PAGE_SIZE) * PAGE_SIZE + (a % PAGE_SIZE)
  BY DivMod
<1>2. PageStart(a) = (a \div PAGE_SIZE) * PAGE_SIZE
  BY <1>1 DEF PageStart
<1> QED BY <1>1, <1>2, DivideMultiple DEF PageOf

LEMMA EntriesNat == Entries \in Nat \ {0}
<1>1. PAGE_SIZE \div 4 \in Nat /\ PAGE_SIZE = (PAGE_SIZE \div 4) * 4 + (PAGE_SIZE % 4)
  BY PhysAssumption, DivMod
<1> QED BY <1>1, PhysAssumption DEF Entries

\* The pages of memory have an entry in the directory.
LEMMA TableOfIndex ==
  ASSUME NEW page \in Nat, page < Entries * Entries
  PROVE  TableOf(page) \in TableIndex
<1>1. Entries \in Nat \ {0}
  BY EntriesNat
<1>2. /\ page \div Entries \in Nat /\ page % Entries \in 0 .. Entries - 1
      /\ page = (page \div Entries) * Entries + (page % Entries)
  BY <1>1, DivMod
<1> DEFINE q == page \div Entries
<1> HIDE DEF q
<1>3. q * Entries < Entries * Entries /\ q \in Nat
  <2>1. q \in Nat /\ page % Entries \in Nat /\ page = q * Entries + (page % Entries)
    BY <1>1, <1>2 DEF q
  <2>2. q * Entries \in Nat /\ Entries * Entries \in Nat
    BY <1>1, <2>1
  <2> QED BY <2>1, <2>2
<1>4. q < Entries
  BY <1>1, <1>3, ProductBelow
<1> QED BY <1>1, <1>3, <1>4 DEF q, TableOf, TableIndex

LEMMA TableOfMonotone ==
  ASSUME NEW a \in Nat, NEW b \in Nat, a <= b
  PROVE  TableOf(a) \in Nat /\ TableOf(b) \in Nat /\ TableOf(a) <= TableOf(b)
BY DivMonotone, DivMod, EntriesNat DEF TableOf
-----------------------------------------------------------------------------
(* A new table.                                                            *)

LEMMA NewTable ==
  ASSUME tables \in [TableIndex -> Nat], NEW T \in TableIndex, tables[T] = NULL,
         NEW a \in Nat, a # NULL, a % PAGE_SIZE = 0,
         tables' = [tables EXCEPT ![T] = a],
         \A t \in Made : tables[t] % PAGE_SIZE = 0 /\ tables[t] # a,
         \A t \in Made : \A u \in Made : tables[t] = tables[u] => t = u
  PROVE  /\ Made' = Made \cup {T} /\ tables'[T] = a
         /\ \A t \in Made : tables'[t] = tables[t]
         /\ \A t \in Made' : tables'[t] % PAGE_SIZE = 0
         /\ \A t \in Made' : \A u \in Made' : tables'[t] = tables'[u] => t = u
<1>1. tables'[T] = a /\ \A t \in TableIndex : t # T => tables'[t] = tables[t]
  OBVIOUS
<1>2. T \notin Made /\ Made \subseteq TableIndex
  BY DEF Made
<1>3. Made' = Made \cup {T}
  BY <1>1 DEF Made
<1>4. \A t \in Made : tables'[t] = tables[t]
  BY <1>1, <1>2
<1> QED BY <1>1, <1>2, <1>3, <1>4

\* get_page in paging_install's loop, for a page without a table.
LEMMA GetPageMakes ==
  ASSUME NEW dir \in [placement : Nat, tables : [TableIndex -> Nat]], NEW page \in Nat,
         TableOf(page) \in TableIndex, dir.tables[TableOf(page)] = NULL,
         PAGE_SIZE <= dir.placement
  PROVE  /\ GetPage(dir, page).placement = PageStart(dir.placement) + PAGE_SIZE
         /\ GetPage(dir, page).tables
              = [dir.tables EXCEPT ![TableOf(page)] = PageStart(dir.placement)]
BY DEF GetPage, AlignedPlace

\* Where get_page, called twice, puts the table of a page that has none: at the
\* placement pointer, which starts a page, but not at address 0.
FirstPlace(place) == IF place = 0 THEN PAGE_SIZE ELSE place

LEMMA GetPageTwice ==
  ASSUME NEW dir \in [placement : Nat, tables : [TableIndex -> Nat]], NEW page \in Nat,
         TableOf(page) \in TableIndex, dir.tables[TableOf(page)] = NULL,
         dir.placement % PAGE_SIZE = 0
  PROVE  /\ FirstPlace(dir.placement) \in Nat /\ FirstPlace(dir.placement) # NULL
         /\ FirstPlace(dir.placement) % PAGE_SIZE = 0
         /\ GetPage(GetPage(dir, page), page).placement = FirstPlace(dir.placement) + PAGE_SIZE
         /\ GetPage(GetPage(dir, page), page).tables
              = [dir.tables EXCEPT ![TableOf(page)] = FirstPlace(dir.placement)]
<1> USE PhysAssumption
<1> DEFINE T == TableOf(page)
<1>0. dir.placement \in Nat /\ dir.tables \in [TableIndex -> Nat] /\ T \in TableIndex
      /\ dir.tables[T] = NULL
  OBVIOUS
<1>1. PAGE_SIZE % PAGE_SIZE = 0 /\ PageStart(PAGE_SIZE) = PAGE_SIZE /\ 0 % PAGE_SIZE = 0
  <2>1. (1 * PAGE_SIZE) % PAGE_SIZE = 0 /\ 1 * PAGE_SIZE = PAGE_SIZE
    BY DivideMultiple
  <2> QED BY <2>1, PageStartAligned
<1>2. CASE dir.placement = 0
  <2>1. AlignedPlace(0) = 0
    BY DEF AlignedPlace
  <2>2. [dir.tables EXCEPT ![T] = 0] = dir.tables
    BY <1>0 DEF NULL
  <2>3. GetPage(dir, page) = [placement |-> PAGE_SIZE, tables |-> dir.tables]
    BY <1>0, <1>2, <2>1, <2>2 DEF GetPage
  <2>4. GetPage([placement |-> PAGE_SIZE, tables |-> dir.tables], page)
          = [placement |-> PAGE_SIZE + PAGE_SIZE, tables |-> [dir.tables EXCEPT ![T] = PAGE_SIZE]]
    BY <1>0, <1>1 DEF GetPage, AlignedPlace
  <2> QED BY <1>1, <1>2, <2>3, <2>4 DEF NULL, FirstPlace
<1>3. CASE dir.placement # 0
  <2>1. PAGE_SIZE <= dir.placement
    <3>1. 0 + PAGE_SIZE <= dir.placement
      BY <1>0, <1>1, <1>3, NextPageAtMost
    <3> QED BY <3>1
  <2>2. PageStart(dir.placement) = dir.placement
    BY <1>0, PageStartAligned
  <2>3. GetPage(dir, page) = [placement |-> dir.placement + PAGE_SIZE,
                              tables |-> [dir.tables EXCEPT ![T] = dir.placement]]
    BY <1>0, <2>1, <2>2 DEF GetPage, AlignedPlace
  <2>4. [dir.tables EXCEPT ![T] = dir.placement][T] # NULL
    BY <1>0, <1>3 DEF NULL
  <2>5. GetPage(GetPage(dir, page), page) = GetPage(dir, page)
    BY <2>3, <2>4 DEF GetPage
  <2> QED BY <1>0, <1>3, <2>3, <2>5 DEF NULL, FirstPlace
<1> QED BY <1>2, <1>3
-----------------------------------------------------------------------------
(* The tables' invariant is inductive.                                     *)

\* The number of pages given a frame stays within memory, and how the loops
\* move it.
LEMMA MappedPagesFacts ==
  ASSUME PhysInv
  PROVE  /\ MappedPages \in Nat /\ MappedPages <= nframes
         /\ nframes \in Nat /\ nframes <= Entries * Entries
         /\ placement \in Nat /\ dirAt \in Nat /\ cursor \in Nat
         /\ tables \in [TableIndex -> Nat]
<1>1. /\ placement \in Nat /\ dirAt \in Nat /\ heapEnd \in Nat /\ cursor \in Nat
      /\ tables \in [TableIndex -> Nat]
      /\ nframes \in 0 .. Entries * Entries /\ Entries * Entries \in Nat
  BY EntriesNat DEF PhysInv, WordTypes
<1>2. MappedPages \in Nat
  BY <1>1, PageOfNat DEF MappedPages
<1>3. 0 .. MappedPages - 1 \subseteq 0 .. nframes - 1
  BY DEF PhysInv, MappedInOrder
<1>4. MappedPages <= nframes
  <2> SUFFICES ASSUME MappedPages > nframes PROVE FALSE
    BY <1>1, <1>2
  <2>1. nframes \in 0 .. MappedPages - 1
    BY <1>1, <1>2
  <2> QED BY <1>1, <1>3, <2>1
<1> QED BY <1>1, <1>2, <1>4

LEMMA TurnOfLoop ==
  ASSUME PhysInv, pc \in {"map", "sbrk"}, AllocFrame(PageOf(cursor)), pc' # "halted",
         cursor' = IF pc' = "halted" THEN cursor ELSE cursor + PAGE_SIZE,
         UNCHANGED <<heapEnd, nframes>>
  PROVE  /\ pc' = pc /\ MappedPages = PageOf(cursor) /\ MappedPages' = MappedPages + 1
         /\ MappedPages < nframes /\ TableOf(MappedPages) \in TableIndex
<1> DEFINE n == PageOf(cursor)
<1>1. /\ cursor \in Nat /\ cursor % PAGE_SIZE = 0 /\ n \in Nat
      /\ nframes \in Nat /\ nframes <= Entries * Entries /\ Entries * Entries \in Nat
  BY MappedPagesFacts, PageOfNat, EntriesNat DEF PhysInv, LoopsInStep
<1>2. pc' = pc /\ frames' = 0 .. n /\ frames' \subseteq 0 .. nframes - 1
  BY AllocFrameInOrder
<1>3. MappedPages = n /\ MappedPages' = PageOf(cursor') /\ cursor' = cursor + PAGE_SIZE
  BY <1>2 DEF MappedPages, PageOf
<1>4. PageOf(cursor') = n + 1
  BY <1>1, <1>3, AddPage
<1>5. n < nframes
  <2>1. n \in 0 .. nframes - 1
    BY <1>1, <1>2
  <2> QED BY <1>1, <2>1
<1>6. TableOf(n) \in TableIndex
  BY <1>1, <1>5, TableOfIndex
<1> HIDE DEF n
<1> QED BY <1>2, <1>3, <1>4, <1>5, <1>6 DEF n

\* The directory is placed, and no table is there yet.
LEMMA PagingInstallPlaces ==
  ASSUME TablesFit, PhysInv, TablesInv, NEW memory \in Memory, PagingInstall(memory)
  PROVE  TablesInv'
<1> USE PhysAssumption
<1>1. /\ placement \in Nat /\ (placement >= KERNEL_END \/ placement >= MULTIBOOT_START)
      /\ cursor = 0 /\ tables = [t \in TableIndex |-> NULL]
      /\ memory \in Nat /\ memory \div WORD_BITS \in Nat
  <2>1. memory \in Nat
    BY EntriesNat
  <2> QED BY <2>1, MappedPagesFacts, DivMod
          DEF PagingInstall, PhysInv, LoopsInStep, TablesInv
<1> DEFINE place == placement + memory \div WORD_BITS
<1>2. place \in Nat /\ (place >= KERNEL_END \/ place >= MULTIBOOT_START)
  BY <1>1
<1>3. PAGE_SIZE <= KERNEL_END /\ PAGE_SIZE <= MULTIBOOT_START
  <2>1. 0 % PAGE_SIZE = 0
    <3>1. 0 * PAGE_SIZE = 0
      OBVIOUS
    <3> QED BY <3>1, DivideMultiple
  <2>2. 0 + PAGE_SIZE <= KERNEL_END /\ 0 + PAGE_SIZE <= MULTIBOOT_START
    BY <2>1, NextPageAtMost
  <2> QED BY <2>2
<1>4. dirAt' = PageStart(place)
  BY <1>2, <1>3 DEF PagingInstall, AlignedPlace
<1>5. /\ dirAt' \in Nat /\ dirAt' % PAGE_SIZE = 0 /\ PageOf(dirAt') = PageOf(place)
      /\ PageOf(dirAt') \in Nat
  BY <1>2, <1>4, PageStartAligned, PageOfPageStart, PageOfNat
<1>6. PageOf(KERNEL_END) <= PageOf(place) \/ PageOf(MULTIBOOT_START) <= PageOf(place)
  <2> HIDE DEF place
  <2> QED BY <1>2, PageOfMonotone
<1>7. DirPlaced'
  <2>1. nframes' = memory /\ memory \div Entries \in Nat
    BY <1>1, EntriesNat, DivMod DEF PagingInstall
  <2>2. memory \div Entries + 2 <= PageOf(KERNEL_END) /\ memory \div Entries + 2 <= PageOf(MULTIBOOT_START)
    BY DEF TablesFit
  <2>3. PageOf(KERNEL_END) \in Nat /\ PageOf(MULTIBOOT_START) \in Nat
    BY PageOfNat
  <2>4. memory \div Entries + 2 <= PageOf(dirAt')
    <3> HIDE DEF place
    <3> QED BY <1>5, <1>6, <2>1, <2>2, <2>3
  <2>5. PageOf(dirAt') = PageOf(dirAt)'
    BY DEF PageOf
  <2> QED BY <1>5, <2>1, <2>4, <2>5 DEF DirPlaced
<1>8. tables' = tables /\ Made' = {}
  BY <1>1 DEF PagingInstall, Made
<1>9. MappedPages' = 0
  <2>1. 0 * PAGE_SIZE = 0
    OBVIOUS
  <2> QED BY <1>1, <2>1, DivideMultiple DEF MappedPages, PageOf, PagingInstall
<1>10. TablesApart'
  BY <1>8, <1>9 DEF TablesApart
<1>11. TablesBehindDir'
  <2>1. placement' = dirAt' + DIR_SIZE /\ DIR_SIZE = 2 * PAGE_SIZE + 4
    BY DEF PagingInstall, DIR_SIZE
  <2>2. PageOf(dirAt' + 2 * PAGE_SIZE) = PageOf(dirAt') + 2
    BY <1>5, AddPages
  <2>3. PageOf(dirAt' + 2 * PAGE_SIZE) <= PageOf(placement')
    BY <1>5, <2>1, PageOfMonotone
  <2>4. (PageOf(dirAt) + 2 <= PageOf(placement))'
    BY <2>2, <2>3 DEF PageOf
  <2> QED BY <1>8, <2>4 DEF TablesBehindDir
<1>12. pc' = "map"
  BY DEF PagingInstall
<1> QED BY <1>7, <1>10, <1>11, <1>12 DEF TablesInv, HeapReady

\* A turn of paging_install's loop places its table behind all others.
LEMMA MapPagePlaces ==
  ASSUME PhysInv, TablesInv, MapPage, pc' # "halted"
  PROVE  TablesInv'
<1> USE PhysAssumption
<1> DEFINE n == MappedPages
           T == TableOf(n)
           dir == GetPage(Directory, n)
<1>1. /\ pc = "map" /\ AllocFrame(PageOf(cursor))
      /\ placement' = GetPage(Directory, PageOf(cursor)).placement
      /\ tables' = GetPage(Directory, PageOf(cursor)).tables
      /\ cursor' = IF pc' = "halted" THEN cursor ELSE cursor + PAGE_SIZE
      /\ UNCHANGED <<heapEnd, nframes, dirAt>>
  BY DEF MapPage, dirVars
<1>2. /\ pc' = "map" /\ n = PageOf(cursor) /\ MappedPages' = n + 1
      /\ n \in Nat /\ T \in TableIndex
  BY <1>1, TurnOfLoop, MappedPagesFacts
<1>3. /\ placement \in Nat /\ tables \in [TableIndex -> Nat] /\ dirAt \in Nat
      /\ Directory \in [placement : Nat, tables : [TableIndex -> Nat]]
      /\ Directory.placement = placement /\ Directory.tables = tables
      /\ PAGE_SIZE <= placement
  BY <1>1, MappedPagesFacts DEF Directory, PhysInv, LoopsInStep
<1>4. TablesApart /\ DirPlaced /\ TablesBehindDir
  BY <1>1 DEF TablesInv
<1>5. DirPlaced'
  BY <1>1, <1>4 DEF DirPlaced, PageOf
<1>6. placement' = dir.placement /\ tables' = dir.tables
  BY <1>1, <1>2
<1>7. CASE tables[T] # NULL
  <2>1. placement' = placement /\ tables' = tables
    BY <1>3, <1>6, <1>7 DEF GetPage
  <2>2. Made' = Made /\ T \in Made
    BY <1>2, <1>7, <2>1 DEF Made
  <2>3. TablesApart'
    <3>1. \A page \in 0 .. (n + 1) - 1 : TableOf(page) \in Made
      BY <1>2, <1>4, <2>2 DEF TablesApart
    <3>2. \A page \in 0 .. MappedPages' - 1 : TableOf(page) \in Made'
      BY <1>2, <2>2, <3>1
    <3>3. (\A page \in 0 .. MappedPages - 1 : TableOf(page) \in Made)'
      BY <3>2 DEF TableOf
    <3> QED BY <1>4, <2>1, <2>2, <3>3 DEF TablesApart
  <2>4. TablesBehindDir'
    BY <1>1, <1>4, <2>1, <2>2 DEF TablesBehindDir, PageOf
  <2> QED BY <1>2, <1>5, <2>3, <2>4 DEF TablesInv, HeapReady
<1>8. CASE tables[T] = NULL
  <2> DEFINE a == PageStart(placement)
  <2>1. placement' = a + PAGE_SIZE /\ tables' = [tables EXCEPT ![T] = a]
    BY <1>2, <1>3, <1>6, <1>8, GetPageMakes
  <2>2. a \in Nat /\ a % PAGE_SIZE = 0 /\ PageOf(a) = PageOf(placement)
    BY <1>3, PageStartAligned, PageOfPageStart
  <2>3. PageOf(dirAt) + 2 <= PageOf(a) /\ PageOf(dirAt) \in Nat /\ PageOf(a) \in Nat
    BY <1>3, <1>4, <2>2, PageOfNat DEF TablesBehindDir
  <2>4. a # NULL
    <3>1. PageOf(0) = 0
      <4>1. 0 * PAGE_SIZE = 0
        OBVIOUS
      <4> QED BY <4>1, DivideMultiple DEF PageOf
    <3> QED BY <2>3, <3>1 DEF NULL
  <2> HIDE DEF a
  <2>5. \A t \in Made : tables[t] % PAGE_SIZE = 0 /\ tables[t] # a /\ tables[t] \in Nat
    <3>1. ASSUME NEW t \in Made PROVE tables[t] \in Nat /\ PageOf(tables[t]) # PageOf(a)
      <4>1. tables[t] \in Nat
        BY <1>3, <3>1 DEF Made
      <4>2. PageOf(tables[t]) < PageOf(a) /\ PageOf(tables[t]) \in Nat
        BY <1>4, <2>2, <3>1, <4>1, PageOfNat DEF TablesBehindDir
      <4> QED BY <2>3, <4>1, <4>2
    <3> QED BY <1>4, <3>1 DEF TablesApart
  <2>6. /\ Made' = Made \cup {T} /\ tables'[T] = a
        /\ \A t \in Made : tables'[t] = tables[t]
        /\ \A t \in Made' : tables'[t] % PAGE_SIZE = 0
        /\ \A t \in Made' : \A u \in Made' : tables'[t] = tables'[u] => t = u
    <3> HIDE DEF T
    <3>1. \A t \in Made : \A u \in Made : tables[t] = tables[u] => t = u
      BY <1>4 DEF TablesApart
    <3> QED BY <1>2, <1>3, <1>8, <2>1, <2>2, <2>4, <2>5, <3>1, NewTable
  <2>7. TablesApart'
    <3>1. \A page \in 0 .. (n + 1) - 1 : TableOf(page) \in Made \cup {T}
      BY <1>2, <1>4 DEF TablesApart
    <3>2. (\A page \in 0 .. MappedPages - 1 : TableOf(page) \in Made)'
      BY <1>2, <2>6, <3>1 DEF TableOf
    <3> QED BY <2>6, <3>2 DEF TablesApart
  <2>8. PageOf(placement') = PageOf(a) + 1
    BY <2>1, <2>2, AddPage
  <2>9. TablesBehindDir'
    <3>1. ASSUME NEW t \in Made'
          PROVE  PageOf(dirAt) + 2 <= PageOf(tables'[t]) /\ PageOf(tables'[t]) < PageOf(placement')
      <4>1. CASE t = T
        BY <2>3, <2>6, <2>8, <4>1
      <4>2. CASE t # T
        <5>1. t \in Made /\ tables'[t] = tables[t]
          BY <2>6, <3>1, <4>2
        <5>2. PageOf(dirAt) + 2 <= PageOf(tables[t]) /\ PageOf(tables[t]) < PageOf(placement)
          BY <1>4, <5>1 DEF TablesBehindDir
        <5>3. PageOf(tables[t]) \in Nat
          BY <2>5, <5>1, PageOfNat
        <5> QED BY <2>2, <2>3, <2>8, <5>1, <5>2, <5>3
      <4> QED BY <4>1, <4>2
    <3>2. PageOf(dirAt) + 2 <= PageOf(placement')
      BY <2>3, <2>8
    <3> QED BY <1>1, <3>1, <3>2 DEF TablesBehindDir, PageOf
  <2> QED BY <1>2, <1>5, <2>7, <2>9 DEF TablesInv, HeapReady
<1> QED BY <1>7, <1>8

\* When paging_install ends, all tables lie below the place where the heap
\* starts, behind the directory.
LEMMA InstallEndsPlace ==
  ASSUME PhysInv, TablesInv, SwitchPageDirectory \/ HeapInstall
  PROVE  TablesInv'
<1> USE PhysAssumption
<1>1. CASE SwitchPageDirectory
  <2>1. MappedPages' = MappedPages
    BY <1>1 DEF SwitchPageDirectory, MappedPages, PageOf
  <2>2. pc = "map" /\ pc' = "paging" /\ UNCHANGED <<placement, dirAt, nframes, tables>>
    BY <1>1 DEF SwitchPageDirectory, dirVars
  <2>3. TablesApart' /\ DirPlaced' /\ TablesBehindDir'
    BY <2>1, <2>2 DEF TablesInv, TablesApart, DirPlaced, TablesBehindDir, Made, PageOf, TableOf
  <2> QED BY <2>2, <2>3 DEF TablesInv, HeapReady
<1>2. CASE HeapInstall
  <2>1. /\ pc = "paging" /\ pc' = "idle" /\ UNCHANGED <<dirAt, nframes, tables, cursor>>
        /\ placement' = 0 /\ heapEnd' = placement /\ cursor = placement
    BY <1>2 DEF HeapInstall, dirVars, PhysInv, LoopsInStep
  <2>2. MappedPages' = MappedPages /\ MappedPages = PageOf(placement)
    BY <2>1 DEF MappedPages, PageOf
  <2>3. TablesApart /\ DirPlaced /\ TablesBehindDir
    BY <2>1 DEF TablesInv
  <2>4. TablesApart' /\ DirPlaced'
    BY <2>1, <2>2, <2>3 DEF TablesApart, DirPlaced, Made, PageOf, TableOf
  <2>5. TablesFromZero'
    <3>1. placement' % PAGE_SIZE = 0 /\ PageOf(placement') = 0
      <4>1. 0 * PAGE_SIZE = 0
        OBVIOUS
      <4> QED BY <2>1, <4>1, DivideMultiple DEF PageOf
    <3>2. /\ PageOf(dirAt) + 2 <= MappedPages
          /\ \A t \in Made : /\ PageOf(dirAt) + 2 <= PageOf(tables[t])
                             /\ PageOf(tables[t]) < MappedPages
      BY <2>2, <2>3 DEF TablesBehindDir
    <3>3. TableOf(MappedPages - 1) \in Nat
      <4>1. MappedPages \in Nat /\ PageOf(dirAt) \in Nat
        BY MappedPagesFacts, PageOfNat
      <4>2. MappedPages - 1 \in Nat
        BY <3>2, <4>1
      <4> QED BY <4>2, TableOfMonotone
    <3>4. (PageOf(placement) <= TableOf(MappedPages - 1) + 1)'
      <4>1. PageOf(placement') <= TableOf(MappedPages' - 1) + 1
        BY <2>2, <3>1, <3>3
      <4> QED BY <4>1 DEF PageOf, TableOf
    <3>5. (PageOf(dirAt) + 2 <= MappedPages)' /\ Made' = Made
      BY <2>1, <2>2, <3>2 DEF PageOf, Made
    <3>6. \A t \in Made' : /\ PageOf(dirAt') + 2 <= PageOf(tables'[t])
                           /\ PageOf(tables'[t]) < MappedPages'
      BY <2>1, <2>2, <3>2, <3>5
    <3> QED BY <3>1, <3>4, <3>5, <3>6 DEF TablesFromZero, PageOf
  <2> QED BY <2>1, <2>4, <2>5 DEF TablesInv, HeapReady
<1> QED BY <1>1, <1>2

\* A turn of sbrk's loop: a table that has to be made is the first, and then
\* follows the last one, but for Entries pages of the heap.
LEMMA SbrkPagePlaces ==
  ASSUME PhysInv, TablesInv, SbrkPage, pc' # "halted"
  PROVE  TablesInv'
<1> USE PhysAssumption
<1> DEFINE n == MappedPages
           T == TableOf(n)
           dir == GetPage(GetPage(Directory, n), n)
<1>1. /\ pc = "sbrk" /\ AllocFrame(PageOf(cursor))
      /\ placement' = GetPage(GetPage(Directory, PageOf(cursor)), PageOf(cursor)).placement
      /\ tables' = GetPage(GetPage(Directory, PageOf(cursor)), PageOf(cursor)).tables
      /\ cursor' = IF pc' = "halted" THEN cursor ELSE cursor + PAGE_SIZE
      /\ UNCHANGED <<heapEnd, nframes, dirAt>>
  BY DEF SbrkPage, dirVars
<1>2. /\ pc' = "sbrk" /\ n = PageOf(cursor) /\ MappedPages' = n + 1
      /\ n \in Nat /\ T \in TableIndex /\ n < nframes /\ nframes \in Nat
  BY <1>1, TurnOfLoop, MappedPagesFacts
<1>3. /\ placement \in Nat /\ tables \in [TableIndex -> Nat] /\ dirAt \in Nat
      /\ Directory \in [placement : Nat, tables : [TableIndex -> Nat]]
      /\ Directory.placement = placement /\ Directory.tables = tables
  BY MappedPagesFacts DEF Directory
<1>4. TablesApart /\ DirPlaced /\ TablesFromZero
  BY <1>1 DEF TablesInv, HeapReady
<1>5. DirPlaced'
  BY <1>1, <1>4 DEF DirPlaced, PageOf
<1>6. placement' = dir.placement /\ tables' = dir.tables
  BY <1>1, <1>2
<1>7. /\ PageOf(dirAt) \in Nat /\ PageOf(dirAt) + 2 <= n /\ n - 1 \in Nat
      /\ TableOf(n - 1) \in Nat /\ T \in Nat /\ TableOf(n - 1) <= T
      /\ PageOf(placement) \in Nat /\ PageOf(placement) <= TableOf(n - 1) + 1
      /\ T <= nframes \div Entries /\ nframes \div Entries + 2 <= PageOf(dirAt)
      /\ nframes \div Entries \in Nat
  <2>1. PageOf(dirAt) \in Nat /\ PageOf(dirAt) + 2 <= n /\ PageOf(placement) \in Nat
        /\ PageOf(placement) <= TableOf(n - 1) + 1 /\ nframes \div Entries + 2 <= PageOf(dirAt)
    BY <1>3, <1>4, PageOfNat DEF TablesFromZero, DirPlaced
  <2>2. n - 1 \in Nat /\ n - 1 <= n
    BY <1>2, <2>1
  <2>3. TableOf(n - 1) \in Nat /\ T \in Nat /\ TableOf(n - 1) <= T
    BY <1>2, <2>2, TableOfMonotone
  <2>4. T <= TableOf(nframes) /\ TableOf(nframes) \in Nat
    BY <1>2, TableOfMonotone
  <2> QED BY <2>1, <2>2, <2>3, <2>4 DEF TableOf
<1>8. (n + 1) - 1 = n
  BY <1>2
<1>9. CASE tables[T] # NULL
  <2>1. placement' = placement /\ tables' = tables
    BY <1>3, <1>6, <1>9 DEF GetPage
  <2>2. Made' = Made /\ T \in Made
    BY <1>2, <1>9, <2>1 DEF Made
  <2>3. TablesApart'
    <3>1. \A page \in 0 .. (n + 1) - 1 : TableOf(page) \in Made
      BY <1>2, <1>4, <2>2 DEF TablesApart
    <3>2. (\A page \in 0 .. MappedPages - 1 : TableOf(page) \in Made)'
      BY <1>2, <2>2, <3>1 DEF TableOf
    <3> QED BY <1>4, <2>1, <2>2, <3>2 DEF TablesApart
  <2>4. TablesFromZero'
    <3>1. PageOf(placement) <= TableOf(MappedPages' - 1) + 1 /\ PageOf(dirAt) + 2 <= MappedPages'
      BY <1>2, <1>7, <1>8
    <3>2. \A t \in Made :
            \/ PageOf(dirAt) + 2 <= PageOf(tables[t]) /\ PageOf(tables[t]) < MappedPages'
            \/ PageOf(tables[t]) < PageOf(placement)
      <4>1. ASSUME NEW t \in Made PROVE PageOf(tables[t]) \in Nat
        BY <1>3, PageOfNat DEF Made
      <4> QED BY <1>2, <1>4, <4>1 DEF TablesFromZero
    <3>3. placement % PAGE_SIZE = 0
      BY <1>4 DEF TablesFromZero
    <3> QED BY <1>1, <2>1, <2>2, <3>1, <3>2, <3>3 DEF TablesFromZero, PageOf, TableOf
  <2> QED BY <1>2, <1>5, <2>3, <2>4 DEF TablesInv, HeapReady
<1>10. CASE tables[T] = NULL
  <2>1. PICK a : a = IF placement = 0 THEN PAGE_SIZE ELSE placement
    OBVIOUS
  <2>2. placement % PAGE_SIZE = 0
    BY <1>4 DEF TablesFromZero
  <2>3. /\ a \in Nat /\ a # NULL /\ a % PAGE_SIZE = 0
        /\ placement' = a + PAGE_SIZE /\ tables' = [tables EXCEPT ![T] = a]
    <3>1. /\ n \in Nat /\ TableOf(n) \in TableIndex /\ Directory.tables[TableOf(n)] = NULL
          /\ Directory.placement % PAGE_SIZE = 0 /\ a = FirstPlace(Directory.placement)
      BY <1>2, <1>3, <1>10, <2>1, <2>2 DEF FirstPlace
    <3>2. /\ a \in Nat /\ a # NULL /\ a % PAGE_SIZE = 0
          /\ GetPage(GetPage(Directory, n), n).placement = a + PAGE_SIZE
          /\ GetPage(GetPage(Directory, n), n).tables = [Directory.tables EXCEPT ![TableOf(n)] = a]
      <4> HIDE DEF n
      <4> QED BY <1>3, <3>1, GetPageTwice
    <3> QED BY <1>3, <1>6, <3>2
  <2>4. PageOf(a) \in Nat /\ PageOf(a) <= T /\ PageOf(placement) <= PageOf(a)
    <3>1. TableOf(n - 1) \in Made
      BY <1>2, <1>4, <1>7 DEF TablesApart
    <3>2. TableOf(n - 1) # T
      BY <1>10, <3>1 DEF Made
    <3>3. TableOf(n - 1) + 1 <= T
      BY <1>7, <3>2
    <3>4. CASE placement = 0
      <4>1. (1 * PAGE_SIZE) \div PAGE_SIZE = 1 /\ 1 * PAGE_SIZE = PAGE_SIZE
        BY DivideMultiple
      <4>2. PageOf(a) = 1
        BY <2>1, <3>4, <4>1 DEF PageOf
      <4>3. PageOf(placement) <= PageOf(a)
        BY <1>3, <2>1, <2>3, <3>4, PageOfMonotone
      <4> QED BY <1>7, <3>3, <4>2, <4>3
    <3>5. CASE placement # 0
      BY <1>7, <2>1, <3>3, <3>5
    <3> QED BY <3>4, <3>5
  <2>5. PageOf(placement') = PageOf(a) + 1
    BY <2>3, AddPage
  <2>6. \A t \in Made : /\ tables[t] % PAGE_SIZE = 0 /\ tables[t] # a
                        /\ PageOf(tables[t]) \in Nat
    <3>1. ASSUME NEW t \in Made PROVE PageOf(tables[t]) \in Nat /\ PageOf(tables[t]) # PageOf(a)
      <4>1. PageOf(tables[t]) \in Nat
        BY <1>3, PageOfNat DEF Made
      <4>2. \/ PageOf(dirAt) + 2 <= PageOf(tables[t])
            \/ PageOf(tables[t]) < PageOf(placement)
        BY <1>4 DEF TablesFromZero
      <4> QED BY <1>7, <2>4, <4>1, <4>2
    <3> QED BY <1>4, <3>1 DEF TablesApart
  <2>7. /\ Made' = Made \cup {T} /\ tables'[T] = a
        /\ \A t \in Made : tables'[t] = tables[t]
        /\ \A t \in Made' : tables'[t] % PAGE_SIZE = 0
        /\ \A t \in Made' : \A u \in Made' : tables'[t] = tables'[u] => t = u
    <3> HIDE DEF T
    <3>1. \A t \in Made : \A u \in Made : tables[t] = tables[u] => t = u
      BY <1>4 DEF TablesApart
    <3> QED BY <1>2, <1>3, <1>10, <2>3, <2>6, <3>1, NewTable
  <2>8. TablesApart'
    <3>1. \A page \in 0 .. (n + 1) - 1 : TableOf(page) \in Made \cup {T}
      BY <1>2, <1>4 DEF TablesApart
    <3>2. (\A page \in 0 .. MappedPages - 1 : TableOf(page) \in Made)'
      BY <1>2, <2>7, <3>1 DEF TableOf
    <3> QED BY <2>7, <3>2 DEF TablesApart
  <2>9. TablesFromZero'
    <3>1. PageOf(placement') <= TableOf(MappedPages' - 1) + 1 /\ PageOf(dirAt) + 2 <= MappedPages'
      BY <1>2, <1>7, <1>8, <2>4, <2>5
    <3>2. ASSUME NEW t \in Made'
          PROVE  \/ PageOf(dirAt) + 2 <= PageOf(tables'[t]) /\ PageOf(tables'[t]) < MappedPages'
                 \/ PageOf(tables'[t]) < PageOf(placement')
      <4>1. CASE t = T
        BY <2>4, <2>5, <2>7, <4>1
      <4>2. CASE t # T
        <5>1. t \in Made /\ tables'[t] = tables[t] /\ PageOf(tables[t]) \in Nat
          BY <2>6, <2>7, <3>2, <4>2
        <5>2. \/ PageOf(dirAt) + 2 <= PageOf(tables[t]) /\ PageOf(tables[t]) < n
              \/ PageOf(tables[t]) < PageOf(placement)
          BY <1>4, <5>1 DEF TablesFromZero
        <5> QED BY <1>2, <1>7, <2>4, <2>5, <5>1, <5>2
      <4> QED BY <4>1, <4>2
    <3>3. placement' % PAGE_SIZE = 0
      BY <2>3, AddPage
    <3> QED BY <1>1, <3>1, <3>2, <3>3 DEF TablesFromZero, PageOf, TableOf
  <2> QED BY <1>2, <1>5, <2>8, <2>9 DEF TablesInv, HeapReady
<1> QED BY <1>9, <1>10

\* sbrk's beginning and end move neither tables nor mapped pages.
LEMMA SbrkEndsPlace ==
  ASSUME PhysInv, TablesInv, SbrkReturn \/ \E m \in SbrkPages : SbrkCall(m)
  PROVE  TablesInv'
<1>1. /\ pc \in {"idle", "sbrk"} /\ pc' \in {"idle", "sbrk"}
      /\ UNCHANGED <<placement, dirAt, nframes, tables>>
  BY DEF SbrkReturn, SbrkCall, dirVars
<1>2. MappedPages' = MappedPages
  <2>1. SbrkReturn => cursor = heapEnd
    BY DEF SbrkReturn, PhysInv, WordTypes, LoopsInStep
  <2> QED BY <2>1 DEF SbrkReturn, SbrkCall, MappedPages, PageOf
<1>3. TablesApart /\ DirPlaced /\ TablesFromZero
  BY <1>1 DEF TablesInv, HeapReady
<1>4. TablesApart' /\ DirPlaced' /\ TablesFromZero'
  BY <1>1, <1>2, <1>3 DEF TablesApart, DirPlaced, TablesFromZero, Made, PageOf, TableOf
<1> QED BY <1>1, <1>4 DEF TablesInv, HeapReady

LEMMA TablesStep == TablesFit /\ PhysInv /\ TablesInv /\ [Next]_vars => TablesInv'
<1> SUFFICES ASSUME TablesFit, PhysInv, TablesInv, [Next]_vars PROVE TablesInv'
  OBVIOUS
<1>1. CASE \E size \in ModuleSize : StartMultiboot(size)
  <2>1. pc' = "loaded" /\ placement' >= MULTIBOOT_START
    BY <1>1, PhysAssumption DEF StartMultiboot
  <2> QED BY <2>1 DEF TablesInv, HeapReady
<1>2. CASE StartOther
  BY <1>2 DEF StartOther, TablesInv, HeapReady
<1>3. CASE \E memory \in Memory : PagingInstall(memory)
  BY <1>3, PagingInstallPlaces
<1>4. CASE pc' = "halted"
  BY <1>4 DEF TablesInv, HeapReady
<1>5. CASE MapPage /\ pc' # "halted"
  BY <1>5, MapPagePlaces
<1>6. CASE SwitchPageDirectory \/ HeapInstall
  BY <1>6, InstallEndsPlace
<1>7. CASE SbrkPage /\ pc' # "halted"
  BY <1>7, SbrkPagePlaces
<1>8. CASE SbrkReturn \/ \E m \in SbrkPages : SbrkCall(m)
  BY <1>8, SbrkEndsPlace
<1>9. CASE UNCHANGED vars
  BY <1>9 DEF vars, dirVars, TablesInv, HeapReady, TablesApart, DirPlaced, TablesBehindDir,
     TablesFromZero, Made, MappedPages, PageOf, TableOf
<1> QED BY <1>1, <1>2, <1>3, <1>4, <1>5, <1>6, <1>7, <1>8, <1>9 DEF Next

LEMMA TablesStart == Init => TablesInv
BY PhysAssumption DEF Init, TablesInv, HeapReady
-----------------------------------------------------------------------------
\* With paging on, every table can be got at: it fills a page that is mapped and
\* that no other table and no directory is in, those made after heap_install
\* included (get_page, sbrk).
THEOREM PhysTablesReachable ==
  ASSUME TablesFit
  PROVE  Spec => []TablesReachable
<1>1. Init => PhysInv /\ TablesInv
  BY PhysStart, TablesStart
<1>2. PhysInv /\ TablesInv /\ [Next]_vars => (PhysInv /\ TablesInv)'
  BY PhysStep, TablesStep
<1>3. PhysInv /\ TablesInv => TablesReachable
  <2> SUFFICES ASSUME PhysInv, TablesInv, HeapReady PROVE TablesReachable
    BY DEF TablesReachable
  <2>1. TablesApart /\ DirPlaced /\ TablesFromZero
    BY DEF TablesInv, HeapReady
  <2>2. DOMAIN pte = 0 .. MappedPages - 1
    BY DEF PhysInv, MappedInOrder
  <2>3. \A page \in DOMAIN pte : tables[TableOf(page)] # NULL
    BY <2>1, <2>2 DEF TablesApart, Made
  <2>4. /\ PageOf(dirAt) \in Nat /\ MappedPages \in Nat /\ PageOf(placement) \in Nat
        /\ PageOf(dirAt) + 2 <= MappedPages
        /\ PageOf(placement) + 1 <= PageOf(dirAt)
    <3>1. /\ MappedPages \in Nat /\ MappedPages <= nframes /\ nframes \in Nat
          /\ PageOf(dirAt) \in Nat /\ PageOf(placement) \in Nat
      BY MappedPagesFacts, PageOfNat
    <3>2. PageOf(dirAt) + 2 <= MappedPages /\ PageOf(placement) <= TableOf(MappedPages - 1) + 1
          /\ nframes \div Entries + 2 <= PageOf(dirAt)
      BY <2>1 DEF TablesFromZero, DirPlaced
    <3>3. MappedPages - 1 \in Nat /\ MappedPages - 1 <= nframes
      BY <3>1, <3>2
    <3>4. TableOf(MappedPages - 1) <= TableOf(nframes) /\ TableOf(MappedPages - 1) \in Nat
          /\ TableOf(nframes) \in Nat
      BY <3>1, <3>3, TableOfMonotone
    <3> QED BY <3>1, <3>2, <3>4 DEF TableOf
  <2>5. ASSUME NEW t \in Made
        PROVE  /\ tables[t] % PAGE_SIZE = 0
               /\ PageOf(tables[t]) \in DOMAIN pte
               /\ PageOf(tables[t]) \notin {PageOf(dirAt), PageOf(dirAt) + 1}
               /\ \A u \in TableIndex : tables[u] = tables[t] => u = t
    <3>1. PageOf(tables[t]) \in Nat
      BY MappedPagesFacts, PageOfNat DEF Made
    <3>2. \/ PageOf(dirAt) + 2 <= PageOf(tables[t]) /\ PageOf(tables[t]) < MappedPages
          \/ PageOf(tables[t]) < PageOf(placement)
      BY <2>1 DEF TablesFromZero
    <3>3. PageOf(tables[t]) \in 0 .. MappedPages - 1
      BY <2>4, <3>1, <3>2
    <3>4. PageOf(tables[t]) \notin {PageOf(dirAt), PageOf(dirAt) + 1}
      BY <2>4, <3>1, <3>2
    <3>5. \A u \in TableIndex : tables[u] = tables[t] => u = t
      BY <2>1 DEF TablesApart, Made
    <3> QED BY <2>1, <2>2, <3>3, <3>4, <3>5 DEF TablesApart
  <2> QED BY <2>3, <2>5 DEF TablesReachable, Made
<1> QED BY <1>1, <1>2, <1>3, PTL DEF Spec
=============================================================================
