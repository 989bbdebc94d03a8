---------------------------- MODULE Shell_proofs ----------------------------
(***************************************************************************)
(* Proofs about the ext2 image, the virtual file system and the shell, for *)
(* every image that the kernel can read, every path and every line: first  *)
(* the operations of Ext2 against what the image holds, then Vfs, then     *)
(* Shell.                                                                  *)
(***************************************************************************)
EXTENDS Shell, FiniteSetTheorems, SequenceTheorems, TLAPS

(* Least numbers and loops, as in SlabBins_proofs.                         *)

\* A set of natural numbers has a least one.
LEMMA LeastNumber ==
  ASSUME NEW T \in SUBSET Nat, T # {}
  PROVE  \E m \in T : \A n \in T : m <= n
<1> DEFINE R == OpToRel(<, Nat)
<1>1. IsWellFoundedOn(R, Nat)
  BY NatLessThanWellFounded, Zenon
<1>2. PICK m \in T : \A n \in T : ~(<<n, m>> \in R)
  <2> HIDE DEF R
  <2> QED BY <1>1, WFMin
<1>3. \A n \in T : n < m => <<n, m>> \in R
  BY DEF OpToRel
<1>4. \A n \in T : ~(n < m)
  <2> HIDE DEF R
  <2> QED BY <1>2, <1>3
<1>5. m \in Nat /\ \A n \in T : n \in Nat
  OBVIOUS
<1> QED BY <1>4, <1>5

\* Induction up to N: what holds before a loop and is kept by every turn.
LEMMA LoopInduction ==
  ASSUME NEW N \in Nat, NEW T, 0 \in T, \A k \in 1 .. N : k - 1 \in T => k \in T
  PROVE  \A k \in 0 .. N : k \in T
<1> SUFFICES ASSUME (0 .. N) \ T # {} PROVE FALSE
  OBVIOUS
<1>1. PICK m \in (0 .. N) \ T : \A n \in (0 .. N) \ T : m <= n
  <2>1. (0 .. N) \ T \in SUBSET Nat
    OBVIOUS
  <2> QED BY <2>1, LeastNumber
<1>2. m \in 1 .. N /\ m - 1 \in 0 .. N /\ m - 1 \in T
  BY <1>1
<1> QED BY <1>1, <1>2

\* f[k] is where a loop stands after k turns.
IsLoop(f, N, a, step) == f = [k \in 0 .. N |-> IF k = 0 THEN a ELSE step[k][f[k - 1]]]

\* A loop of N turns is well defined: there is a function that starts with a
\* and goes on with step[k] in turn k, if in[k] are values that step[k + 1] takes.
LEMMA LoopExists ==
  ASSUME NEW N \in Nat, NEW a, NEW in, NEW step, a \in in[0],
         \A k \in 1 .. N : \A x \in in[k - 1] : step[k][x] \in in[k]
  PROVE  \E f : IsLoop(f, N, a, step) /\ \A k \in 0 .. N : f[k] \in in[k]
<1> DEFINE UpTo(n, f) == /\ f = [k \in 0 .. n |-> IF k = 0 THEN a ELSE step[k][f[k - 1]]]
                         /\ \A k \in 0 .. n : f[k] \in in[k]
           T == {n \in 0 .. N : \E f : UpTo(n, f)}
<1>1. 0 \in T
  <2> DEFINE f == [k \in 0 .. 0 |-> a]
  <2>1. f[0] = a /\ \A k \in 0 .. 0 : k = 0
    OBVIOUS
  <2>2. f = [k \in 0 .. 0 |-> IF k = 0 THEN a ELSE step[k][f[k - 1]]]
    <3>1. \A k \in 0 .. 0 : a = IF k = 0 THEN a ELSE step[k][f[k - 1]]
      BY <2>1
    <3> QED BY <3>1
  <2>3. \A k \in 0 .. 0 : f[k] \in in[k]
    BY <2>1
  <2>4. UpTo(0, f)
    <3> HIDE DEF f
    <3> QED BY <2>2, <2>3
  <2>5. \E g : UpTo(0, g)
    <3> HIDE DEF f, UpTo
    <3> QED BY <2>4
  <2> HIDE DEF UpTo
  <2> QED BY <2>5
<1>2. ASSUME NEW n \in 1 .. N, n - 1 \in T PROVE n \in T
  <2>1. PICK f : UpTo(n - 1, f)
    BY <1>2
  <2>2. /\ DOMAIN f = 0 .. n - 1
        /\ \A k \in 0 .. n - 1 : f[k] = IF k = 0 THEN a ELSE step[k][f[k - 1]]
        /\ \A k \in 0 .. n - 1 : f[k] \in in[k]
    BY <2>1
  <2> DEFINE h == [k \in 0 .. n |-> IF k = n THEN step[n][f[n - 1]] ELSE f[k]]
  <2>3. \A k \in 0 .. n : h[k] = IF k = 0 THEN a ELSE step[k][h[k - 1]]
    BY <2>2
  <2>4. h[n] \in in[n]
    BY <2>2
  <2>5. \A k \in 0 .. n : h[k] \in in[k]
    BY <2>2, <2>4
  <2>6. h = [k \in 0 .. n |-> h[k]]
    OBVIOUS
  <2> HIDE DEF h
  <2>7. h = [k \in 0 .. n |-> IF k = 0 THEN a ELSE step[k][h[k - 1]]]
    BY <2>3, <2>6
  <2> QED BY <2>5, <2>7
<1>3. N \in T
  <2> HIDE DEF T
  <2> QED BY <1>1, <1>2, LoopInduction
<1>4. PICK f : UpTo(N, f)
  BY <1>3
<1> QED BY <1>4 DEF IsLoop
-----------------------------------------------------------------------------
(* Reading a file: Ext2.ReadInitrd against the bytes of the file.          *)

\* Quotient and remainder by the size of a block.
LEMMA Quotient ==
  ASSUME NEW n \in Nat
  PROVE  /\ n \div BLOCK_SIZE \in Nat /\ n % BLOCK_SIZE \in 0 .. BLOCK_SIZE - 1
         /\ n = BLOCK_SIZE * (n \div BLOCK_SIZE) + (n % BLOCK_SIZE)
BY ImageAssumption

LEMMA QuotientUnique ==
  ASSUME NEW j \in Int, NEW k \in Int, NEW q \in 0 .. BLOCK_SIZE - 1, NEW r \in 0 .. BLOCK_SIZE - 1,
         BLOCK_SIZE * j + q = BLOCK_SIZE * k + r
  PROVE  j = k /\ q = r
<1>1. BLOCK_SIZE \in Nat
  BY ImageAssumption
<1>2. ASSUME NEW a \in Int, NEW b \in Int, a < b
      PROVE  BLOCK_SIZE * a + BLOCK_SIZE <= BLOCK_SIZE * b
  <2>1. BLOCK_SIZE * (b - a - 1) >= 0
    BY <1>1, <1>2
  <2> QED BY <1>1, <2>1
<1>3. BLOCK_SIZE * j \in Int /\ BLOCK_SIZE * k \in Int
  BY <1>1
<1>4. ~(j < k)
  <2> SUFFICES ASSUME j < k PROVE FALSE
    OBVIOUS
  <2>1. BLOCK_SIZE * j + BLOCK_SIZE <= BLOCK_SIZE * k
    BY <1>2
  <2> QED BY <1>1, <1>3, <2>1
<1>5. ~(k < j)
  <2> SUFFICES ASSUME k < j PROVE FALSE
    OBVIOUS
  <2>1. BLOCK_SIZE * k + BLOCK_SIZE <= BLOCK_SIZE * j
    BY <1>2
  <2> QED BY <1>1, <1>3, <2>1
<1>6. j = k
  BY <1>4, <1>5
<1> QED BY <1>3, <1>6

\* The places of the buffer that a call of memcpy writes to.
To(p) == p.to .. p.to + p.len - 1

\* The calls of memcpy that read_initrd makes write to the first bytes of the
\* buffer, as many as were asked for, and to no others; and whatever writes to
\* a place takes the byte from its place in the file.
LEMMA PiecesFacts ==
  ASSUME NEW offset \in Nat, NEW end \in Nat, offset <= end
  PROVE  /\ UNION {To(p) : p \in Pieces(offset, end)} = 0 .. end - offset - 1
         /\ \A p \in Pieces(offset, end) : \A i \in To(p) :
              /\ p.k = (offset + i) \div BLOCK_SIZE
              /\ p.skip \in Int /\ p.to \in Int
              /\ p.skip + i - p.to = (offset + i) % BLOCK_SIZE
<1> DEFINE first == offset \div BLOCK_SIZE
           last == end \div BLOCK_SIZE
           skip == offset % BLOCK_SIZE
           rest == end % BLOCK_SIZE
           to(k) == BLOCK_SIZE * (k - first) - skip
           whole == [to |-> 0, k |-> first, skip |-> skip, len |-> end - offset]
           head == [to |-> 0, k |-> first, skip |-> skip, len |-> BLOCK_SIZE - skip]
           middle(k) == [to |-> to(k), k |-> k, skip |-> 0, len |-> BLOCK_SIZE]
           tail == [to |-> to(last), k |-> last, skip |-> 0, len |-> rest]
           P == Pieces(offset, end)
           count == end - offset
           Fits(p) == /\ p.to \in Int /\ p.len \in Int /\ p.k \in Nat /\ p.skip \in Nat
                      /\ BLOCK_SIZE * p.k + p.skip - p.to = offset
                      /\ p.skip + p.len <= BLOCK_SIZE
                      /\ p.to >= 0 /\ p.to + p.len <= count
           Covers(p, i) == p.to <= i /\ i < p.to + p.len
<1>1. BLOCK_SIZE \in Nat /\ BLOCK_SIZE > 0
  BY ImageAssumption
<1>2. P = IF first = last THEN {whole}
          ELSE {head} \cup {middle(k) : k \in first + 1 .. last - 1} \cup {tail}
  BY DEF Pieces
<1>3. /\ first \in Nat /\ last \in Nat /\ skip \in 0 .. BLOCK_SIZE - 1 /\ rest \in 0 .. BLOCK_SIZE - 1
      /\ offset = BLOCK_SIZE * first + skip /\ end = BLOCK_SIZE * last + rest
  BY Quotient
<1> HIDE DEF first, last, skip, rest, P
\* Products by the size of a block.
<1>4. \A j, k \in Int : /\ BLOCK_SIZE * j \in Int
                        /\ BLOCK_SIZE * (k - j) = BLOCK_SIZE * k - BLOCK_SIZE * j
                        /\ j < k => BLOCK_SIZE * j + BLOCK_SIZE <= BLOCK_SIZE * k
  <2> TAKE j, k \in Int
  <2>1. j < k => BLOCK_SIZE * (k - j - 1) >= 0
    BY <1>1
  <2> QED BY <1>1, <2>1
<1>5. first <= last
  <2> SUFFICES ASSUME last < first PROVE FALSE
    BY <1>3
  <2>1. BLOCK_SIZE * last + BLOCK_SIZE <= BLOCK_SIZE * first /\ BLOCK_SIZE * last \in Int
        /\ BLOCK_SIZE * first \in Int
    BY <1>3, <1>4
  <2> QED BY <1>1, <1>3, <2>1
<1>6. /\ BLOCK_SIZE * first \in Int /\ BLOCK_SIZE * last \in Int
      /\ first # last => first < last /\ BLOCK_SIZE * first + BLOCK_SIZE <= BLOCK_SIZE * last
  BY <1>3, <1>4, <1>5
<1>7. \A k \in first + 1 .. last - 1 :
        /\ k \in Nat /\ to(k) \in Int
        /\ BLOCK_SIZE * k - to(k) = offset
        /\ BLOCK_SIZE * first + BLOCK_SIZE <= BLOCK_SIZE * k
        /\ BLOCK_SIZE * k + BLOCK_SIZE <= BLOCK_SIZE * last
  <2> TAKE k \in first + 1 .. last - 1
  <2>1. k \in Nat /\ first < k /\ k < last /\ k \in Int /\ first \in Int /\ last \in Int
    BY <1>3
  <2>2. /\ BLOCK_SIZE * k \in Int /\ BLOCK_SIZE * (k - first) = BLOCK_SIZE * k - BLOCK_SIZE * first
        /\ BLOCK_SIZE * first + BLOCK_SIZE <= BLOCK_SIZE * k
        /\ BLOCK_SIZE * k + BLOCK_SIZE <= BLOCK_SIZE * last
    BY <1>4, <2>1
  <2> QED BY <1>1, <1>3, <1>6, <2>1, <2>2
<1>8. to(last) \in Int /\ BLOCK_SIZE * last - to(last) = offset
  <2>1. BLOCK_SIZE * (last - first) = BLOCK_SIZE * last - BLOCK_SIZE * first
    BY <1>3, <1>4
  <2> QED BY <1>1, <1>3, <1>6, <2>1
<1> HIDE DEF to
<1>9. \A p \in P : Fits(p)
  <2> TAKE p \in P
  <2>1. CASE first = last /\ p = whole
    BY <1>1, <1>3, <1>6, <2>1
  <2>2. CASE first # last /\ p = head
    BY <1>1, <1>3, <1>6, <2>2
  <2>3. CASE first # last /\ \E k \in first + 1 .. last - 1 : p = middle(k)
    <3>1. PICK k \in first + 1 .. last - 1 : p = middle(k)
      BY <2>3
    <3> QED BY <1>1, <1>3, <1>6, <1>7, <2>3, <3>1
  <2>4. CASE first # last /\ p = tail
    BY <1>1, <1>3, <1>6, <1>8, <2>4
  <2> QED BY <1>2, <2>1, <2>2, <2>3, <2>4
<1>10. \A i \in 0 .. count - 1 : \E p \in P : Covers(p, i)
  <2> TAKE i \in 0 .. count - 1
  <2> DEFINE k == (offset + i) \div BLOCK_SIZE
             r == (offset + i) % BLOCK_SIZE
  <2>1. i \in Nat /\ i < count /\ offset + i \in Nat
    OBVIOUS
  <2>2. k \in Nat /\ r \in 0 .. BLOCK_SIZE - 1 /\ offset + i = BLOCK_SIZE * k + r
    BY <2>1, Quotient
  <2> HIDE DEF k, r
  <2>3. BLOCK_SIZE * k \in Int /\ (k < first => BLOCK_SIZE * k + BLOCK_SIZE <= BLOCK_SIZE * first)
        /\ (last < k => BLOCK_SIZE * last + BLOCK_SIZE <= BLOCK_SIZE * k)
    BY <1>3, <1>4, <2>2
  <2>4. first <= k /\ k <= last
    BY <1>1, <1>3, <1>6, <2>1, <2>2, <2>3
  <2>5. CASE first = last
    <3>1. whole \in P
      BY <1>2, <2>5
    <3> QED BY <2>1, <3>1
  <2>6. CASE first # last /\ k = first
    <3>1. head \in P
      BY <1>2, <2>6
    <3>2. Covers(head, i)
      BY <1>1, <1>3, <1>6, <2>1, <2>2, <2>6
    <3> QED BY <3>1, <3>2
  <2>7. CASE first < k /\ k < last
    <3>1. k \in first + 1 .. last - 1
      BY <1>3, <2>2, <2>7
    <3>2. middle(k) \in P
      BY <1>2, <1>3, <2>7, <3>1
    <3>3. Covers(middle(k), i)
      BY <1>1, <1>3, <1>6, <1>7, <2>1, <2>2, <3>1
    <3> QED BY <3>2, <3>3
  <2>8. CASE first # last /\ k = last
    <3>1. tail \in P
      BY <1>2, <2>8
    <3>2. Covers(tail, i)
      BY <1>1, <1>3, <1>6, <1>8, <2>1, <2>2, <2>8
    <3> QED BY <3>1, <3>2
  <2> QED BY <1>3, <2>2, <2>4, <2>5, <2>6, <2>7, <2>8
<1>11. UNION {To(p) : p \in P} = 0 .. count - 1
  <2>1. ASSUME NEW p \in P, NEW i \in To(p) PROVE i \in 0 .. count - 1
    <3>1. Fits(p)
      BY <1>9
    <3> QED BY <2>1, <3>1 DEF To
  <2>2. ASSUME NEW i \in 0 .. count - 1 PROVE \E p \in P : i \in To(p)
    <3>1. PICK p \in P : Covers(p, i)
      BY <1>10
    <3>2. Fits(p)
      BY <1>9
    <3>3. i \in To(p)
      BY <3>1, <3>2 DEF To
    <3> QED BY <3>3
  <2> QED BY <2>1, <2>2
<1>12. ASSUME NEW p \in P, NEW i \in To(p)
       PROVE  /\ p.k = (offset + i) \div BLOCK_SIZE
              /\ p.skip \in Int /\ p.to \in Int
              /\ p.skip + i - p.to = (offset + i) % BLOCK_SIZE
  <2> DEFINE r == p.skip + i - p.to
             k == (offset + i) \div BLOCK_SIZE
             q == (offset + i) % BLOCK_SIZE
  <2>1. Fits(p)
    BY <1>9
  <2>2. i \in Nat /\ i >= p.to /\ i < p.to + p.len
    BY <2>1 DEF To
  <2>3. BLOCK_SIZE * p.k \in Int
    <3>1. p.k \in Int
      BY <2>1
    <3> QED BY <1>4, <3>1
  <2>4. r \in 0 .. BLOCK_SIZE - 1 /\ offset + i = BLOCK_SIZE * p.k + r
    BY <1>1, <2>1, <2>2, <2>3
  <2>5. k \in Int /\ q \in 0 .. BLOCK_SIZE - 1 /\ offset + i = BLOCK_SIZE * k + q
    <3>1. offset + i \in Nat
      BY <2>2
    <3> QED BY <3>1, Quotient
  <2>6. p.k \in Int
    BY <2>1
  <2> HIDE DEF r, k, q
  <2>7. p.k = k /\ r = q
    BY <2>4, <2>5, <2>6, QuotientUnique
  <2> QED BY <2>1, <2>7 DEF r, k, q
<1> QED BY <1>11, <1>12 DEF P

\* The least number of a set, as the models take it.
LEMMA MinFacts ==
  ASSUME NEW T \in SUBSET Nat, T # {}
  PROVE  Min(T) \in T /\ Min(T) \in Nat /\ \A n \in T : Min(T) <= n
<1>1. \E m \in T : \A n \in T : m <= n
  BY LeastNumber
<1> QED BY <1>1 DEF Min

\* A read returns the bytes of the file from the offset on, as many as asked
\* for or as there are.
LEMMA ReadFile ==
  ASSUME NEW ino \in DOMAIN Inode, NEW offset \in Nat, NEW size \in Nat, offset <= Inode[ino].size
  PROVE  LET count == Min({size, Inode[ino].size - offset})
         IN ReadInitrd(ino, offset, size)
              = [count |-> count, buffer |-> [i \in 0 .. count - 1 |-> Byte(ino, offset + i)]]
<1> DEFINE all == Inode[ino].size
           end == IF offset + size > all THEN all ELSE offset + size
           count == Min({size, all - offset})
           P == Pieces(offset, end)
           piece(i) == CHOOSE p \in P : i \in To(p)
           from(i) == GetInodeBlock(ino, piece(i).k) + piece(i).skip + i - piece(i).to
           places == UNION {To(p) : p \in P}
<1>1. all \in Nat /\ \A i \in 0 .. all - 1 : GetInodeBlock(ino, i \div BLOCK_SIZE) \in Nat
  BY ImageAssumption
<1>2. end \in Nat /\ offset <= end /\ end <= all
  BY <1>1
<1>3. count = end - offset
  <2>1. {size, all - offset} \in SUBSET Nat /\ {size, all - offset} # {}
    BY <1>1
  <2> DEFINE m == Min({size, all - offset})
  <2>2. m \in {size, all - offset} /\ m <= size /\ m <= all - offset
    BY <2>1, MinFacts
  <2> HIDE DEF m
  <2>3. m = end - offset
    BY <1>1, <2>2
  <2> QED BY <2>3 DEF m
<1>4. ReadInitrd(ino, offset, size) = [count |-> end - offset, buffer |-> [i \in places |-> from(i)]]
  BY DEF ReadInitrd, To
<1> HIDE DEF end, count, P
<1>5. /\ places = 0 .. end - offset - 1
      /\ \A p \in P : \A i \in To(p) :
           /\ p.k = (offset + i) \div BLOCK_SIZE
           /\ p.skip \in Int /\ p.to \in Int
           /\ p.skip + i - p.to = (offset + i) % BLOCK_SIZE
  BY <1>2, PiecesFacts DEF P
<1>6. ASSUME NEW i \in places PROVE from(i) = Byte(ino, offset + i)
  <2> DEFINE q == piece(i)
             block == GetInodeBlock(ino, (offset + i) \div BLOCK_SIZE)
  <2>1. q \in P /\ i \in To(q)
    OBVIOUS
  <2>2. i \in Nat /\ offset + i \in 0 .. all - 1
    BY <1>1, <1>2, <1>5
  <2> HIDE DEF q
  <2>3. /\ q.k = (offset + i) \div BLOCK_SIZE /\ q.skip \in Int /\ q.to \in Int
        /\ q.skip + i - q.to = (offset + i) % BLOCK_SIZE
    BY <1>5, <2>1
  <2>4. block \in Int /\ Byte(ino, offset + i) = block + ((offset + i) % BLOCK_SIZE)
    BY <1>1, <2>2 DEF Byte
  <2> HIDE DEF block
  <2>5. from(i) = block + q.skip + i - q.to
    BY <2>3 DEF q, block
  <2>6. block + q.skip + i - q.to = block + (q.skip + i - q.to)
    BY <2>2, <2>3, <2>4
  <2> QED BY <2>3, <2>4, <2>5, <2>6
<1> HIDE DEF places, from
<1>7. [i \in places |-> from(i)] = [i \in 0 .. end - offset - 1 |-> Byte(ino, offset + i)]
  BY <1>5, <1>6
<1> QED BY <1>3, <1>4, <1>7 DEF count
-----------------------------------------------------------------------------
(* The entries of a directory: Ext2.Entries against Within.                *)

\* What ImageAssumption says of a directory: its entries lie at the offsets in
\* Offsets from its first block on, and tile it.
Block(ino) == GetInodeBlock(ino, 0)
Offsets(ino) == {o \in 0 .. Inode[ino].size - 1 : Block(ino) + o \in Within(ino)}
NextOffset(ino, o) == o + Dirent[Block(ino) + o].rec_len

LEMMA DirectoryTiles ==
  ASSUME NEW ino \in DOMAIN Inode, IsDir(ino), Inode[ino].size > 0
  PROVE  /\ Inode[ino].size \in Nat /\ Block(ino) \in Nat
         /\ \A a : a \in Within(ino) <=> \E o \in Offsets(ino) : a = Block(ino) + o
         /\ 0 \in Offsets(ino)
         /\ \A o \in Offsets(ino) :
              /\ NextOffset(ino, o) \in Nat /\ NextOffset(ino, o) > o
              /\ NextOffset(ino, o) \in Offsets(ino) \cup {Inode[ino].size}
              /\ \A q \in Offsets(ino) : q <= o \/ NextOffset(ino, o) <= q
<1> DEFINE S == Inode[ino].size
           b == Block(ino)
<1>1. /\ S \in Nat /\ S > 0
      /\ \A i \in 0 .. S - 1 : GetInodeBlock(ino, i \div BLOCK_SIZE) \in Nat
      /\ Readable(ino)
  BY ImageAssumption
<1>2. b \in Nat
  <2>1. 0 \div BLOCK_SIZE = 0
    BY ImageAssumption
  <2>2. 0 \in 0 .. S - 1
    BY <1>1
  <2> QED BY <1>1, <2>1, <2>2 DEF Block
<1>3. /\ \A i \in 0 .. S - 1 : Byte(ino, i) = b + i
      /\ b \in Within(ino) \cup {b + S}
      /\ \A a \in Within(ino) :
           /\ a + Dirent[a].rec_len \in Within(ino) \cup {b + S}
           /\ \A c \in Within(ino) : c <= a \/ a + Dirent[a].rec_len <= c
  BY <1>1 DEF Readable, Block
<1>4. \A a : a \in Within(ino) <=> a \in DOMAIN Dirent /\ \E i \in 0 .. S - 1 : a = b + i
  BY <1>3 DEF Within
<1> HIDE DEF b, S
<1>5. \A a \in Within(ino) : a - b \in Offsets(ino) /\ a = b + (a - b)
  BY <1>1, <1>2, <1>4 DEF Offsets, b, S
<1>6. \A o \in Offsets(ino) : o \in 0 .. S - 1 /\ b + o \in Within(ino)
  BY DEF Offsets, b, S
<1>7. 0 \in Offsets(ino)
  <2>1. b # b + S /\ b = b + 0
    BY <1>1, <1>2
  <2> QED BY <1>1, <1>2, <1>3, <2>1 DEF Offsets, b, S
<1>8. ASSUME NEW o \in Offsets(ino)
      PROVE  /\ NextOffset(ino, o) \in Nat /\ NextOffset(ino, o) > o
             /\ NextOffset(ino, o) \in Offsets(ino) \cup {S}
             /\ \A q \in Offsets(ino) : q <= o \/ NextOffset(ino, o) <= q
  <2> DEFINE r == Dirent[b + o].rec_len
  <2>1. o \in Nat /\ b + o \in Within(ino) /\ b + o \in DOMAIN Dirent
    BY <1>1, <1>4, <1>6
  <2>2. r \in Nat /\ r > 0
    BY <2>1, ImageAssumption
  <2>3. /\ b + o + r \in Within(ino) \cup {b + S}
        /\ \A c \in Within(ino) : c <= b + o \/ b + o + r <= c
    BY <1>3, <2>1
  <2> HIDE DEF r
  <2>4. NextOffset(ino, o) = o + r
    BY DEF NextOffset, b, r
  <2>5. o + r \in Offsets(ino) \cup {S}
    <3>1. CASE b + o + r \in Within(ino)
      <4>1. PICK a \in Within(ino) : a = b + o + r
        BY <3>1
      <4>2. a - b \in Offsets(ino)
        BY <1>5
      <4>3. a - b = o + r
        BY <1>2, <2>1, <2>2, <4>1
      <4> QED BY <4>2, <4>3
    <3>2. CASE b + o + r = b + S
      BY <1>1, <1>2, <2>1, <2>2, <3>2
    <3> QED BY <2>3, <3>1, <3>2
  <2>6. ASSUME NEW q \in Offsets(ino) PROVE q <= o \/ o + r <= q
    <3>1. b + q \in Within(ino) /\ q \in Int
      BY <1>1, <1>6
    <3>2. b + q <= b + o \/ b + o + r <= b + q
      BY <2>3, <3>1
    <3> QED BY <1>2, <2>1, <2>2, <3>1, <3>2
  <2>7. o + r \in Nat /\ o + r > o
    BY <2>1, <2>2
  <2> QED BY <2>4, <2>5, <2>6, <2>7
<1> QED BY <1>1, <1>2, <1>5, <1>6, <1>7, <1>8 DEF b, S

\* The loops visit the entries of a directory one after the other, all of them
\* and nothing else, and no entries in a node without bytes.
LEMMA EntriesAreWithin ==
  ASSUME NEW ino \in DOMAIN Inode, IsDir(ino) \/ Inode[ino].size = 0
  PROVE  /\ Entries(ino) \in Seq(Nat)
         /\ \A a : a \in Within(ino) <=> \E i \in 1 .. Len(Entries(ino)) : a = Entries(ino)[i]
         /\ \A i, j \in 1 .. Len(Entries(ino)) : i < j => Entries(ino)[i] < Entries(ino)[j]
<1> DEFINE S == Inode[ino].size
           b == Block(ino)
           E == Offsets(ino)
           Ahead(n, g) == [o \in Nat |-> IF n = 0 \/ o >= S THEN <<>>
                                         ELSE <<b + o>> \o g[n - 1][NextOffset(ino, o)]]
           UpTo(n, h) == h = [k \in 0 .. n |-> Ahead(k, h)]
           from == CHOOSE h : UpTo(S, h)
           \* s lists the entries from offset o on.
           Lists(s, o) == /\ s \in Seq(Nat)
                          /\ \A i \in 1 .. Len(s) : \E q \in E : q >= o /\ s[i] = b + q
                          /\ \A q \in E : q >= o => \E i \in 1 .. Len(s) : s[i] = b + q
                          /\ \A i, j \in 1 .. Len(s) : i < j => s[i] < s[j]
<1>1. Entries(ino) = from[S][0]
  BY DEF Entries, Visited, NextOffset, Block
<1>2. S \in Nat
  BY ImageAssumption
<1>3. UpTo(S, from)
  <2> DEFINE T == {n \in 0 .. S : \E h : UpTo(n, h)}
  <2>1. 0 \in T
    <3> DEFINE h == [k \in 0 .. 0 |-> [o \in Nat |-> <<>>]]
    <3>1. \A k \in 0 .. 0 : Ahead(k, h) = [o \in Nat |-> <<>>]
      OBVIOUS
    <3>2. UpTo(0, h)
      <4> HIDE DEF Ahead
      <4> QED BY <3>1
    <3> HIDE DEF h, UpTo
    <3> QED BY <1>2, <3>2
  <2>2. ASSUME NEW n \in 1 .. S, n - 1 \in T PROVE n \in T
    <3>1. PICK h : UpTo(n - 1, h)
      BY <2>2
    <3> DEFINE g == [k \in 0 .. n |-> IF k = n THEN Ahead(n, h) ELSE h[k]]
    <3>2. \A k \in 0 .. n - 1 : h[k] = Ahead(k, h) /\ g[k] = h[k]
      <4> HIDE DEF Ahead
      <4> QED BY <3>1
    <3>3. \A k \in 1 .. n : g[k - 1] = h[k - 1]
      BY <3>2
    <3> HIDE DEF g
    <3>4. \A k \in 0 .. n : Ahead(k, g) = Ahead(k, h)
      <4> TAKE k \in 0 .. n
      <4>1. CASE k = 0
        BY <4>1
      <4>2. CASE k # 0
        BY <3>3, <4>2
      <4> QED BY <4>1, <4>2
    <3> HIDE DEF Ahead
    <3>5. \A k \in 0 .. n : g[k] = Ahead(k, g)
      <4> TAKE k \in 0 .. n
      <4>1. CASE k = n
        BY <3>4, <4>1 DEF g
      <4>2. CASE k # n
        BY <3>2, <3>4, <4>2
      <4> QED BY <4>1, <4>2
    <3>6. g = [k \in 0 .. n |-> g[k]]
      BY DEF g
    <3>7. UpTo(n, g)
      BY <3>5, <3>6
    <3> QED BY <3>7
  <2>3. S \in T
    <3> HIDE DEF T
    <3> QED BY <1>2, <2>1, <2>2, LoopInduction
  <2>4. \E h : UpTo(S, h)
    BY <2>3
  <2> HIDE DEF UpTo
  <2> QED BY <2>4
<1> HIDE DEF from
<1>4. \A n \in 0 .. S : \A o \in Nat :
        /\ o >= S => from[n][o] = <<>>
        /\ n # 0 /\ o < S => from[n][o] = <<b + o>> \o from[n - 1][NextOffset(ino, o)]
  <2>1. \A n \in 0 .. S : from[n] = Ahead(n, from)
    <3> HIDE DEF Ahead
    <3> QED BY <1>2, <1>3
  <2> TAKE n \in 0 .. S
  <2> TAKE o \in Nat
  <2>2. from[n][o] = IF n = 0 \/ o >= S THEN <<>>
                     ELSE <<b + o>> \o from[n - 1][NextOffset(ino, o)]
    BY <2>1
  <2>3. ~(o < S /\ o >= S)
    BY <1>2
  <2> HIDE DEF b, S
  <2> QED BY <2>2, <2>3
<1>5. CASE S = 0
  <2>1. Entries(ino) = <<>> /\ Within(ino) = {}
    BY <1>1, <1>4, <1>5 DEF Within
  <2> QED BY <2>1
<1>6. CASE S > 0
  <2>1. /\ b \in Nat /\ 0 \in E /\ \A o \in E : o \in 0 .. S - 1
        /\ \A a : a \in Within(ino) <=> \E o \in E : a = b + o
        /\ \A o \in E : /\ NextOffset(ino, o) \in Nat /\ NextOffset(ino, o) > o
                        /\ NextOffset(ino, o) \in E \cup {S}
                        /\ \A q \in E : q <= o \/ NextOffset(ino, o) <= q
    <3>1. IsDir(ino)
      BY <1>6
    <3>2. \A o \in E : o \in 0 .. S - 1
      BY DEF Offsets
    <3> HIDE DEF E, S, b
    <3> QED BY <1>6, <3>1, <3>2, DirectoryTiles DEF E, S, b
  <2> HIDE DEF S, b, E
  <2> DEFINE T == {n \in 0 .. S : \A o \in E \cup {S} : S - o <= n => Lists(from[n][o], o)}
  <2>2. \A n \in 0 .. S : Lists(from[n][S], S)
    <3> TAKE n \in 0 .. S
    <3>1. from[n][S] = <<>>
      <4>1. \A o \in Nat : o >= S => from[n][o] = <<>>
        BY <1>4
      <4>2. S \in Nat /\ S >= S
        BY <1>2
      <4> QED BY <4>1, <4>2, Zenon
    <3>2. \A q \in E : ~(q >= S)
      BY <1>2, <2>1
    <3>3. Lists(<<>>, S)
      BY <3>2
    <3> HIDE DEF Lists
    <3> QED BY <3>1, <3>3
  <2>3. 0 \in T
    <3>1. \A o \in E \cup {S} : S - o <= 0 => o = S
      BY <1>2, <2>1
    <3> HIDE DEF Lists
    <3> QED BY <1>2, <2>2, <3>1
  <2>4. ASSUME NEW n \in 1 .. S, n - 1 \in T PROVE n \in T
    <3> SUFFICES ASSUME NEW o \in E, S - o <= n PROVE Lists(from[n][o], o)
      <4> HIDE DEF Lists
      <4> QED BY <1>2, <2>2
    <3> DEFINE next == NextOffset(ino, o)
               rest == from[n - 1][next]
               all == <<b + o>> \o rest
    <3>1. /\ o \in Nat /\ o < S /\ next \in Nat /\ next > o /\ next \in E \cup {S}
          /\ \A q \in E : q \in Nat /\ (q <= o \/ next <= q)
      BY <1>2, <2>1
    <3> HIDE DEF next
    <3>2. S - next <= n - 1
      BY <1>2, <3>1
    <3>3. Lists(rest, next)
      BY <2>4, <3>1, <3>2
    <3>4. from[n][o] = all
      <4>1. n \in 0 .. S /\ o \in Nat /\ n # 0 /\ o < S
        BY <1>2, <3>1
      <4> HIDE DEF Lists, T
      <4> QED BY <1>4, <4>1, Zenon DEF next
    <3> HIDE DEF rest
    <3>5. /\ all \in Seq(Nat) /\ Len(all) = Len(rest) + 1 /\ Len(rest) \in Nat
          /\ all[1] = b + o /\ \A i \in 1 .. Len(rest) : all[i + 1] = rest[i]
      BY <2>1, <3>1, <3>3
    <3> HIDE DEF all
    <3>6. \A i \in 1 .. Len(all) : i = 1 \/ (i - 1 \in 1 .. Len(rest) /\ all[i] = rest[i - 1])
      <4> TAKE i \in 1 .. Len(all)
      <4>1. CASE i # 1
        <5>1. i - 1 \in 1 .. Len(rest) /\ i - 1 + 1 = i
          BY <3>5, <4>1
        <5> QED BY <3>5, <5>1
      <4> QED BY <4>1
    <3>7. \A i \in 1 .. Len(all) : \E q \in E : q >= o /\ all[i] = b + q
      <4> TAKE i \in 1 .. Len(all)
      <4>1. CASE i = 1
        BY <3>1, <3>5, <4>1
      <4>2. CASE i # 1
        <5>1. PICK q \in E : q >= next /\ rest[i - 1] = b + q
          BY <3>3, <3>6, <4>2
        <5> QED BY <3>1, <3>6, <4>2, <5>1
      <4> QED BY <4>1, <4>2
    <3>8. \A q \in E : q >= o => \E i \in 1 .. Len(all) : all[i] = b + q
      <4> SUFFICES ASSUME NEW q \in E, q >= o PROVE \E i \in 1 .. Len(all) : all[i] = b + q
        OBVIOUS
      <4>1. CASE q = o
        BY <3>5, <4>1
      <4>2. CASE q # o
        <5>1. q >= next
          BY <3>1, <4>2
        <5>2. PICK i \in 1 .. Len(rest) : rest[i] = b + q
          BY <3>3, <5>1
        <5>3. i + 1 \in 1 .. Len(all)
          BY <3>5
        <5> QED BY <3>5, <5>2, <5>3
      <4> QED BY <4>1, <4>2
    <3>9. \A i, j \in 1 .. Len(all) : i < j => all[i] < all[j]
      <4> SUFFICES ASSUME NEW i \in 1 .. Len(all), NEW j \in 1 .. Len(all), i < j
                   PROVE  all[i] < all[j]
        OBVIOUS
      <4>1. j # 1 /\ j - 1 \in 1 .. Len(rest) /\ all[j] = rest[j - 1]
        BY <3>5, <3>6
      <4>2. CASE i = 1
        <5>1. PICK q \in E : q >= next /\ rest[j - 1] = b + q
          BY <3>3, <4>1
        <5>2. q \in Nat
          BY <3>1
        <5>3. q > o
          BY <3>1, <5>1, <5>2
        <5> QED BY <2>1, <3>1, <3>5, <4>1, <4>2, <5>1, <5>2, <5>3
      <4>3. CASE i # 1
        <5>1. i - 1 \in 1 .. Len(rest) /\ all[i] = rest[i - 1]
          BY <3>6, <4>3
        <5>2. i - 1 < j - 1
          BY <3>5
        <5> QED BY <3>3, <4>1, <5>1, <5>2
      <4> QED BY <4>2, <4>3
    <3> QED BY <3>4, <3>5, <3>7, <3>8, <3>9
  <2>5. S \in T
    <3> HIDE DEF T
    <3> QED BY <1>2, <2>3, <2>4, LoopInduction
  <2>6. Lists(Entries(ino), 0)
    <3>1. S - 0 <= S /\ 0 \in E \cup {S}
      BY <1>2, <2>1
    <3>2. Lists(from[S][0], 0)
      <4> HIDE DEF Lists
      <4> QED BY <2>5, <3>1
    <3> HIDE DEF Lists
    <3> QED BY <1>1, <3>2
  <2>7. \A q \in E : q >= 0
    BY <2>1
  <2> DEFINE e == Entries(ino)
  <2> HIDE DEF e
  <2>8. Lists(e, 0)
    <3> HIDE DEF Lists
    <3> QED BY <2>6 DEF e
  <2>9. \A a : a \in Within(ino) <=> \E i \in 1 .. Len(e) : a = e[i]
    <3>1. ASSUME NEW q \in E PROVE \E i \in 1 .. Len(e) : e[i] = b + q
      BY <2>7, <2>8, Zenon
    <3>2. ASSUME NEW i \in 1 .. Len(e) PROVE \E q \in E : e[i] = b + q
      BY <2>8, Zenon
    <3>3. \A a : a \in Within(ino) <=> \E q \in E : a = b + q
      BY <2>1
    <3> HIDE DEF Lists
    <3>4. ASSUME NEW a \in Within(ino) PROVE \E i \in 1 .. Len(e) : a = e[i]
      <4>1. PICK q \in E : a = b + q
        BY <3>3, Zenon
      <4>2. PICK i \in 1 .. Len(e) : e[i] = b + q
        BY <3>1
      <4> QED BY <4>1, <4>2, Zenon
    <3>5. ASSUME NEW i \in 1 .. Len(e) PROVE e[i] \in Within(ino)
      BY <3>2, <3>3, Zenon
    <3> QED BY <3>4, <3>5, Zenon
  <2>10. e \in Seq(Nat) /\ \A i, j \in 1 .. Len(e) : i < j => e[i] < e[j]
    BY <2>8, Zenon
  <2> HIDE DEF Lists
  <2> QED BY <2>9, <2>10, Zenon DEF e
<1> QED BY <1>2, <1>5, <1>6
-----------------------------------------------------------------------------
(* The operations of a node against Within: finddir, readdir.              *)

\* The flags of a node.  Only a directory has FS_DIRECTORY and neither FS_FILE
\* nor FS_CHARDEVICE; other types that have it have no bytes.
LEMMA FlagFacts ==
  ASSUME NEW ino \in DOMAIN Inode
  PROVE  /\ IsDir(ino) <=> NodeFlags(ino) \cap {"REG", "DIR", "CHR"} = {"DIR"}
         /\ "DIR" \in NodeFlags(ino) => IsDir(ino) \/ Inode[ino].size = 0
<1> DEFINE mode == Inode[ino].mode
<1>1. /\ mode \in {{15, 14}, {15, 13}, {15}, {14, 13}, {14}, {13}, {12}}
      /\ Inode[ino].size \in Nat
      /\ Inode[ino].size > 0 => mode \in {{15}, {14}, {15, 13}}
  BY ImageAssumption DEF TypeBits
<1>2. IsDir(ino) <=> mode = {14}
  BY DEF IsDir, TypeBits
<1>3. /\ "REG" \in NodeFlags(ino) <=> 15 \in mode
      /\ "DIR" \in NodeFlags(ino) <=> 14 \in mode
      /\ "CHR" \in NodeFlags(ino) <=> 13 \in mode
  BY DEF NodeFlags, TypeBits
<1> HIDE DEF mode
<1>4. 14 \in mode /\ 15 \notin mode /\ 13 \notin mode <=> mode = {14}
  BY <1>1
<1>5. NodeFlags(ino) \cap {"REG", "DIR", "CHR"} = {"DIR"} <=> mode = {14}
  BY <1>3, <1>4
<1>6. 14 \in mode => mode = {14} \/ Inode[ino].size = 0
  BY <1>1
<1> QED BY <1>2, <1>3, <1>5, <1>6

\* The nodes that the entries of that name lead to, from any of some nodes.
Children(nodes, name) ==
  {Dirent[a].inode : a \in {a \in UNION {Within(ino) : ino \in nodes} : Dirent[a].name = name}}

\* finddir_fs returns the node of the entry of that name, and NULL if there is
\* none or the node is not a directory.
LEMMA FindDirFsFinds ==
  ASSUME NEW ino \in DOMAIN Inode, NEW name
  PROVE  /\ FindDirFs(ino, name) \in DOMAIN Inode \cup {NULL}
         /\ Children({ino}, name) = {FindDirFs(ino, name)} \ {NULL}
<1> DEFINE hits == {a \in Compared(ino, name) : Dirent[a].name = name}
           found == FindDirFs(ino, name)
           named == {a \in Within(ino) : Dirent[a].name = name}
           e == Entries(ino)
<1>1. Children({ino}, name) = {Dirent[a].inode : a \in named}
  BY DEF Children
<1>2. CASE "DIR" \notin NodeFlags(ino)
  <2>1. Within(ino) = {}
    BY <1>2, FlagFacts DEF Within
  <2>2. found = NULL
    BY <1>2 DEF FindDirFs
  <2> QED BY <1>1, <2>1, <2>2
<1>3. CASE "DIR" \in NodeFlags(ino)
  <2>1. /\ e \in Seq(Nat)
        /\ \A a : a \in Within(ino) <=> \E i \in 1 .. Len(e) : a = e[i]
    BY <1>3, FlagFacts, EntriesAreWithin
  <2>2. found = IF hits = {} THEN NULL ELSE Dirent[CHOOSE a \in hits : TRUE].inode
    BY <1>3 DEF FindDirFs, FindDir
  <2>3. hits = {e[i] : i \in {i \in 1 .. Len(e) : /\ Dirent[e[i]].name = name
                                                  /\ \A j \in 1 .. i - 1 : Dirent[e[j]].name # name}}
    BY DEF Compared
  <2> HIDE DEF e, hits, found
  <2>4. hits \subseteq named
    BY <2>1, <2>3
  <2>5. named # {} => hits # {}
    <3> SUFFICES ASSUME NEW a \in named PROVE hits # {}
      OBVIOUS
    <3> DEFINE T == {i \in 1 .. Len(e) : Dirent[e[i]].name = name}
    <3>1. T \in SUBSET Nat /\ T # {}
      BY <2>1
    <3>2. PICK m \in T : \A i \in T : m <= i
      <4> HIDE DEF T
      <4> QED BY <3>1, LeastNumber
    <3>3. \A j \in 1 .. m - 1 : Dirent[e[j]].name # name
      <4> TAKE j \in 1 .. m - 1
      <4>1. Len(e) \in Nat /\ m \in 1 .. Len(e)
        BY <2>1, <3>2
      <4>2. j \in 1 .. Len(e) /\ ~(m <= j)
        BY <4>1
      <4>3. j \notin T
        BY <3>2, <4>2
      <4> QED BY <4>2, <4>3
    <3> QED BY <2>3, <3>2, <3>3
  <2>6. \A a, c \in named : a = c
    <3> SUFFICES ASSUME NEW a \in named, NEW c \in named PROVE a = c
      OBVIOUS
    <3>1. IsDir(ino)
      BY DEF Within
    <3>2. Readable(ino)
      BY <3>1, ImageAssumption
    <3> QED BY <3>2 DEF Readable
  <2>7. \A a \in named : Dirent[a].inode \in DOMAIN Inode /\ Dirent[a].inode # NULL
    BY ImageAssumption DEF Within
  <2>8. CASE named = {}
    <3>1. found = NULL
      BY <2>2, <2>4, <2>8
    <3> QED BY <1>1, <2>8, <3>1 DEF found
  <2>9. CASE named # {}
    <3>1. PICK a \in named : TRUE
      BY <2>9
    <3>2. hits = {a} /\ named = {a}
      BY <2>4, <2>5, <2>6, <3>1
    <3>3. found = Dirent[a].inode
      BY <2>2, <3>2
    <3>4. {Dirent[c].inode : c \in named} = {Dirent[a].inode}
      BY <3>2
    <3> QED BY <1>1, <2>7, <3>3, <3>4 DEF found
  <2> QED BY <2>8, <2>9
<1> QED BY <1>2, <1>3

\* readdir_fs returns one entry of a directory after the other.
LEMMA EntryOfLists ==
  ASSUME NEW ino \in DOMAIN Inode, NEW i \in Nat
  PROVE  /\ IsDir(ino) => EntryOf(ino, i) = IF i < Len(Entries(ino)) THEN Entries(ino)[i + 1] ELSE NULL
         /\ ~IsDir(ino) => EntryOf(ino, i) = NULL
<1>1. IsDir(ino) => EntryOf(ino, i) = ReadDir(ino, i)
  BY FlagFacts DEF EntryOf
<1>2. ~IsDir(ino) => EntryOf(ino, i) = NULL
  BY FlagFacts DEF EntryOf
<1> QED BY <1>1, <1>2 DEF ReadDir

\* Counted by the entries before it, the entry is the one asked for.
LEMMA EntryOfCounts ==
  ASSUME NEW ino \in DOMAIN Inode, NEW i \in Nat
  PROVE  IF i < Cardinality(Within(ino))
           THEN /\ EntryOf(ino, i) \in Within(ino)
                /\ Cardinality({a \in Within(ino) : a < EntryOf(ino, i)}) = i
           ELSE EntryOf(ino, i) = NULL
<1>1. CASE ~IsDir(ino)
  <2>1. Within(ino) = {}
    BY <1>1 DEF Within
  <2>2. Cardinality(Within(ino)) = 0
    BY <2>1, FS_EmptySet
  <2>3. EntryOf(ino, i) = NULL
    BY <1>1, EntryOfLists
  <2> QED BY <2>2, <2>3
<1>2. CASE IsDir(ino)
  <2> DEFINE e == Entries(ino)
             W == Within(ino)
             before == {a \in W : a < EntryOf(ino, i)}
  <2>1. /\ e \in Seq(Nat)
        /\ \A a : a \in W <=> \E j \in 1 .. Len(e) : a = e[j]
        /\ \A j, k \in 1 .. Len(e) : j < k => e[j] < e[k]
    BY <1>2, EntriesAreWithin
  <2>2. EntryOf(ino, i) = IF i < Len(e) THEN e[i + 1] ELSE NULL
    BY <1>2, EntryOfLists
  <2> HIDE DEF e, W
  \* The first n entries are n.
  <2>3. ASSUME NEW n \in 0 .. Len(e) PROVE Cardinality({e[j] : j \in 1 .. n}) = n
    <3> DEFINE T == {e[j] : j \in 1 .. n}
               f == [j \in 1 .. n |-> e[j]]
    <3>1. Len(e) \in Nat /\ n \in Nat /\ \A j \in 1 .. n : j \in 1 .. Len(e) /\ e[j] \in Nat
      BY <2>1
    <3>2. f \in [1 .. n -> T] /\ \A a \in T : \E j \in 1 .. n : f[j] = a
      OBVIOUS
    <3>3. \A j, k \in 1 .. n : f[j] = f[k] => j = k
      <4> SUFFICES ASSUME NEW j \in 1 .. n, NEW k \in 1 .. n, j # k PROVE f[j] # f[k]
        OBVIOUS
      <4>1. j \in 1 .. Len(e) /\ k \in 1 .. Len(e) /\ e[j] \in Nat /\ e[k] \in Nat
        BY <3>1
      <4>2. j < k \/ k < j
        BY <3>1
      <4>3. e[j] < e[k] \/ e[k] < e[j]
        BY <2>1, <4>1, <4>2
      <4> QED BY <4>1, <4>3
    <3>4. ExistsBijection(1 .. n, T)
      <4> HIDE DEF f, T
      <4> QED BY <3>2, <3>3 DEF ExistsBijection, Bijection, Injection, Surjection, IsInjective
    <3> HIDE DEF T
    <3> QED BY <3>1, <3>4, FS_CountingElements DEF T
  <2>4. Len(e) \in Nat
    BY <2>1
  <2>5. Cardinality(W) = Len(e)
    <3>1. W = {e[j] : j \in 1 .. Len(e)}
      BY <2>1
    <3>2. Len(e) \in 0 .. Len(e)
      BY <2>4
    <3> QED BY <2>3, <3>1, <3>2
  <2>6. CASE i < Len(e)
    <3>1. i + 1 \in 1 .. Len(e) /\ i \in 0 .. Len(e) /\ EntryOf(ino, i) = e[i + 1]
      BY <2>2, <2>4, <2>6
    <3>2. before = {e[j] : j \in 1 .. i}
      <4>1. ASSUME NEW j \in 1 .. Len(e) PROVE e[j] < e[i + 1] <=> j <= i
        <5>1. e[j] \in Nat /\ e[i + 1] \in Nat
          BY <2>1, <3>1
        <5>2. CASE j <= i
          BY <2>1, <3>1, <5>2
        <5>3. CASE j = i + 1
          BY <5>1, <5>3
        <5>4. CASE j > i + 1
          BY <2>1, <3>1, <5>1, <5>4
        <5> QED BY <5>2, <5>3, <5>4
      <4>2. \A j \in 1 .. i : j \in 1 .. Len(e)
        BY <2>4, <3>1
      <4>3. \A j \in 1 .. Len(e) : j <= i => j \in 1 .. i
        BY <2>4
      <4>4. \A a \in before : \E j \in 1 .. i : a = e[j]
        BY <2>1, <3>1, <4>1, <4>3
      <4>5. \A j \in 1 .. i : e[j] \in before
        BY <2>1, <3>1, <4>1, <4>2
      <4> HIDE DEF before
      <4> QED BY <4>4, <4>5
    <3>3. Cardinality(before) = i
      BY <2>3, <3>1, <3>2
    <3>4. EntryOf(ino, i) \in W
      BY <2>1, <3>1
    <3> QED BY <2>5, <2>6, <3>3, <3>4 DEF W
  <2>7. CASE ~(i < Len(e))
    BY <2>2, <2>5, <2>7 DEF W
  <2> QED BY <2>6, <2>7
<1> QED BY <1>1, <1>2
-----------------------------------------------------------------------------
(* Paths, name by name.                                                    *)

\* The nodes that the first names of a path name.
Reached(names) ==
  CHOOSE r : r = [n \in 0 .. Len(names) |->
                    IF n = 0 THEN {ROOT_INODE} ELSE Children(r[n - 1], names[n])]

LEMMA ReachedSteps ==
  ASSUME NEW names, Len(names) \in Nat
  PROVE  /\ Named(names) = Reached(names)[Len(names)]
         /\ Reached(names)[0] = {ROOT_INODE}
         /\ \A n \in 1 .. Len(names) : Reached(names)[n] = Children(Reached(names)[n - 1], names[n])
<1> DEFINE N == Len(names)
           start == {ROOT_INODE}
           Loop(h) == h = [n \in 0 .. N |-> IF n = 0 THEN start ELSE Children(h[n - 1], names[n])]
           r == CHOOSE h : Loop(h)
           in == [n \in 0 .. N |-> SUBSET (DOMAIN Inode)]
           step == [n \in 1 .. N |-> [nodes \in SUBSET (DOMAIN Inode) |-> Children(nodes, names[n])]]
<1>1. Named(names) = r[N]
  BY DEF Named, Children
<1>2. Reached(names) = r
  BY DEF Reached
<1>3. \A nodes, name : Children(nodes, name) \in SUBSET (DOMAIN Inode)
  <2>1. \A ino : Within(ino) \subseteq DOMAIN Dirent
    BY DEF Within
  <2> QED BY <2>1, ImageAssumption DEF Children
<1>4. N \in Nat /\ start \in SUBSET (DOMAIN Inode)
  BY ImageAssumption
<1> HIDE DEF N, start
<1>5. PICK f : IsLoop(f, N, start, step) /\ \A k \in 0 .. N : f[k] \in in[k]
  <2>1. start \in in[0]
    BY <1>4
  <2>2. \A k \in 1 .. N : \A x \in in[k - 1] : step[k][x] \in in[k]
    BY <1>3, <1>4
  <2> HIDE DEF in, step
  <2> QED BY <1>4, <2>1, <2>2, LoopExists
<1>6. Loop(f)
  <2>1. \A k \in 1 .. N : step[k][f[k - 1]] = Children(f[k - 1], names[k])
    BY <1>4, <1>5
  <2> HIDE DEF step, in
  <2>2. \A k \in 0 .. N : f[k] = IF k = 0 THEN start ELSE Children(f[k - 1], names[k])
    BY <1>4, <1>5, <2>1 DEF IsLoop
  <2>3. f = [k \in 0 .. N |-> f[k]]
    BY <1>5 DEF IsLoop
  <2> QED BY <2>2, <2>3
<1>7. Loop(r)
  <2> HIDE DEF Loop
  <2> QED BY <1>6
<1> HIDE DEF r
<1>8. r[0] = start /\ \A n \in 1 .. N : r[n] = Children(r[n - 1], names[n])
  BY <1>4, <1>7
<1> QED BY <1>1, <1>2, <1>8 DEF N, start

\* A path goes nowhere once a name is not found.
LEMMA NothingBehind ==
  ASSUME NEW names, Len(names) \in Nat, NEW n \in 0 .. Len(names), Reached(names)[n] = {}
  PROVE  Named(names) = {}
<1> DEFINE T == {k \in 0 .. Len(names) : n <= k => Reached(names)[k] = {}}
<1>1. 0 \in T
  OBVIOUS
<1>2. ASSUME NEW k \in 1 .. Len(names), k - 1 \in T PROVE k \in T
  <2>1. Reached(names)[k] = Children(Reached(names)[k - 1], names[k])
    BY ReachedSteps
  <2>2. Children({}, names[k]) = {}
    <3>1. UNION {Within(ino) : ino \in {}} = {}
      OBVIOUS
    <3> QED BY <3>1 DEF Children
  <2>3. CASE n = k
    BY <2>3
  <2>4. CASE n <= k - 1
    <3>1. Reached(names)[k - 1] = {}
      BY <1>2, <2>4
    <3>2. Reached(names)[k] = {}
      BY <2>1, <2>2, <3>1, Zenon
    <3> QED BY <3>2
  <2>5. CASE k < n
    BY <2>5
  <2> QED BY <2>3, <2>4, <2>5
<1>3. \A k \in 0 .. Len(names) : k \in T
  <2> HIDE DEF T
  <2> QED BY <1>1, <1>2, LoopInduction
<1> QED BY <1>3, ReachedSteps
-----------------------------------------------------------------------------
(* Vfs.  In kopen's loop the node is the one that the names so far name,   *)
(* and what the last call returned is what the image holds.                *)

Walked ==
  /\ Len(path) \in Nat
  /\ pc = "boot" => path = <<>>
  /\ pc = "walk" => /\ depth \in 0 .. Len(path) - 1
                    /\ node # NULL /\ Reached(path)[depth] = {node}
                    /\ ret = None
  /\ pc = "idle" /\ path # <<>> =>
       /\ node # NULL => Named(path) = {node}
       /\ ~ExactCell(path) => Named(path) = {node} \ {NULL}
  /\ lost => ExactCell(path)

VfsInv ==
  /\ pc \in {"boot", "idle", "walk", "halted"}
  /\ root \in {NULL, ROOT_INODE}
  /\ node \in DOMAIN Inode \cup {NULL}
  /\ lost \in BOOLEAN
  /\ Walked
  /\ ReadIsSlice
  /\ ReadDirListsAll

\* The initial state and the actions, one by one; Shell takes the same ones.
LEMMA InitVfsInv ==
  ASSUME Init PROVE VfsInv
BY DEF Init, VfsInv, Walked, ReadIsSlice, ReadDirListsAll, None

LEMMA MountVfsInv ==
  ASSUME VfsInv, InitrdMount \/ NoModule PROVE VfsInv'
<1>1. /\ pc = "boot" /\ pc' = "idle" /\ root' \in {NULL, ROOT_INODE}
      /\ path' = path /\ depth' = depth /\ node' = node /\ lost' = lost /\ ret' = ret
  BY DEF InitrdMount, NoModule, VfsInv
<1>2. Walked'
  BY <1>1 DEF VfsInv, Walked
<1> QED BY <1>1, <1>2 DEF VfsInv, ReadIsSlice, ReadDirListsAll

LEMMA KopenVfsInv ==
  ASSUME VfsInv, NEW names, Len(names) \in Nat \ {0}, Kopen(names)
  PROVE  VfsInv' /\ pc' \in {"walk", "halted"} /\ path' = names /\ root' = root
<1>1. /\ path' = names /\ depth' = 0 /\ node' = root /\ lost' = FALSE
      /\ pc' = IF root = NULL THEN "halted" ELSE "walk"
      /\ ret' = None /\ root' = root
  BY DEF Kopen
<1>2. Reached(names)[0] = {ROOT_INODE}
  BY ReachedSteps
<1>3. ROOT_INODE \in DOMAIN Inode /\ root \in {NULL, ROOT_INODE}
  BY ImageAssumption DEF VfsInv
<1>4. pc' # "idle" /\ pc' # "boot" /\ 0 \in 0 .. Len(names) - 1
  BY <1>1
<1>5. Walked'
  BY <1>1, <1>2, <1>3, <1>4 DEF Walked
<1>6. ReadIsSlice' /\ ReadDirListsAll'
  BY <1>1 DEF ReadIsSlice, ReadDirListsAll, None
<1> QED BY <1>1, <1>3, <1>5, <1>6 DEF VfsInv

LEMMA WalkVfsInv ==
  ASSUME VfsInv, Walk
  PROVE  VfsInv' /\ pc' \in {"walk", "idle"} /\ path' = path /\ root' = root
<1> DEFINE name == path[depth + 1]
           last == depth = Len(path) - 1
           found == FindDirFs(node, name)
           R == Reached(path)
<1>1. /\ pc = "walk" /\ path' = path /\ root' = root /\ ret' = ret
      /\ lost' \in {lost} \cup {b \in {TRUE} : ExactCell(path)}
      /\ node' = IF last /\ lost' THEN NULL ELSE found
      /\ \/ (node' = NULL \/ last) /\ pc' = "idle" /\ depth' = depth
         \/ node' # NULL /\ ~last /\ depth' = depth + 1 /\ pc' = pc
  BY DEF Walk, MayTakeNext
<1>2. /\ Len(path) \in Nat /\ depth \in 0 .. Len(path) - 1 /\ node \in DOMAIN Inode
      /\ R[depth] = {node} /\ ret = None
  BY <1>1 DEF VfsInv, Walked
<1>3. /\ found \in DOMAIN Inode \cup {NULL}
      /\ Children({node}, name) = {found} \ {NULL}
  BY <1>2, FindDirFsFinds
<1>4. depth + 1 \in 1 .. Len(path) /\ R[depth + 1] = {found} \ {NULL}
  <2>1. depth + 1 \in 1 .. Len(path) /\ depth + 1 - 1 = depth
    BY <1>2
  <2> HIDE DEF R
  <2>2. R[depth + 1] = Children(R[depth + 1 - 1], path[depth + 1])
    BY <1>2, <2>1, ReachedSteps DEF R
  <2> QED BY <1>2, <1>3, <2>1, <2>2
<1>5. Named(path) = R[Len(path)]
  <2>1. Len(path) \in Nat
    BY <1>2
  <2>2. Named(path) = Reached(path)[Len(path)]
    BY <2>1, ReachedSteps
  <2> QED BY <2>2
<1>6. lost' \in BOOLEAN /\ (lost' => ExactCell(path))
  <2>1. lost' = lost \/ (lost' = TRUE /\ ExactCell(path))
    BY <1>1, Zenon
  <2>2. lost \in BOOLEAN /\ (lost => ExactCell(path))
    BY DEF VfsInv, Walked
  <2>3. CASE lost' = lost
    BY <2>2, <2>3, Zenon
  <2>4. CASE lost' = TRUE /\ ExactCell(path)
    BY <2>4
  <2> QED BY <2>1, <2>3, <2>4
<1> HIDE DEF found, R
<1>7. CASE last
  <2>1. Named(path) = {found} \ {NULL}
    BY <1>2, <1>4, <1>5, <1>7
  <2>2. pc' = "idle" /\ node' = IF lost' THEN NULL ELSE found
    BY <1>1, <1>7
  <2>3. /\ node' # NULL => Named(path) = {node'}
        /\ ~ExactCell(path) => Named(path) = {node'} \ {NULL}
    BY <1>6, <2>1, <2>2
  <2>4. Walked'
    BY <1>1, <1>2, <1>6, <2>2, <2>3 DEF Walked
  <2> QED BY <1>1, <1>2, <1>3, <1>6, <2>2, <2>4 DEF VfsInv, ReadIsSlice, ReadDirListsAll, None
<1>8. CASE ~last /\ found = NULL
  <2>1. Named(path) = {}
    <3>1. R[depth + 1] = {} /\ depth + 1 \in 0 .. Len(path)
      BY <1>4, <1>8
    <3> QED BY <1>2, <3>1, NothingBehind DEF R
  <2>2. pc' = "idle" /\ node' = NULL
    BY <1>1, <1>8
  <2>3. Walked'
    BY <1>1, <1>2, <1>6, <2>1, <2>2 DEF Walked
  <2> QED BY <1>1, <1>2, <1>6, <2>2, <2>3 DEF VfsInv, ReadIsSlice, ReadDirListsAll, None
<1>9. CASE ~last /\ found # NULL
  <2>1. pc' = "walk" /\ node' = found /\ depth' = depth + 1
    BY <1>1, <1>9
  <2>2. depth + 1 \in 0 .. Len(path) - 1
    BY <1>2, <1>9
  <2>3. R[depth + 1] = {found}
    BY <1>4, <1>9
  <2>4. Walked'
    BY <1>1, <1>2, <1>6, <1>9, <2>1, <2>2, <2>3 DEF Walked, R
  <2> QED BY <1>1, <1>2, <1>3, <1>6, <2>1, <2>4 DEF VfsInv, ReadIsSlice, ReadDirListsAll, None
<1> QED BY <1>7, <1>8, <1>9

LEMMA ReadVfsInv ==
  ASSUME VfsInv, NEW offset \in Nat, NEW size \in Nat, ReadFs(offset, size)
  PROVE  VfsInv'
<1>1. /\ pc = "idle" /\ node # NULL /\ offset <= Inode[node].size
      /\ ret' = [op |-> "read", offset |-> offset, size |-> size,
                 got |-> ReadInitrd(node, offset, size)]
      /\ pc' = pc /\ root' = root /\ path' = path /\ depth' = depth /\ node' = node /\ lost' = lost
  BY DEF ReadFs
<1>2. node \in DOMAIN Inode
  BY <1>1 DEF VfsInv
<1>3. LET count == Min({size, Inode[node].size - offset})
      IN ReadInitrd(node, offset, size)
           = [count |-> count, buffer |-> [i \in 0 .. count - 1 |-> Byte(node, offset + i)]]
  BY <1>1, <1>2, ReadFile
<1>4. ReadIsSlice' /\ ReadDirListsAll'
  BY <1>1, <1>3 DEF ReadIsSlice, ReadDirListsAll
<1>5. Walked'
  BY <1>1 DEF VfsInv, Walked
<1> QED BY <1>1, <1>4, <1>5 DEF VfsInv

LEMMA ReadDirVfsInv ==
  ASSUME VfsInv, NEW i \in Nat, ReadDirFs(i)
  PROVE  VfsInv'
<1>1. /\ pc = "idle" /\ node # NULL
      /\ ret' = [op |-> "readdir", index |-> i, got |-> EntryOf(node, i)]
      /\ pc' = pc /\ root' = root /\ path' = path /\ depth' = depth /\ node' = node /\ lost' = lost
  BY DEF ReadDirFs
<1>2. node \in DOMAIN Inode
  BY <1>1 DEF VfsInv
<1>3. IF i < Cardinality(Within(node))
        THEN /\ EntryOf(node, i) \in Within(node)
             /\ Cardinality({a \in Within(node) : a < EntryOf(node, i)}) = i
        ELSE EntryOf(node, i) = NULL
  BY <1>2, EntryOfCounts
<1>4. ReadIsSlice' /\ ReadDirListsAll'
  BY <1>1, <1>3 DEF ReadIsSlice, ReadDirListsAll
<1>5. Walked'
  BY <1>1 DEF VfsInv, Walked
<1> QED BY <1>1, <1>4, <1>5 DEF VfsInv

LEMMA UnchangedVfsInv ==
  ASSUME VfsInv, UNCHANGED vars PROVE VfsInv'
BY DEF vars, VfsInv, Walked, ReadIsSlice, ReadDirListsAll

LEMMA VfsInvariant == Spec => [](VfsInv /\ path \in Path \cup {<<>>})
<1> DEFINE Inv == VfsInv /\ path \in Path \cup {<<>>}
<1>1. Init => Inv
  BY InitVfsInv DEF Init
<1>2. Inv /\ [Next]_vars => Inv'
  <2> SUFFICES ASSUME Inv, [Next]_vars PROVE Inv'
    OBVIOUS
  <2>1. CASE InitrdMount \/ NoModule
    BY <2>1, MountVfsInv DEF InitrdMount, NoModule
  <2>2. ASSUME NEW names \in Path, Kopen(names) PROVE Inv'
    <3>1. Len(names) \in Nat \ {0}
      BY VfsAssumption
    <3> QED BY <2>2, <3>1, KopenVfsInv
  <2>3. CASE Walk
    BY <2>3, WalkVfsInv
  <2>4. ASSUME NEW offset \in 0 .. MaxRead, NEW size \in 0 .. MaxRead, ReadFs(offset, size) PROVE Inv'
    <3>1. offset \in Nat /\ size \in Nat /\ path' = path
      BY <2>4, VfsAssumption DEF ReadFs
    <3> QED BY <2>4, <3>1, ReadVfsInv
  <2>5. ASSUME NEW i \in 0 .. MaxIndex, ReadDirFs(i) PROVE Inv'
    <3>1. i \in Nat /\ path' = path
      BY <2>5, VfsAssumption DEF ReadDirFs
    <3> QED BY <2>5, <3>1, ReadDirVfsInv
  <2>6. CASE UNCHANGED vars
    BY <2>6, UnchangedVfsInv DEF vars
  <2> QED BY <2>1, <2>2, <2>3, <2>4, <2>5, <2>6 DEF Next
<1> QED BY <1>1, <1>2, PTL DEF Spec

\* KopenFindsPath: of every path, in every image, kopen returns the node that it
\* names, and NULL if and only if it names none, unless the path is as long as
\* a cell.
THEOREM VfsKopenFindsPath == Spec => []KopenFindsPath
<1>1. VfsInv /\ path \in Path \cup {<<>>} => KopenFindsPath
  <2> SUFFICES ASSUME VfsInv, path \in Path \cup {<<>>} PROVE KopenFindsPath
    OBVIOUS
  <2>1. pc = "walk" => depth < Len(path) /\ node # NULL
    BY DEF VfsInv, Walked
  <2>2. VfsTypeOK
    BY <2>1 DEF VfsInv, VfsTypeOK
  <2> QED BY <2>2 DEF KopenFindsPath, VfsInv, Walked
<1> QED BY <1>1, VfsInvariant, PTL

\* ReadIsSlice: a read of any file, from any offset up to its end and of any
\* length, gives its bytes and writes to no others of the buffer, however the
\* blocks lie.
THEOREM VfsReadIsSlice == Spec => []ReadIsSlice
<1>1. VfsInv => ReadIsSlice
  BY DEF VfsInv
<1> QED BY <1>1, VfsInvariant, PTL

\* ReadDirListsAll: readdir with 0, 1, 2, ... goes through every directory,
\* entry by entry, and through no other node.
THEOREM VfsReadDirListsAll == Spec => []ReadDirListsAll
<1>1. VfsInv => ReadDirListsAll
  BY DEF VfsInv
<1> QED BY <1>1, VfsInvariant, PTL
-----------------------------------------------------------------------------
(* Shell: the texts of paths.                                              *)

Piece == STRING \cup {"/", "NUL"}

LEMMA NulIsPiece == "NUL" \in Piece /\ "/" \in Piece
  BY DEF Piece

\* A text that starts with a slash has a first name.
LEMMA NamesOfText ==
  ASSUME NEW text \in Seq(Piece), text # <<>>, text[1] = "/"
  PROVE  Len(Names(text)) \in Nat \ {0}
<1> DEFINE slashes == {i \in DOMAIN text : text[i] = "/"}
           N == Cardinality(slashes)
<1>1. 1 \in slashes /\ slashes \in SUBSET (1 .. Len(text)) /\ Len(text) \in Nat
  OBVIOUS
<1> HIDE DEF slashes
<1>2. IsFiniteSet(1 .. Len(text))
  BY <1>1, FS_Interval
<1>3. IsFiniteSet(slashes)
  BY <1>1, <1>2, FS_Subset
<1>4. N \in Nat /\ N # 0
  BY <1>1, <1>3, FS_CardinalityType, FS_EmptySet
<1> HIDE DEF N
<1>5. \E f : Names(text) = [n \in 1 .. N |-> f[n]]
  <2> DEFINE name(n) ==
        LET i == CHOOSE i \in slashes : Cardinality({j \in slashes : j <= i}) = n
        IN IF i < Len(text) /\ text[i + 1] # "/" THEN text[i + 1] ELSE NoName
  <2>1. Names(text) = [n \in 1 .. N |-> name(n)]
    BY DEF Names, slashes, N
  <2> HIDE DEF name
  <2>2. [n \in 1 .. N |-> name(n)] = [n \in 1 .. N |-> [m \in 1 .. N |-> name(m)][n]]
    OBVIOUS
  <2> QED BY <2>1, <2>2
<1> QED BY <1>4, <1>5

\* "/" is one name, and no entry has it.
LEMMA RootHasNoName ==
  Named(Names(<<"/">>)) = {}
<1> DEFINE text == <<"/">>
           slashes == {i \in DOMAIN text : text[i] = "/"}
           name(n) ==
             LET i == CHOOSE i \in slashes : Cardinality({j \in slashes : j <= i}) = n
             IN IF i < Len(text) /\ text[i + 1] # "/" THEN text[i + 1] ELSE NoName
           names == Names(text)
<1>1. slashes = {1} /\ Len(text) = 1
  OBVIOUS
<1>2. names = [n \in 1 .. Cardinality(slashes) |-> name(n)]
  BY DEF Names
<1> HIDE DEF slashes, text
<1>3. Cardinality(slashes) = 1
  BY <1>1, FS_Singleton
<1>4. name(1) = NoName
  <2>1. {j \in slashes : j <= 1} = slashes
    BY <1>1
  <2>2. Cardinality({j \in slashes : j <= 1}) = 1
    BY <1>3, <2>1
  <2> DEFINE m == CHOOSE i \in slashes : Cardinality({j \in slashes : j <= i}) = 1
  <2>3. m = 1
    BY <1>1, <2>2
  <2>4. name(1) = IF m < Len(text) /\ text[m + 1] # "/" THEN text[m + 1] ELSE NoName
    OBVIOUS
  <2> HIDE DEF m, name
  <2>5. ~(m < Len(text))
    BY <1>1, <2>3
  <2> QED BY <2>4, <2>5
<1> HIDE DEF name, names
<1>5. Len(names) = 1 /\ names[1] = NoName
  BY <1>2, <1>3, <1>4
<1>6. /\ Named(names) = Reached(names)[1]
      /\ Reached(names)[1] = Children(Reached(names)[0], NoName)
  <2>1. /\ Named(names) = Reached(names)[Len(names)]
        /\ \A n \in 1 .. Len(names) : Reached(names)[n] = Children(Reached(names)[n - 1], names[n])
    BY <1>5, ReachedSteps
  <2>2. 1 - 1 = 0 /\ 1 \in 1 .. Len(names)
    BY <1>5
  <2> QED BY <1>5, <2>1, <2>2
<1>7. \A nodes : Children(nodes, NoName) = {}
  <2>1. \A ino : \A a \in Within(ino) : Dirent[a].name # NoName
    BY ImageAssumption DEF Within
  <2> QED BY <2>1 DEF Children
<1> QED BY <1>6, <1>7, Zenon DEF names, text
-----------------------------------------------------------------------------
(* Shell: the loop of strtok_r.  Behind save the line is as it was typed;  *)
(* before it every word has been found, and ends with a 0.                 *)

WordEnds(i, e) ==
  /\ e \in i + 1 .. Len(buffer) /\ buffer[e] = "NUL"
  /\ \A j \in i .. e - 1 : buffer[j] = typed[j] /\ typed[j] # Space
  /\ e < Len(buffer) => typed[e] = Space

LineTypes ==
  /\ typed \in Seq(Piece) /\ \A i \in 1 .. Len(typed) : typed[i] # "NUL"
  /\ buffer \in Seq(Piece) /\ Len(buffer) = Len(typed) + 1 /\ buffer[Len(buffer)] = "NUL"
  /\ save \in 1 .. Len(buffer)
  /\ argv \in Seq(1 .. Len(typed))

TokenInv ==
  /\ LineTypes
  /\ \A i \in save .. Len(typed) : buffer[i] = typed[i]
  /\ save = 1 \/ save = Len(buffer) \/ typed[save - 1] = Space
  /\ \A i \in 1 .. Len(typed) : i \in WordStarts /\ i < save <=> \E n \in 1 .. Len(argv) : argv[n] = i
  /\ \A n \in 1 .. Len(argv) : \E e \in 1 .. save : WordEnds(argv[n], e)
  /\ \A n \in 2 .. Len(argv) : argv[n - 1] < argv[n]

LEMMA SpaceIsNoNul == Space # "NUL"
  BY Zenon DEF Space

\* The text of a token is the word, up to its end.
LEMMA TextOfWord ==
  ASSUME LineTypes, NEW i \in 1 .. Len(typed), NEW e \in Int, WordEnds(i, e)
  PROVE  /\ Text(i) = SubSeq(typed, i, e - 1)
         /\ Text(i) \in Seq(Piece) /\ Len(Text(i)) = e - i
         /\ \A k \in 1 .. Len(Text(i)) : Text(i)[k] # Space
<1> DEFINE T == {j \in i .. Len(buffer) : buffer[j] = "NUL"}
           m == Min(T)
<1>1. /\ i \in Nat /\ i >= 1 /\ e > i /\ e - 1 <= Len(typed) /\ Len(buffer) = Len(typed) + 1
      /\ Len(typed) \in Nat /\ buffer[e] = "NUL" /\ e <= Len(buffer)
      /\ \A j \in i .. e - 1 : buffer[j] = typed[j] /\ typed[j] # Space /\ typed[j] # "NUL"
  BY DEF LineTypes, WordEnds
<1>2. T \in SUBSET Nat /\ e \in T
  BY <1>1
<1>3. m \in T /\ m \in Nat /\ m <= e
  <2> HIDE DEF T
  <2> QED BY <1>2, MinFacts
<1>4. m = e
  <2> SUFFICES ASSUME m # e PROVE FALSE
    OBVIOUS
  <2> HIDE DEF m
  <2>1. m \in i .. e - 1 /\ buffer[m] = "NUL"
    BY <1>1, <1>3
  <2> QED BY <1>1, <2>1
<1>5. Text(i) = SubSeq(buffer, i, e - 1)
  BY <1>4 DEF Text, EndOfText
<1> HIDE DEF m, T
<1>6. /\ SubSeq(buffer, i, e - 1) \in Seq(Piece) /\ Len(SubSeq(buffer, i, e - 1)) = e - i
      /\ \A k \in 1 .. e - i : SubSeq(buffer, i, e - 1)[k] = buffer[i + k - 1]
  BY <1>1 DEF LineTypes
<1>7. /\ SubSeq(typed, i, e - 1) \in Seq(Piece) /\ Len(SubSeq(typed, i, e - 1)) = e - i
      /\ \A k \in 1 .. e - i : SubSeq(typed, i, e - 1)[k] = typed[i + k - 1]
  BY <1>1 DEF LineTypes
<1>8. \A k \in 1 .. e - i : i + k - 1 \in i .. e - 1
  BY <1>1
<1>9. \A k \in 1 .. e - i : /\ SubSeq(buffer, i, e - 1)[k] = SubSeq(typed, i, e - 1)[k]
                            /\ SubSeq(buffer, i, e - 1)[k] # Space
  BY <1>1, <1>6, <1>7, <1>8
<1>10. SubSeq(buffer, i, e - 1) = SubSeq(typed, i, e - 1)
  <2> DEFINE s == SubSeq(buffer, i, e - 1)
             t == SubSeq(typed, i, e - 1)
  <2> HIDE DEF s, t
  <2>1. s \in Seq(Piece) /\ t \in Seq(Piece) /\ Len(s) = Len(t) /\ \A k \in 1 .. Len(s) : s[k] = t[k]
    BY <1>6, <1>7, <1>9 DEF s, t
  <2> QED BY <2>1, SeqEqual DEF s, t
<1> QED BY <1>5, <1>6, <1>9, <1>10

\* The call for a line goes through its buffer as it was typed.
LEMMA KgetsTokens ==
  ASSUME NEW line \in Seq(Piece), \A i \in 1 .. Len(line) : line[i] # "NUL",
         typed' = line, buffer' = Append(line, "NUL"), save' = 1, argv' = <<>>
  PROVE  TokenInv'
<1>1. /\ buffer' \in Seq(Piece) /\ Len(buffer') = Len(line) + 1
      /\ buffer'[Len(line) + 1] = "NUL" /\ \A i \in 1 .. Len(line) : buffer'[i] = line[i]
      /\ Len(line) \in Nat
  <2>1. buffer' = Append(line, "NUL")
    OBVIOUS
  <2> QED BY <2>1, NulIsPiece, AppendProperties
<1>2. LineTypes'
  BY <1>1 DEF LineTypes
<1>3. Len(argv') = 0
  OBVIOUS
<1>4. \A i \in 1 .. Len(line) : ~(i < 1)
  BY <1>1
<1> QED BY <1>1, <1>2, <1>3, <1>4 DEF TokenInv

\* A turn of the loop.
LEMMA StrtokRTokens ==
  ASSUME TokenInv, StrtokR
  PROVE  TokenInv' /\ (at' = "strtok_r" \/ (at' = "command" /\ save' = Len(buffer') /\ UNCHANGED <<buffer, argv>>))
<1> DEFINE L == Len(typed)
           blank == {j \in save .. Len(buffer) : buffer[j] # Space}
           token == SkipSpaces(save)
<1>1. /\ L \in Nat /\ Len(buffer) = L + 1 /\ save \in 1 .. L + 1 /\ buffer[L + 1] = "NUL"
      /\ typed \in Seq(Piece) /\ buffer \in Seq(Piece) /\ argv \in Seq(1 .. L) /\ Len(argv) \in Nat
      /\ \A i \in 1 .. L : typed[i] # "NUL"
      /\ \A i \in save .. L : buffer[i] = typed[i]
      /\ typed' = typed
  BY DEF TokenInv, LineTypes, StrtokR
<1>2. \A i : i \in WordStarts <=> i \in 1 .. L /\ typed[i] # Space /\ (i = 1 \/ typed[i - 1] = Space)
  BY <1>1 DEF WordStarts
<1>3. WordStarts' = WordStarts
  BY <1>1 DEF WordStarts
<1>4. /\ token \in save .. L + 1 /\ buffer[token] # Space
      /\ \A j \in save .. token - 1 : buffer[j] = Space
  <2>1. blank \in SUBSET Nat /\ L + 1 \in blank
    BY <1>1, SpaceIsNoNul
  <2>2. token \in blank /\ \A j \in blank : token <= j
    <3>1. token = Min(blank)
      BY DEF SkipSpaces
    <3> HIDE DEF blank, token
    <3> QED BY <2>1, <3>1, MinFacts
  <2> HIDE DEF token
  <2>3. \A j \in save .. token - 1 : j \notin blank
    BY <1>1, <2>2
  <2> QED BY <1>1, <2>2, <2>3
<1> HIDE DEF token, blank, L
<1>5. \A j \in save .. token - 1 : j \in 1 .. L /\ typed[j] = Space
  BY <1>1, <1>4
<1>6. \A i \in 1 .. L : i \in WordStarts /\ i < save <=> \E n \in 1 .. Len(argv) : argv[n] = i
  BY DEF TokenInv, L
\* Up to the token there is no other word.
<1>7. \A i \in 1 .. L : i \in WordStarts /\ i < token => i < save
  <2> SUFFICES ASSUME NEW i \in 1 .. L, i \in WordStarts, i < token, ~(i < save) PROVE FALSE
    OBVIOUS
  <2>1. i \in save .. token - 1
    BY <1>1, <1>4
  <2> QED BY <1>2, <1>5, <2>1
<1>8. CASE buffer[token] = "NUL"
  <2>1. save' = token /\ at' = "command" /\ buffer' = buffer /\ argv' = argv
    BY <1>8 DEF StrtokR, token
  <2>2. token = L + 1
    <3> SUFFICES ASSUME token # L + 1 PROVE FALSE
      OBVIOUS
    <3>1. token \in save .. L /\ token \in 1 .. L
      BY <1>1, <1>4
    <3> QED BY <1>1, <1>8, <3>1
  <2>3. \A i \in 1 .. L : i \in WordStarts /\ i < token <=> \E n \in 1 .. Len(argv) : argv[n] = i
    <3> TAKE i \in 1 .. L
    <3>1. i < save => i < token
      BY <1>1, <1>4
    <3> QED BY <1>6, <1>7, <3>1
  <2>4. \A n \in 1 .. Len(argv) : \E e \in 1 .. token : WordEnds(argv[n], e)
    BY <1>1, <1>4 DEF TokenInv
  <2>5. LineTypes'
    BY <1>1, <2>1, <2>2 DEF TokenInv, LineTypes, L
  <2>6. \A n \in 1 .. Len(argv') : \E e \in 1 .. save' : WordEnds(argv[n], e)'
    <3> SUFFICES ASSUME NEW n \in 1 .. Len(argv), NEW e \in 1 .. token, WordEnds(argv[n], e)
                 PROVE  WordEnds(argv[n], e)'
      BY <2>1, <2>4
    <3>1. argv[n]' = argv[n]
      BY <2>1
    <3> QED BY <1>1, <2>1, <3>1 DEF WordEnds
  <2>7. TokenInv'
    <3>1. \A i \in save' .. L : buffer'[i] = typed[i]
      BY <1>1, <2>1, <2>2
    <3>2. \A n \in 2 .. Len(argv') : argv'[n - 1] < argv'[n]
      BY <2>1 DEF TokenInv
    <3>3. save' = Len(buffer')
      BY <1>1, <2>1, <2>2
    <3> QED BY <1>1, <1>3, <2>1, <2>3, <2>5, <2>6, <3>1, <3>2, <3>3 DEF TokenInv, L
  <2> QED BY <1>1, <2>1, <2>2, <2>7
<1>9. CASE buffer[token] # "NUL"
  <2> DEFINE spaces == SpacesFrom(token)
             end == IF spaces = {} THEN L + 1 ELSE Min(spaces)
             next == IF spaces = {} THEN L + 1 ELSE Min(spaces) + 1
  <2>1. token \in 1 .. L /\ token \in save .. L /\ typed[token] # Space
    <3>1. token # L + 1
      BY <1>1, <1>9
    <3> QED BY <1>1, <1>4, <3>1
  <2>2. token \in WordStarts
    <3>1. CASE token = save
      <4>1. save # L + 1
        BY <1>1, <2>1, <3>1
      <4>2. save = 1 \/ typed[save - 1] = Space
        BY <1>1, <4>1 DEF TokenInv
      <4> QED BY <1>2, <2>1, <3>1, <4>2
    <3>2. CASE token # save
      <4>1. token - 1 \in save .. token - 1
        BY <1>1, <1>4, <3>2
      <4> QED BY <1>2, <1>5, <2>1, <4>1
    <3> QED BY <3>1, <3>2
  <2>3. EndOfText(token) = L + 1
    <3> DEFINE T == {j \in token .. Len(buffer) : buffer[j] = "NUL"}
    <3>1. \A j \in token .. L : buffer[j] = typed[j] /\ typed[j] # "NUL"
      BY <1>1, <2>1
    <3>2. T = {L + 1}
      <4>1. L + 1 \in T
        BY <1>1, <2>1
      <4>2. \A j \in token .. L + 1 : j = L + 1 \/ j \in token .. L
        BY <1>1, <2>1
      <4>3. ASSUME NEW j \in T PROVE j = L + 1
        <5>1. j \in token .. L + 1 /\ buffer[j] = "NUL"
          BY <1>1
        <5> QED BY <3>1, <4>2, <5>1, Zenon
      <4> HIDE DEF T
      <4> QED BY <4>1, <4>3, Zenon
    <3>3. T \in SUBSET Nat /\ T # {}
      <4> HIDE DEF T
      <4> QED BY <1>1, <3>2
    <3>4. Min(T) \in T
      <4> HIDE DEF T
      <4> QED BY <3>3, MinFacts
    <3>5. EndOfText(token) = Min(T)
      BY DEF EndOfText
    <3> HIDE DEF T
    <3> QED BY <3>2, <3>4, <3>5
  <2>4. spaces = {j \in token .. L : typed[j] = Space}
    <3>1. spaces = {j \in token .. L + 1 : buffer[j] = Space}
      BY <2>3 DEF SpacesFrom
    <3>2. buffer[L + 1] # Space
      BY <1>1, SpaceIsNoNul
    <3>3. \A j \in token .. L + 1 : j # L + 1 => j \in token .. L /\ buffer[j] = typed[j]
      BY <1>1, <2>1
    <3> HIDE DEF spaces
    <3> DEFINE blanks == {j \in token .. L : typed[j] = Space}
    <3>5. \A j : j \in spaces => j \in blanks
      BY <3>1, <3>2, <3>3
    <3>6. \A j : j \in blanks => j \in spaces
      <4> SUFFICES ASSUME NEW j \in token .. L, typed[j] = Space PROVE j \in spaces
        OBVIOUS
      <4>1. j # L + 1 /\ j \in token .. L + 1
        BY <1>1, <2>1
      <4> QED BY <3>1, <3>3, <4>1
    <3> HIDE DEF blanks
    <3>7. spaces = blanks
      BY <3>5, <3>6
    <3> QED BY <3>7 DEF blanks
  <2>5. /\ argv' = Append(argv, token) /\ save' = next /\ at' = at
        /\ buffer' = IF spaces = {} THEN buffer ELSE [buffer EXCEPT ![end] = "NUL"]
    BY <1>9, <2>3 DEF StrtokR, token, L
  <2>6. /\ end \in token + 1 .. L + 1 /\ \A j \in token .. end - 1 : typed[j] # Space
        /\ spaces # {} => end <= L /\ typed[end] = Space /\ next = end + 1
        /\ spaces = {} => end = L + 1 /\ next = L + 1
    <3>1. CASE spaces = {}
      <4>1. \A j \in token .. L : typed[j] # Space
        BY <2>4, <3>1
      <4>2. end = L + 1 /\ next = L + 1
        BY <3>1
      <4> HIDE DEF end, next
      <4>3. L + 1 \in token + 1 .. L + 1 /\ (L + 1) - 1 = L
        BY <1>1, <2>1
      <4> QED BY <3>1, <4>1, <4>2, <4>3
    <3>2. CASE spaces # {}
      <4>1. spaces \in SUBSET Nat
        BY <1>1, <2>1, <2>4
      <4>2. Min(spaces) \in spaces /\ \A j \in spaces : Min(spaces) <= j
        <5> HIDE DEF spaces
        <5> QED BY <3>2, <4>1, MinFacts
      <4> DEFINE m == Min(spaces)
      <4>3. end = m /\ next = m + 1
        BY <3>2
      <4> HIDE DEF m, end, next
      <4>4. m \in token .. L /\ typed[m] = Space /\ m # token
        BY <2>1, <2>4, <4>2 DEF m
      <4>5. \A j \in token .. m - 1 : typed[j] # Space
        <5> SUFFICES ASSUME NEW j \in token .. m - 1, typed[j] = Space PROVE FALSE
          OBVIOUS
        <5>1. j \in token .. L /\ ~(m <= j)
          BY <1>1, <2>1, <4>4
        <5>2. j \in spaces
          BY <2>4, <5>1
        <5> QED BY <4>2, <5>1, <5>2 DEF m
      <4> QED BY <1>1, <2>1, <3>2, <4>3, <4>4, <4>5
    <3> QED BY <3>1, <3>2
  <2> HIDE DEF end, next, spaces
  <2>7. /\ buffer' \in Seq(Piece) /\ Len(buffer') = L + 1
        /\ \A j \in 1 .. L + 1 : j # end => buffer'[j] = buffer[j]
        /\ buffer'[end] = "NUL"
        /\ next \in end .. L + 1 /\ token < next
    <3>1. end \in 1 .. L + 1
      BY <1>1, <2>1, <2>6
    <3>2. CASE spaces = {}
      BY <1>1, <2>1, <2>5, <2>6, <3>2
    <3>3. CASE spaces # {}
      <4>1. buffer' = [buffer EXCEPT ![end] = "NUL"]
        BY <2>5, <3>3
      <4>2. buffer' \in Seq(Piece) /\ Len(buffer') = L + 1
        BY <1>1, <3>1, <4>1, NulIsPiece, ExceptSeq
      <4>3. buffer \in [1 .. L + 1 -> Piece]
        BY <1>1
      <4>4. buffer'[end] = "NUL" /\ \A j \in 1 .. L + 1 : j # end => buffer'[j] = buffer[j]
        BY <3>1, <4>1, <4>3
      <4> QED BY <1>1, <2>1, <2>6, <3>3, <4>2, <4>4
    <3> QED BY <3>2, <3>3
  <2>8. /\ Len(argv') = Len(argv) + 1 /\ argv' \in Seq(1 .. L)
        /\ argv'[Len(argv) + 1] = token
        /\ \A n \in 1 .. Len(argv) : argv'[n] = argv[n] /\ argv[n] \in 1 .. L
    BY <1>1, <2>1, <2>5
  <2>9. LineTypes'
    <3>1. buffer'[L + 1] = "NUL"
      BY <1>1, <2>6, <2>7
    <3>2. next \in 1 .. L + 1
      BY <1>1, <2>1, <2>7
    <3> QED BY <1>1, <2>5, <2>7, <2>8, <3>1, <3>2 DEF LineTypes, L
  <2>10. \A i \in next .. L : buffer'[i] = typed[i]
    <3> TAKE i \in next .. L
    <3>1. i \in save .. L /\ i \in 1 .. L + 1 /\ i # end
      BY <1>1, <2>1, <2>6, <2>7
    <3> QED BY <1>1, <2>7, <3>1
  <2>11. next = L + 1 \/ typed[next - 1] = Space
    BY <1>1, <2>6
  \* Between the token and its end no other word starts.
  <2>12. \A i \in 1 .. L : i \in WordStarts /\ i < next <=> \E n \in 1 .. Len(argv') : argv'[n] = i
    <3> TAKE i \in 1 .. L
    <3>1. ASSUME i \in WordStarts, i < next PROVE i < token \/ i = token
      <4> SUFFICES ASSUME i > token PROVE FALSE
        BY <1>1, <2>1
      <4>1. typed[i - 1] = Space /\ typed[i] # Space
        BY <1>1, <1>2, <2>1, <3>1
      <4>2. i - 1 \notin token .. end - 1
        BY <2>6, <4>1
      <4>3. i > end
        BY <1>1, <2>1, <2>6, <4>2
      <4> QED BY <1>1, <2>6, <2>7, <3>1, <4>3
    <3>2. i \in WordStarts /\ i < next <=> (i \in WordStarts /\ i < save) \/ i = token
      <4>1. i < save => i < next
        BY <1>1, <1>4, <2>1, <2>7
      <4> QED BY <1>7, <2>2, <2>7, <3>1, <4>1
    <3>3. (\E n \in 1 .. Len(argv') : argv'[n] = i) <=> (\E n \in 1 .. Len(argv) : argv[n] = i) \/ i = token
      <4>1. \A n \in 1 .. Len(argv') : n = Len(argv) + 1 \/ n \in 1 .. Len(argv)
        BY <1>1, <2>8
      <4>2. \A n \in 1 .. Len(argv) : n \in 1 .. Len(argv')
        BY <1>1, <2>8
      <4>3. Len(argv) + 1 \in 1 .. Len(argv')
        BY <1>1, <2>8
      <4> QED BY <2>8, <4>1, <4>2, <4>3
    <3> QED BY <1>6, <3>2, <3>3
  <2>13. \A n \in 1 .. Len(argv') : \E e \in 1 .. next : WordEnds(argv[n], e)' 
    <3> TAKE n \in 1 .. Len(argv')
    <3>1. CASE n = Len(argv) + 1
      <4>1. \A j \in token .. end - 1 : buffer'[j] = typed[j] /\ typed[j] # Space
        <5> TAKE j \in token .. end - 1
        <5>1. j \in save .. L /\ j \in 1 .. L + 1 /\ j # end
          BY <1>1, <2>1, <2>6
        <5> QED BY <1>1, <2>6, <2>7, <5>1
      <4>2. end < L + 1 => typed[end] = Space
        BY <1>1, <2>6
      <4>3. end \in 1 .. next /\ end \in token + 1 .. L + 1
        BY <1>1, <2>1, <2>6, <2>7
      <4> QED BY <1>1, <2>7, <2>8, <3>1, <4>1, <4>2, <4>3 DEF WordEnds
    <3>2. CASE n # Len(argv) + 1
      <4>1. n \in 1 .. Len(argv) /\ argv'[n] = argv[n] /\ argv[n] \in 1 .. L
        BY <1>1, <2>8, <3>2
      <4>2. PICK e \in 1 .. save : WordEnds(argv[n], e)
        BY <4>1 DEF TokenInv
      <4>3. e \in 1 .. next /\ e < end
        BY <1>1, <2>1, <2>6, <2>7
      <4>4. /\ e \in argv[n] + 1 .. L + 1 /\ buffer[e] = "NUL"
            /\ \A j \in argv[n] .. e - 1 : buffer[j] = typed[j] /\ typed[j] # Space
            /\ e < L + 1 => typed[e] = Space
        BY <1>1, <4>2 DEF WordEnds
      <4>5. buffer'[e] = "NUL"
        BY <1>1, <2>7, <4>3, <4>4
      <4>6. \A j \in argv[n] .. e - 1 : buffer'[j] = typed[j] /\ typed[j] # Space
        <5> TAKE j \in argv[n] .. e - 1
        <5>1. j \in 1 .. L + 1 /\ j # end
          BY <1>1, <2>6, <4>1, <4>3, <4>4
        <5> QED BY <2>7, <4>4, <5>1
      <4> QED BY <1>1, <2>7, <4>1, <4>3, <4>4, <4>5, <4>6 DEF WordEnds
    <3> QED BY <3>1, <3>2
  <2>14. \A n \in 2 .. Len(argv') : argv'[n - 1] < argv'[n]
    <3> TAKE n \in 2 .. Len(argv')
    <3>1. CASE n = Len(argv) + 1
      <4>1. n - 1 \in 1 .. Len(argv) /\ argv'[n - 1] = argv[n - 1] /\ argv[n - 1] \in 1 .. L
        BY <1>1, <2>8, <3>1
      <4>2. argv[n - 1] < save
        BY <1>6, <4>1
      <4> QED BY <1>1, <2>1, <2>8, <3>1, <4>1, <4>2
    <3>2. CASE n # Len(argv) + 1
      <4>1. n \in 2 .. Len(argv) /\ n \in 1 .. Len(argv) /\ n - 1 \in 1 .. Len(argv)
        BY <1>1, <2>8, <3>2
      <4> QED BY <2>8, <4>1 DEF TokenInv
    <3> QED BY <3>1, <3>2
  <2>15. TokenInv'
    BY <1>1, <1>3, <2>5, <2>7, <2>9, <2>10, <2>11, <2>12, <2>13, <2>14 DEF TokenInv, L
  <2>16. at' = "strtok_r"
    BY <2>5 DEF StrtokR
  <2> QED BY <2>15, <2>16
<1> QED BY <1>8, <1>9
-----------------------------------------------------------------------------
(* Shell: what holds between the steps of start_shell.                     *)

Places ==
  /\ at \in {"boot", "top", "prompt", "strtok_r", "command", "kopen", "opened", "ls", "halted"}
  /\ at = "boot" => pc \in {"boot", "idle"}
  /\ at \in {"top", "prompt", "strtok_r", "command", "opened", "ls"} => pc = "idle"
  /\ at = "kopen" => pc = "walk"
  /\ at = "halted" => pc # "boot"

\* The path in the prompt and the node, from the first prompt on.
CwdInv ==
  /\ cwdNode \in DOMAIN Inode \cup {NULL}
  /\ at # "boot" => cwd \in Seq(Piece) /\ cwd # <<>> /\ cwd[1] = "/"
  /\ at # "boot" /\ root # NULL =>
       /\ IF cwd = <<"/">> THEN cwdNode = root ELSE Named(Names(cwd)) = {cwdNode}
       /\ "DIR" \in NodeFlags(cwdNode)

\* The line and its tokens; before the first line there is none.
LineInv ==
  /\ at \in {"boot", "prompt"} => buffer = <<>> /\ save = 1
  /\ buffer = <<>> => argv = <<>>
  /\ buffer # <<>> => TokenInv
  /\ at \in {"strtok_r", "command", "kopen", "opened", "ls"} => buffer # <<>>
  /\ at \in {"command", "kopen", "opened", "ls"} => save = Len(buffer)

\* What ls has printed so far.
Listed ==
  /\ index \in Nat /\ shown \in Seq(Nat) /\ Len(shown) = index
  /\ IsDir(cwdNode) => /\ index <= Len(Entries(cwdNode))
                       /\ \A i \in 1 .. index : shown[i] = Entries(cwdNode)[i]
  /\ ~IsDir(cwdNode) => index = 0

CommandInv ==
  /\ filename # <<>> => filename \in Seq(Piece) /\ filename[1] = "/"
  /\ at \in {"boot", "prompt", "strtok_r", "command", "ls"} => filename = <<>>
  /\ at \in {"boot", "prompt", "strtok_r", "command"} => shown = <<>> /\ index = 0
  /\ at \in {"kopen", "opened"} =>
       filename # <<>> /\ path = Names(filename) /\ shown = <<>> /\ (Is("cd") \/ Is("cat"))
  /\ at = "ls" => Is("ls") /\ cwdNode # NULL /\ Listed
  /\ ShowsWhatIsNamed

ShellInv == VfsInv /\ Places /\ CwdInv /\ LineInv /\ CommandInv

LEMMA InitShellInv ==
  ASSUME ShellInit PROVE ShellInv
<1>1. VfsInv
  BY InitVfsInv DEF ShellInit
<1>2. at = "boot" /\ cwdNode = NULL /\ buffer = <<>> /\ save = 1 /\ argv = <<>>
      /\ filename = <<>> /\ index = 0 /\ shown = <<>> /\ pc = "boot"
  BY DEF ShellInit, Init
<1> QED BY <1>1, <1>2 DEF ShellInv, Places, CwdInv, LineInv, CommandInv, ShowsWhatIsNamed

\* What stays as it is while the line, and while the path, do.
LEMMA LineKept ==
  ASSUME LineInv, UNCHANGED lineVars
  PROVE  /\ Cmd' = Cmd
         /\ buffer # <<>> => TokenInv'
         /\ buffer' = buffer /\ argv' = argv /\ save' = save
<1>1. buffer' = buffer /\ argv' = argv /\ save' = save /\ typed' = typed
  BY DEF lineVars
<1>2. Cmd' = Cmd
  BY <1>1 DEF Cmd, Text, EndOfText
<1>3. TokenInv => TokenInv'
  BY <1>1 DEF TokenInv, LineTypes, WordEnds, WordStarts
<1> QED BY <1>1, <1>2, <1>3 DEF LineInv

LEMMA LineGoesOn ==
  ASSUME LineInv, UNCHANGED lineVars, at \in {"command", "kopen", "opened", "ls"},
         at' \notin {"boot", "prompt"}
  PROVE  LineInv'
BY LineKept DEF LineInv

LEMMA CwdKept ==
  ASSUME CwdInv, at # "boot", UNCHANGED cwdVars, root' = root
  PROVE  CwdInv'
<1>1. cwd' = cwd /\ cwdNode' = cwdNode
  BY DEF cwdVars
<1> QED BY <1>1 DEF CwdInv

\* At the prompt the line and the command are over.
LEMMA AtPrompt ==
  ASSUME VfsInv, pc = "idle", Prompt
  PROVE  VfsInv'
<1>1. /\ path' = <<>> /\ depth' = 0 /\ node' = NULL /\ lost' = FALSE /\ ret' = None
      /\ pc' = pc /\ root' = root
  BY DEF Prompt
<1>2. Walked'
  <2>1. Len(<<>>) = 0 /\ pc' = "idle"
    BY <1>1
  <2> QED BY <1>1, <2>1 DEF Walked
<1> QED BY <1>1, <1>2 DEF VfsInv, ReadIsSlice, ReadDirListsAll, None

LEMMA StartShellInv ==
  ASSUME ShellInv, Mount \/ StartShell \/ Prompt \/ (\E line \in Lines : Kgets(line))
  PROVE  ShellInv'
<1>1. CASE Mount
  <2>1. pc = "boot" /\ pc' = "idle"
    BY <1>1 DEF Mount, InitrdMount, NoModule
  <2>2. at = "boot"
    BY <2>1 DEF ShellInv, Places
  <2>3. /\ at' = at /\ cwdNode' = cwdNode /\ buffer' = buffer /\ save' = save /\ argv' = argv
        /\ filename' = filename /\ index' = index /\ shown' = shown
    BY <1>1 DEF Mount, shellVars, cwdVars, lineVars
  <2>4. VfsInv'
    BY <1>1, MountVfsInv DEF Mount, ShellInv
  <2>5. Places' /\ CwdInv'
    BY <2>1, <2>2, <2>3 DEF ShellInv, Places, CwdInv
  <2>6. LineInv'
    BY <2>2, <2>3 DEF ShellInv, LineInv
  <2>7. CommandInv'
    BY <2>2, <2>3 DEF ShellInv, CommandInv, ShowsWhatIsNamed
  <2> QED BY <2>4, <2>5, <2>6, <2>7 DEF ShellInv
<1>2. CASE StartShell
  <2>1. /\ at = "boot" /\ pc = "idle" /\ at' = "top" /\ cwd' = <<"/">> /\ cwdNode' = root
        /\ UNCHANGED vars /\ UNCHANGED lineVars
        /\ filename' = filename /\ index' = index /\ shown' = shown
    BY <1>2 DEF StartShell
  <2>2. pc' = pc /\ root' = root
    BY <2>1 DEF vars
  <2>3. buffer = <<>> /\ argv = <<>> /\ buffer' = buffer /\ argv' = argv /\ filename = <<>>
    BY <2>1, LineKept DEF ShellInv, LineInv, CommandInv
  <2>4. VfsInv'
    BY <2>1, UnchangedVfsInv DEF ShellInv
  <2>5. CwdInv'
    <3>1. root \in {NULL, ROOT_INODE} /\ ROOT_INODE \in DOMAIN Inode /\ IsDir(ROOT_INODE)
      BY ImageAssumption DEF ShellInv, VfsInv
    <3>2. "DIR" \in NodeFlags(ROOT_INODE)
      BY <3>1, FlagFacts
    <3>3. cwd' \in Seq(Piece) /\ cwd' # <<>> /\ cwd'[1] = "/"
      <4>1. cwd' = <<"/">> /\ "/" \in Piece
        BY <2>1, NulIsPiece
      <4> QED BY <4>1
    <3> QED BY <2>1, <2>2, <3>1, <3>2, <3>3 DEF CwdInv
  <2>6. Places' /\ LineInv'
    BY <2>1, <2>2, <2>3 DEF Places, LineInv
  <2>7. CommandInv'
    <3>1. Cmd' = <<>>
      BY <2>3 DEF Cmd
    <3> QED BY <2>1, <2>3, <3>1 DEF ShellInv, CommandInv, ShowsWhatIsNamed, Is
  <2> QED BY <2>4, <2>5, <2>6, <2>7 DEF ShellInv
<1>3. CASE Prompt
  <2>1. /\ at = "top" /\ at' = "prompt" /\ buffer' = <<>> /\ save' = 1 /\ argv' = <<>>
        /\ filename' = <<>> /\ index' = 0 /\ shown' = <<>> /\ pc' = pc /\ root' = root
        /\ UNCHANGED cwdVars
    BY <1>3 DEF Prompt
  <2>2. VfsInv'
    BY <1>3, <2>1, AtPrompt DEF ShellInv, Places
  <2>3. CwdInv'
    BY <2>1, CwdKept DEF ShellInv
  <2>4. Places' /\ LineInv'
    BY <2>1 DEF ShellInv, Places, LineInv
  <2>5. CommandInv'
    BY <2>1 DEF CommandInv, ShowsWhatIsNamed
  <2> QED BY <2>2, <2>3, <2>4, <2>5 DEF ShellInv
<1>4. ASSUME NEW line \in Lines, Kgets(line) PROVE ShellInv'
  <2>1. /\ at = "prompt" /\ typed' = line /\ buffer' = Append(line, "NUL")
        /\ at' = IF line = <<>> THEN "top" ELSE "strtok_r"
        /\ save' = save /\ argv' = argv /\ UNCHANGED vars /\ UNCHANGED cwdVars
        /\ filename' = filename /\ index' = index /\ shown' = shown
    BY <1>4 DEF Kgets
  <2>2. pc' = pc /\ root' = root
    BY <2>1 DEF vars
  <2>3. save = 1 /\ argv = <<>> /\ filename = <<>> /\ shown = <<>> /\ index = 0
    BY <2>1 DEF ShellInv, LineInv, CommandInv
  <2>4. line \in Seq(Piece) /\ \A i \in 1 .. Len(line) : line[i] # "NUL"
    <3>1. line \in Seq(STRING) /\ "NUL" \notin ToSet(line)
      BY ShellAssumption
    <3> QED BY <3>1 DEF ToSet, Piece
  <2>5. TokenInv' /\ buffer' # <<>>
    <3>1. save' = 1 /\ argv' = <<>>
      BY <2>1, <2>3
    <3> QED BY <2>1, <2>4, <3>1, KgetsTokens
  <2>6. VfsInv'
    BY <2>1, UnchangedVfsInv DEF ShellInv
  <2>7. CwdInv'
    BY <2>1, <2>2, CwdKept DEF ShellInv
  <2>8. Places' /\ LineInv'
    BY <2>1, <2>2, <2>5 DEF ShellInv, Places, LineInv
  <2>9. CommandInv'
    <3>1. Cmd' = <<>>
      BY <2>1, <2>3 DEF Cmd
    <3> QED BY <2>1, <2>3, <3>1 DEF ShellInv, CommandInv, ShowsWhatIsNamed, Is
  <2> QED BY <2>6, <2>7, <2>8, <2>9 DEF ShellInv
<1> QED BY <1>1, <1>2, <1>3, <1>4

\* A call of strtok_r, and the turn of the loop around it.
LEMMA StrtokRInv ==
  ASSUME ShellInv, StrtokR
  PROVE  ShellInv'
<1>1. /\ at = "strtok_r" /\ UNCHANGED vars /\ UNCHANGED cwdVars
      /\ filename' = filename /\ index' = index /\ shown' = shown
  BY DEF StrtokR
<1>2. pc' = pc /\ root' = root /\ pc = "idle"
  BY <1>1 DEF vars, ShellInv, Places
<1>3. buffer # <<>> /\ TokenInv
  BY <1>1 DEF ShellInv, LineInv
<1>4. TokenInv' /\ (at' = "strtok_r" \/ (at' = "command" /\ save' = Len(buffer') /\ UNCHANGED <<buffer, argv>>))
  BY <1>3, StrtokRTokens
<1>5. buffer' # <<>>
  <2>1. buffer' \in Seq(Piece) /\ typed' \in Seq(Piece) /\ Len(buffer') = Len(typed') + 1
    BY <1>4 DEF TokenInv, LineTypes
  <2> QED BY <2>1
<1>6. VfsInv'
  BY <1>1, UnchangedVfsInv DEF ShellInv
<1>7. CwdInv'
  BY <1>1, <1>2, CwdKept DEF ShellInv
<1>8. Places' /\ LineInv'
  BY <1>1, <1>2, <1>4, <1>5 DEF Places, LineInv
<1>9. CommandInv'
  BY <1>1, <1>4 DEF ShellInv, CommandInv, ShowsWhatIsNamed
<1> QED BY <1>6, <1>7, <1>8, <1>9 DEF ShellInv

\* The commands that do not touch the file system, and ls up to its loop.
LEMMA CommandDone ==
  ASSUME ShellInv, PrintOnly \/ Fault \/ Ls
  PROVE  ShellInv'
<1>1. /\ at = "command" /\ UNCHANGED vars /\ UNCHANGED cwdVars /\ UNCHANGED lineVars
      /\ filename' = filename /\ index' = index /\ shown' = shown
      /\ at' \in {"top", "halted", "ls"}
      /\ at' = "top" => ~Is("ls") \/ cwdNode = NULL
      /\ at' = "ls" => Is("ls") /\ cwdNode # NULL
  BY DEF PrintOnly, Fault, Ls, Command
<1>2. pc' = pc /\ root' = root /\ pc = "idle" /\ cwdNode' = cwdNode
  BY <1>1 DEF vars, cwdVars, ShellInv, Places
<1>3. /\ filename = <<>> /\ shown = <<>> /\ index = 0
  BY <1>1 DEF ShellInv, CommandInv
<1>4. VfsInv'
  BY <1>1, UnchangedVfsInv DEF ShellInv
<1>5. CwdInv'
  BY <1>1, <1>2, CwdKept DEF ShellInv
<1>6. LineInv'
  BY <1>1, LineGoesOn DEF ShellInv
<1>7. Places'
  BY <1>1, <1>2 DEF Places
<1>8. Cmd' = Cmd
  BY <1>1, LineKept DEF ShellInv
<1>9. CASE at' = "ls"
  <2>1. cwdNode \in DOMAIN Inode
    BY <1>1, <1>9 DEF ShellInv, CwdInv
  <2>2. IsDir(cwdNode) => Len(Entries(cwdNode)) \in Nat
    <3>1. IsDir(cwdNode) => Entries(cwdNode) \in Seq(Nat)
      BY <2>1, EntriesAreWithin
    <3> QED BY <3>1
  <2>3. Listed'
    <3>1. shown' = <<>> /\ index' = 0 /\ cwdNode' = cwdNode
      BY <1>1, <1>2, <1>3
    <3>2. <<>> \in Seq(Nat) /\ Len(<<>>) = 0
      OBVIOUS
    <3> QED BY <2>2, <3>1, <3>2 DEF Listed
  <2>4. CommandInv'
    BY <1>1, <1>2, <1>3, <1>8, <1>9, <2>3 DEF CommandInv, ShowsWhatIsNamed, Is
  <2> QED BY <1>4, <1>5, <1>6, <1>7, <2>4 DEF ShellInv
<1>10. CASE at' # "ls"
  <2>1. CommandInv'
    BY <1>1, <1>2, <1>3, <1>8, <1>10 DEF CommandInv, ShowsWhatIsNamed, Is
  <2> QED BY <1>4, <1>5, <1>6, <1>7, <2>1 DEF ShellInv
<1> QED BY <1>9, <1>10

\* The text of a token, when all are found.
LEMMA TextOfToken ==
  ASSUME ShellInv, at \in {"command", "kopen", "opened", "ls"}, NEW n \in 1 .. Len(argv)
  PROVE  Text(argv[n]) \in Seq(Piece) /\ Text(argv[n]) # <<>>
<1>1. TokenInv /\ LineTypes
  BY DEF ShellInv, LineInv, TokenInv
<1>2. PICK e \in 1 .. save : WordEnds(argv[n], e)
  BY <1>1 DEF TokenInv
<1>3. argv[n] \in 1 .. Len(typed) /\ e \in Int /\ Len(buffer) \in Int
  BY <1>1, <1>2 DEF LineTypes
<1>4. Text(argv[n]) \in Seq(Piece) /\ Len(Text(argv[n])) = e - argv[n]
  BY <1>1, <1>2, <1>3, TextOfWord
<1>5. e > argv[n]
  BY <1>2, <1>3 DEF WordEnds
<1>6. Len(Text(argv[n])) # 0
  BY <1>3, <1>4, <1>5
<1> QED BY <1>4, <1>6

\* cd and cat open an absolute path.
LEMMA FullNameIsAbsolute ==
  ASSUME NEW arg \in Seq(Piece), arg # <<>>, cwd \in Seq(Piece), cwd # <<>>, cwd[1] = "/"
  PROVE  FullName(arg) \in Seq(Piece) /\ FullName(arg) # <<>> /\ FullName(arg)[1] = "/"
<1>1. "/" \in Piece /\ <<"/">> \in Seq(Piece)
  BY NulIsPiece
<1>2. Len(cwd) \in Nat /\ Len(cwd) # 0 /\ Len(arg) \in Nat
  OBVIOUS
<1>3. ASSUME NEW s \in Seq(Piece) PROVE cwd \o s \in Seq(Piece) /\ cwd \o s # <<>> /\ (cwd \o s)[1] = "/"
  <2>1. cwd \o s \in Seq(Piece) /\ Len(cwd \o s) = Len(cwd) + Len(s) /\ Len(s) \in Nat
    OBVIOUS
  <2>2. (cwd \o s)[1] = cwd[1]
    BY <1>2, <2>1
  <2> QED BY <1>2, <2>1, <2>2
<1>4. (cwd \o <<"/">>) \o arg = cwd \o (<<"/">> \o arg) /\ <<"/">> \o arg \in Seq(Piece)
  BY <1>1, ConcatAssociative
<1>5. CASE arg[1] = "/"
  BY <1>5 DEF FullName
<1>6. CASE arg[1] # "/" /\ cwd = <<"/">>
  BY <1>3, <1>6 DEF FullName
<1>7. CASE arg[1] # "/" /\ cwd # <<"/">>
  BY <1>3, <1>4, <1>7 DEF FullName
<1> QED BY <1>5, <1>6, <1>7

LEMMA OpenArgumentInv ==
  ASSUME ShellInv, OpenArgument
  PROVE  ShellInv'
<1>1. /\ at = "command" /\ at' = IF root = NULL THEN "halted" ELSE "kopen"
      /\ Is("cd") \/ Is("cat")
      /\ Len(argv) >= 2
      /\ filename' = FullName(Text(argv[2])) /\ Kopen(Names(filename'))
      /\ UNCHANGED cwdVars /\ UNCHANGED lineVars /\ index' = index /\ shown' = shown
  BY DEF OpenArgument, Command
<1>2. Len(argv) \in Nat
  BY <1>1 DEF ShellInv, LineInv, TokenInv, LineTypes
<1>3. Text(argv[2]) \in Seq(Piece) /\ Text(argv[2]) # <<>>
  BY <1>1, <1>2, TextOfToken
<1>4. filename' \in Seq(Piece) /\ filename' # <<>> /\ filename'[1] = "/"
  BY <1>1, <1>3, FullNameIsAbsolute DEF ShellInv, CwdInv
<1>5. /\ VfsInv' /\ path' = Names(filename') /\ root' = root
      /\ pc' = IF root = NULL THEN "halted" ELSE "walk"
  <2>1. Len(Names(filename')) \in Nat \ {0}
    BY <1>4, NamesOfText
  <2>2. pc' = IF root = NULL THEN "halted" ELSE "walk"
    BY <1>1 DEF Kopen
  <2> QED BY <1>1, <2>1, <2>2, KopenVfsInv DEF ShellInv
<1>6. CwdInv'
  BY <1>1, <1>5, CwdKept DEF ShellInv
<1>7. LineInv'
  BY <1>1, LineGoesOn DEF ShellInv
<1>8. Places'
  BY <1>1, <1>5 DEF Places
<1>9. Cmd' = Cmd /\ shown = <<>>
  BY <1>1, LineKept DEF ShellInv, CommandInv
<1>10. CommandInv'
  BY <1>1, <1>4, <1>5, <1>9 DEF CommandInv, ShowsWhatIsNamed, Is
<1> QED BY <1>5, <1>6, <1>7, <1>8, <1>10 DEF ShellInv

LEMMA OpeningInv ==
  ASSUME ShellInv, Opening
  PROVE  ShellInv'
<1>1. /\ at = "kopen" /\ Walk /\ at' = IF pc' = "walk" THEN "kopen" ELSE "opened"
      /\ UNCHANGED cwdVars /\ UNCHANGED lineVars
      /\ filename' = filename /\ index' = index /\ shown' = shown
  BY DEF Opening
<1>2. VfsInv' /\ pc' \in {"walk", "idle"} /\ path' = path /\ root' = root
  BY <1>1, WalkVfsInv DEF ShellInv
<1>3. CwdInv'
  BY <1>1, <1>2, CwdKept DEF ShellInv
<1>4. LineInv'
  BY <1>1, LineGoesOn DEF ShellInv
<1>5. Places'
  BY <1>1, <1>2 DEF Places
<1>6. Cmd' = Cmd
  BY <1>1, LineKept DEF ShellInv
<1>7. CommandInv'
  BY <1>1, <1>2, <1>6 DEF ShellInv, CommandInv, ShowsWhatIsNamed, Is
<1> QED BY <1>2, <1>3, <1>4, <1>5, <1>7 DEF ShellInv

\* The rest of cd.  "/" names no entry: a node that kopen found has another path.
LEMMA CdInv ==
  ASSUME ShellInv, Cd
  PROVE  ShellInv'
<1>1. /\ at = "opened" /\ Is("cd") /\ at' = "top"
      /\ UNCHANGED vars /\ UNCHANGED lineVars
      /\ filename' = filename /\ index' = index /\ shown' = shown
      /\ \/ node # NULL /\ "DIR" \in NodeFlags(node) /\ cwd' = filename /\ cwdNode' = node
         \/ UNCHANGED cwdVars
  BY DEF Cd
<1>2. pc' = pc /\ root' = root /\ pc = "idle"
  BY <1>1 DEF vars, ShellInv, Places
<1>3. /\ filename # <<>> /\ filename \in Seq(Piece) /\ filename[1] = "/" /\ path = Names(filename)
  BY <1>1 DEF ShellInv, CommandInv
<1>4. CwdInv'
  <2>1. CASE UNCHANGED cwdVars
    BY <1>1, <1>2, <2>1, CwdKept DEF ShellInv
  <2>2. CASE node # NULL /\ "DIR" \in NodeFlags(node) /\ cwd' = filename /\ cwdNode' = node
    <3>1. path # <<>>
      <4>1. Len(path) # 0
        BY <1>3, NamesOfText
      <4> QED BY <4>1
    <3>2. node \in DOMAIN Inode /\ Named(Names(filename)) = {node}
      BY <1>2, <1>3, <2>2, <3>1 DEF ShellInv, VfsInv, Walked
    <3>3. filename # <<"/">>
      BY <3>2, RootHasNoName
    <3>4. Named(Names(cwd))' = {node}
      BY <2>2, <3>2
    <3> QED BY <1>1, <1>2, <1>3, <2>2, <3>2, <3>3, <3>4 DEF CwdInv
  <2> QED BY <1>1, <2>1, <2>2
<1>5. VfsInv'
  BY <1>1, UnchangedVfsInv DEF ShellInv
<1>6. LineInv'
  BY <1>1, LineGoesOn DEF ShellInv
<1>7. Places'
  BY <1>1, <1>2 DEF Places
<1>8. Cmd' = Cmd
  BY <1>1, LineKept DEF ShellInv
<1>9. CommandInv'
  <2>1. ~Is("cat")' /\ ~Is("ls")'
    BY <1>1, <1>8 DEF Is
  <2> QED BY <1>1, <1>3, <2>1 DEF CommandInv, ShowsWhatIsNamed
<1> QED BY <1>4, <1>5, <1>6, <1>7, <1>9 DEF ShellInv

\* The rest of cat prints the file, or nothing.
LEMMA CatInv ==
  ASSUME ShellInv, Cat
  PROVE  ShellInv'
<1> DEFINE all == Inode[node].size
           file == [i \in 1 .. all |-> Byte(node, i - 1)]
<1>1. /\ at = "opened" /\ Is("cat") /\ at' = "top"
      /\ UNCHANGED cwdVars /\ UNCHANGED lineVars
      /\ filename' = filename /\ index' = index
      /\ node = NULL => UNCHANGED vars /\ shown' = shown
      /\ node # NULL => /\ ReadFs(0, Inode[node].size)
                        /\ shown' = [i \in 1 .. ret'.got.count |-> ret'.got.buffer[i - 1]]
  BY DEF Cat
<1>2. node # NULL => node \in DOMAIN Inode /\ all \in Nat
  BY ImageAssumption DEF ShellInv, VfsInv
<1>3. pc' = pc /\ root' = root /\ pc = "idle"
  BY <1>1 DEF vars, ReadFs, ShellInv, Places
<1>4. /\ filename # <<>> /\ filename \in Seq(Piece) /\ filename[1] = "/" /\ path = Names(filename)
      /\ shown = <<>>
  BY <1>1 DEF ShellInv, CommandInv
<1>5. VfsInv'
  <2>1. CASE node = NULL
    BY <1>1, <2>1, UnchangedVfsInv DEF ShellInv
  <2>2. CASE node # NULL
    BY <1>1, <1>2, <2>2, ReadVfsInv DEF ShellInv
  <2> QED BY <2>1, <2>2
<1>6. CwdInv'
  BY <1>1, <1>3, CwdKept DEF ShellInv
<1>7. LineInv'
  BY <1>1, LineGoesOn DEF ShellInv
<1>8. Places'
  BY <1>1, <1>3 DEF Places
<1>9. Cmd' = Cmd
  BY <1>1, LineKept DEF ShellInv
<1>10. node # NULL => shown' = file
  <2> SUFFICES ASSUME node # NULL PROVE shown' = file
    OBVIOUS
  <2> DEFINE count == Min({all, all - 0})
             bytes == [i \in 0 .. count - 1 |-> Byte(node, 0 + i)]
  <2>1. node \in DOMAIN Inode /\ all \in Nat /\ 0 <= all
    BY <1>2
  <2>2. ReadInitrd(node, 0, all) = [count |-> count, buffer |-> bytes]
    BY <2>1, ReadFile
  <2>3. count = all
    <3>1. {all, all - 0} = {all} /\ {all} \in SUBSET Nat /\ {all} # {}
      BY <2>1
    <3>2. Min({all}) \in {all}
      <4> HIDE DEF all
      <4> QED BY <3>1, MinFacts
    <3> QED BY <3>1, <3>2
  <2>4. ret'.got = ReadInitrd(node, 0, all)
    BY <1>1 DEF ReadFs
  <2> HIDE DEF count, bytes, all
  <2>5. ret'.got.count = all /\ ret'.got.buffer = bytes
    BY <2>2, <2>3, <2>4
  <2>6. shown' = [i \in 1 .. all |-> bytes[i - 1]]
    BY <1>1, <2>5
  <2>7. \A i \in 1 .. all : bytes[i - 1] = Byte(node, i - 1)
    <3> SUFFICES ASSUME NEW i \in 1 .. all PROVE bytes[i - 1] = Byte(node, i - 1)
      OBVIOUS
    <3>1. i - 1 \in 0 .. count - 1 /\ 0 + (i - 1) = i - 1
      BY <2>1, <2>3
    <3> QED BY <3>1 DEF bytes
  <2> QED BY <2>6, <2>7
<1> HIDE DEF file
<1>11. path # <<>>
  <2>1. Len(path) # 0
    BY <1>4, NamesOfText
  <2> QED BY <2>1
<1>12. ~ExactCell(Names(filename)) => Named(Names(filename)) = {node} \ {NULL}
  BY <1>3, <1>4, <1>11 DEF ShellInv, VfsInv, Walked
<1>13. ShowsWhatIsNamed'
  <2>1. ~Is("ls")'
    BY <1>1, <1>9 DEF Is
  <2>2. SUFFICES ASSUME ~ExactCell(Names(filename))'
                 PROVE  (LET files == Named(Names(filename))
                         IN IF files = {} THEN shown = <<>>
                            ELSE \E ino \in files :
                                   shown = [i \in 1 .. Inode[ino].size |-> Byte(ino, i - 1)])'
    BY <2>1 DEF ShowsWhatIsNamed
  <2>3. ~ExactCell(Names(filename))
    BY <1>1, <2>2
  <2>4. Named(Names(filename)) = {node} \ {NULL} /\ filename' = filename
    BY <1>1, <1>12, <2>3
  <2>5. CASE node = NULL
    BY <1>1, <1>4, <2>4, <2>5
  <2>6. CASE node # NULL
    BY <1>10, <2>4, <2>6 DEF file
  <2> QED BY <2>5, <2>6
<1>14. CommandInv'
  BY <1>1, <1>4, <1>13 DEF CommandInv
<1> QED BY <1>5, <1>6, <1>7, <1>8, <1>14 DEF ShellInv

\* A turn of the loop of ls.
LEMMA LsEntryInv ==
  ASSUME ShellInv, LsEntry
  PROVE  ShellInv'
<1> DEFINE entry == EntryOf(cwdNode, index)
           all == Entries(cwdNode)
<1>1. /\ at = "ls" /\ UNCHANGED vars /\ UNCHANGED cwdVars /\ UNCHANGED lineVars
      /\ filename' = filename
      /\ \/ entry = NULL /\ at' = "top" /\ index' = index /\ shown' = shown
         \/ entry # NULL /\ at' = at /\ index' = index + 1 /\ shown' = Append(shown, entry)
  BY DEF LsEntry
<1>2. pc' = pc /\ root' = root /\ pc = "idle" /\ cwdNode' = cwdNode
  BY <1>1 DEF vars, cwdVars, ShellInv, Places
<1>3. filename = <<>> /\ Is("ls") /\ cwdNode \in DOMAIN Inode /\ Listed
  BY <1>1 DEF ShellInv, CommandInv, CwdInv
<1>4. VfsInv'
  BY <1>1, UnchangedVfsInv DEF ShellInv
<1>5. CwdInv'
  BY <1>1, <1>2, CwdKept DEF ShellInv
<1>6. LineInv'
  BY <1>1, LineGoesOn DEF ShellInv
<1>7. Places'
  BY <1>1, <1>2 DEF Places
<1>8. Cmd' = Cmd
  BY <1>1, LineKept DEF ShellInv
<1>9. /\ IsDir(cwdNode) => entry = IF index < Len(all) THEN all[index + 1] ELSE NULL
      /\ ~IsDir(cwdNode) => entry = NULL
  BY <1>3, EntryOfLists DEF Listed
<1>10. IsDir(cwdNode) =>
        /\ all \in Seq(Nat) /\ Len(all) \in Nat
        /\ \A a : a \in Within(cwdNode) <=> \E i \in 1 .. Len(all) : a = all[i]
        /\ \A i, j \in 1 .. Len(all) : i < j => all[i] < all[j]
        /\ \A i \in 1 .. Len(all) : all[i] # NULL
  <2> SUFFICES ASSUME IsDir(cwdNode)
               PROVE  /\ all \in Seq(Nat)
                      /\ \A a : a \in Within(cwdNode) <=> \E i \in 1 .. Len(all) : a = all[i]
                      /\ \A i, j \in 1 .. Len(all) : i < j => all[i] < all[j]
                      /\ \A i \in 1 .. Len(all) : all[i] # NULL
    OBVIOUS
  <2>1. /\ all \in Seq(Nat)
        /\ \A a : a \in Within(cwdNode) <=> \E i \in 1 .. Len(all) : a = all[i]
        /\ \A i, j \in 1 .. Len(all) : i < j => all[i] < all[j]
    BY <1>3, EntriesAreWithin
  <2>2. NULL \notin Within(cwdNode)
    BY ImageAssumption DEF Within
  <2> HIDE DEF all
  <2> QED BY <2>1, <2>2
<1> HIDE DEF entry, all
<1>11. /\ index \in Nat /\ shown \in Seq(Nat) /\ Len(shown) = index
       /\ IsDir(cwdNode) => index <= Len(all) /\ \A i \in 1 .. index : shown[i] = all[i]
       /\ ~IsDir(cwdNode) => index = 0
  BY <1>3 DEF Listed, all
<1>12. CASE entry = NULL
  <2>1. at' = "top" /\ index' = index /\ shown' = shown
    BY <1>1, <1>12
  <2>2. IsDir(cwdNode) => index = Len(all)
    <3> SUFFICES ASSUME IsDir(cwdNode), index # Len(all) PROVE FALSE
      OBVIOUS
    <3>1. index < Len(all) /\ index + 1 \in 1 .. Len(all)
      BY <1>10, <1>11
    <3> QED BY <1>9, <1>10, <1>12, <3>1
  <2>3. ToSet(shown) = Within(cwdNode)
    <3>1. \A a : a \in ToSet(shown) <=> \E i \in 1 .. index : a = shown[i]
      BY <1>11 DEF ToSet
    <3>2. CASE IsDir(cwdNode)
      <4>1. \A a : a \in ToSet(shown) <=> a \in Within(cwdNode)
        BY <1>10, <1>11, <2>2, <3>1, <3>2
      <4> QED BY <4>1
    <3>3. CASE ~IsDir(cwdNode)
      <4>1. Within(cwdNode) = {}
        BY <3>3 DEF Within
      <4>2. 1 .. index = {}
        BY <1>11, <3>3
      <4> QED BY <3>1, <4>1, <4>2
    <3> QED BY <3>2, <3>3
  <2>4. \A i, j \in DOMAIN shown : i < j => shown[i] < shown[j]
    <3>1. CASE IsDir(cwdNode)
      BY <1>10, <1>11, <2>2, <3>1
    <3>2. CASE ~IsDir(cwdNode)
      BY <1>11, <3>2
    <3> QED BY <3>1, <3>2
  <2>5. (ToSet(shown) = Within(cwdNode))' /\ (\A i, j \in DOMAIN shown : i < j => shown[i] < shown[j])'
    BY <1>2, <2>1, <2>3, <2>4
  <2>6. ~Is("cat")'
    BY <1>3, <1>8 DEF Is
  <2>7. CommandInv'
    BY <1>1, <1>3, <2>1, <2>5, <2>6 DEF CommandInv, ShowsWhatIsNamed
  <2> QED BY <1>4, <1>5, <1>6, <1>7, <2>7 DEF ShellInv
<1>13. CASE entry # NULL
  <2>1. at' = "ls" /\ index' = index + 1 /\ shown' = Append(shown, entry)
    BY <1>1, <1>13
  <2>2. IsDir(cwdNode) /\ index < Len(all) /\ entry = all[index + 1]
    BY <1>9, <1>13
  <2>3. index + 1 \in 1 .. Len(all) /\ entry \in Nat
    <3>1. index + 1 \in 1 .. Len(all)
      BY <1>10, <1>11, <2>2
    <3> QED BY <1>10, <2>2, <3>1
  <2>4. /\ shown' \in Seq(Nat) /\ Len(shown') = index + 1
        /\ \A i \in 1 .. index : shown'[i] = shown[i]
        /\ shown'[index + 1] = entry
    BY <1>11, <2>1, <2>3, AppendProperties
  <2>5. \A i \in 1 .. index + 1 : shown'[i] = all[i]
    <3> TAKE i \in 1 .. index + 1
    <3>1. i = index + 1 \/ i \in 1 .. index
      BY <1>11
    <3> QED BY <1>11, <2>2, <2>4, <3>1
  <2>6. Listed'
    <3>1. index + 1 <= Len(all) /\ index' \in Nat
      BY <1>11, <2>1, <2>3
    <3>2. Entries(cwdNode)' = all /\ (IsDir(cwdNode)' <=> IsDir(cwdNode))
      BY <1>2 DEF all
    <3> QED BY <2>1, <2>2, <2>4, <2>5, <3>1, <3>2 DEF Listed
  <2>7. CommandInv'
    <3>1. Is("ls")'
      BY <1>3, <1>8 DEF Is
    <3>2. cwdNode' # NULL /\ filename' = <<>> /\ at' = "ls"
      BY <1>1, <1>2, <1>3, <2>1, ImageAssumption
    <3> QED BY <2>6, <3>1, <3>2 DEF CommandInv, ShowsWhatIsNamed
  <2> QED BY <1>4, <1>5, <1>6, <1>7, <2>7 DEF ShellInv
<1> QED BY <1>12, <1>13

\* After any lines, over any image: the tokens belong to the line, and the node
\* to the path, at every step of start_shell.
THEOREM ShellInvariant == ShellSpec => []ShellInv
<1>1. ShellInit => ShellInv
  BY InitShellInv
<1>2. ShellInv /\ [ShellNext]_<<vars, shellVars>> => ShellInv'
  <2> SUFFICES ASSUME ShellInv, [ShellNext]_<<vars, shellVars>> PROVE ShellInv'
    OBVIOUS
  <2>1. CASE Mount \/ StartShell \/ Prompt \/ \E line \in Lines : Kgets(line)
    BY <2>1, StartShellInv
  <2>2. CASE StrtokR
    BY <2>2, StrtokRInv
  <2>3. CASE PrintOnly \/ Fault \/ Ls
    BY <2>3, CommandDone
  <2>4. CASE OpenArgument
    BY <2>4, OpenArgumentInv
  <2>5. CASE Opening
    BY <2>5, OpeningInv
  <2>6. CASE Cd
    BY <2>6, CdInv
  <2>7. CASE Cat
    BY <2>7, CatInv
  <2>8. CASE LsEntry
    BY <2>8, LsEntryInv
  <2>9. CASE UNCHANGED <<vars, shellVars>>
    <3>1. /\ UNCHANGED vars /\ UNCHANGED cwdVars /\ UNCHANGED lineVars
          /\ at' = at /\ filename' = filename /\ index' = index /\ shown' = shown
      BY <2>9 DEF shellVars
    <3>2. /\ pc' = pc /\ root' = root /\ path' = path
          /\ cwd' = cwd /\ cwdNode' = cwdNode
      BY <3>1 DEF vars, cwdVars
    <3>3. VfsInv'
      BY <3>1, UnchangedVfsInv DEF ShellInv
    <3>4. Places' /\ CwdInv'
      BY <3>1, <3>2 DEF ShellInv, Places, CwdInv
    <3>5. /\ Cmd' = Cmd /\ buffer' = buffer /\ argv' = argv /\ save' = save
          /\ buffer # <<>> => TokenInv'
      BY <3>1, LineKept DEF ShellInv
    <3>6. LineInv'
      BY <3>1, <3>5 DEF ShellInv, LineInv
    <3>7. Listed => Listed'
      BY <3>1, <3>2 DEF Listed
    <3>8. ShowsWhatIsNamed'
      BY <3>1, <3>2, <3>5 DEF ShellInv, CommandInv, ShowsWhatIsNamed, Is
    <3>9. CommandInv'
      BY <3>1, <3>2, <3>5, <3>7, <3>8 DEF ShellInv, CommandInv, Is
    <3> QED BY <3>3, <3>4, <3>6, <3>9 DEF ShellInv
  <2> QED BY <2>1, <2>2, <2>3, <2>4, <2>5, <2>6, <2>7, <2>8, <2>9 DEF ShellNext, Step
<1> QED BY <1>1, <1>2, PTL DEF ShellSpec

\* ShellTypeOK: of every line, the pointers of the shell point into its buffers.
THEOREM ShellTypeCorrect == ShellSpec => []ShellTypeOK
<1>1. ShellInv => ShellTypeOK
  <2> SUFFICES ASSUME ShellInv PROVE ShellTypeOK
    OBVIOUS
  <2>1. at \notin {"boot", "halted"} => cwd # <<>> /\ cwd[1] = "/" /\ pc # "halted"
    BY DEF ShellInv, Places, CwdInv
  <2>2. buffer # <<>> => save \in 1 .. Len(buffer) /\ Last(buffer) = "NUL"
    BY DEF ShellInv, LineInv, TokenInv, LineTypes, Last
  <2>3. \A n \in DOMAIN argv : argv[n] \in 1 .. Len(buffer) - 1
    <3>1. CASE buffer = <<>>
      <4>1. DOMAIN argv = {}
        BY <3>1 DEF ShellInv, LineInv
      <4> QED BY <4>1
    <3>2. CASE buffer # <<>>
      BY <3>2 DEF ShellInv, LineInv, TokenInv, LineTypes
    <3> QED BY <3>1, <3>2
  <2> QED BY <2>1, <2>2, <2>3 DEF ShellInv, Places, CwdInv, CommandInv, ShellTypeOK
<1> QED BY <1>1, ShellInvariant, PTL

\* PathNamesNode: over every image, and after every sequence of commands, the
\* node of ls and info is the one that the path in the prompt names, and it has
\* passed for a directory.
THEOREM ShellPathNamesNode == ShellSpec => []PathNamesNode
<1>1. ShellInv => PathNamesNode
  BY DEF ShellInv, CwdInv, PathNamesNode
<1> QED BY <1>1, ShellInvariant, PTL

\* TokensAreWords: strtok_r cuts every line, of any length and with spaces
\* anywhere, into its words.
THEOREM ShellTokensAreWords == ShellSpec => []TokensAreWords
<1>1. ShellInv => TokensAreWords
  <2> SUFFICES ASSUME ShellInv, at \in {"command", "kopen", "opened", "ls"} PROVE TokensAreWords
    BY DEF TokensAreWords
  <2>1. TokenInv /\ LineTypes /\ save = Len(typed) + 1
    BY DEF ShellInv, LineInv, TokenInv, LineTypes
  <2>2. argv \in Seq(1 .. Len(typed)) /\ Len(typed) \in Nat /\ Len(argv) \in Nat
        /\ DOMAIN argv = 1 .. Len(argv) /\ DOMAIN typed = 1 .. Len(typed)
        /\ Len(buffer) = Len(typed) + 1
    BY <2>1 DEF LineTypes
  <2>3. {argv[n] : n \in DOMAIN argv} = WordStarts
    <3>1. \A i \in 1 .. Len(typed) : i \in WordStarts <=> \E n \in 1 .. Len(argv) : argv[n] = i
      <4>1. \A i \in 1 .. Len(typed) : i < save
        BY <2>1, <2>2
      <4> QED BY <2>1, <4>1 DEF TokenInv
    <3>2. WordStarts \subseteq 1 .. Len(typed)
      BY <2>2 DEF WordStarts
    <3>3. \A n \in 1 .. Len(argv) : argv[n] \in 1 .. Len(typed)
      BY <2>2
    <3> QED BY <2>2, <3>1, <3>2, <3>3
  <2>4. ASSUME NEW n \in DOMAIN argv
        PROVE  LET word == Text(argv[n])
                   next == argv[n] + Len(word)
               IN /\ n > 1 => argv[n - 1] < argv[n]
                  /\ word = SubSeq(typed, argv[n], next - 1) /\ Space \notin ToSet(word)
                  /\ next <= Len(typed) => typed[next] = Space
    <3>1. PICK e \in 1 .. save : WordEnds(argv[n], e)
      BY <2>1, <2>2 DEF TokenInv
    <3>2. argv[n] \in 1 .. Len(typed) /\ e \in Int
      BY <2>1, <2>2
    <3>3. /\ Text(argv[n]) = SubSeq(typed, argv[n], e - 1)
          /\ Text(argv[n]) \in Seq(Piece) /\ Len(Text(argv[n])) = e - argv[n]
          /\ \A k \in 1 .. Len(Text(argv[n])) : Text(argv[n])[k] # Space
      BY <2>1, <3>1, <3>2, TextOfWord
    <3>4. argv[n] + Len(Text(argv[n])) = e
      BY <3>2, <3>3
    <3>5. Space \notin ToSet(Text(argv[n]))
      BY <3>3 DEF ToSet
    <3>6. e <= Len(typed) => typed[e] = Space
      BY <2>2, <3>1, <3>2 DEF WordEnds
    <3>7. n > 1 => argv[n - 1] < argv[n]
      BY <2>1, <2>2 DEF TokenInv
    <3> QED BY <3>3, <3>4, <3>5, <3>6, <3>7
  <2> QED BY <2>3, <2>4 DEF TokensAreWords
<1> QED BY <1>1, ShellInvariant, PTL

\* ShowsWhatIsNamed: over every image cat prints the file that its argument
\* names, byte for byte, and ls the directory in the prompt, entry by entry.
THEOREM ShellShowsWhatIsNamed == ShellSpec => []ShowsWhatIsNamed
<1>1. ShellInv => ShowsWhatIsNamed
  BY DEF ShellInv, CommandInv
<1> QED BY <1>1, ShellInvariant, PTL
=============================================================================
