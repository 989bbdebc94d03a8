-------------------------------- MODULE Ext2 --------------------------------
(***************************************************************************)
(* Reading the ext2 image that the loader left in memory:                  *)
(* kernel/core/fs/ext2_initrd.c.  Nothing writes to the image, so it is a  *)
(* constant and the code a set of functions of it.                         *)
(*                                                                         *)
(* A byte of the image stands for itself: it is named by its address, which*)
(* counts from initrd_start.  So what a read returns tells where it was    *)
(* taken from.                                                             *)
(***************************************************************************)
EXTENDS Integers, Sequences, FiniteSets

CONSTANTS
  BLOCK_SIZE,   \* 1024 << log_block_size
  DIRECT,       \* block numbers in an inode before the indirect one (12)
  PTR_SIZE,     \* bytes of a block number (4)
  Inode,        \* the inode table: [mode, size, block] of each inode number
  Pointers,     \* the block numbers in each indirect block
  Dirent        \* [inode, name, rec_len] of the entry at an address

NULL == 0
NoName == ""    \* what stands between two slashes
ROOT_INODE == 2
PerBlock == BLOCK_SIZE \div PTR_SIZE

\* The types of EXT2_S_IF..., as the set of the bits of the mode that are set.
TypeBits ==
  [SOCK |-> {15, 14}, LNK |-> {15, 13}, REG |-> {15}, BLK |-> {14, 13},
   DIR |-> {14}, CHR |-> {13}, FIFO |-> {12}]

IsDir(ino) == Inode[ino].mode = TypeBits.DIR
-----------------------------------------------------------------------------
(* Blocks and entries.                                                     *)

GetBlock(b) == BLOCK_SIZE * b

\* ext2_get_inode_block: the address of the k-th block of an inode.
GetInodeBlock(ino, k) ==
  IF k < DIRECT THEN GetBlock(Inode[ino].block[k])
  ELSE IF k < DIRECT + PerBlock
    THEN GetBlock(Pointers[Inode[ino].block[DIRECT]][k - DIRECT])
  ELSE NULL

\* The loops of finddir_initrd and ext2_get_direntry: from the first block on,
\* by rec_len, up to a size.  What they visit, if they do not leave it before:
\* from[turns][offset] is what is still ahead.  No loop takes more turns than
\* the directory has bytes.
Visited(ino, size) ==
  LET block == GetInodeBlock(ino, 0)
      from[turns \in 0 .. size] ==
        [offset \in Nat |->
           IF turns = 0 \/ offset >= size THEN <<>>
           ELSE <<block + offset>> \o from[turns - 1][offset + Dirent[block + offset].rec_len]]
  IN from[size][0]

\* A mistake: the walk ends with the first block.
Entries_OneBlock(ino) ==
  Visited(ino, IF Inode[ino].size < BLOCK_SIZE THEN Inode[ino].size ELSE BLOCK_SIZE)

\* The entries that they visit.
Entries(ino) == Visited(ino, Inode[ino].size)
-----------------------------------------------------------------------------
(* What the image holds, without walking through it.                       *)

\* The bytes of a file: its blocks one behind the other.
Byte(ino, i) == GetInodeBlock(ino, i \div BLOCK_SIZE) + (i % BLOCK_SIZE)

\* The entries of a directory: all that lie in it.
Within(ino) ==
  IF IsDir(ino)
    THEN {a \in DOMAIN Dirent : \E i \in 0 .. Inode[ino].size - 1 : a = Byte(ino, i)}
    ELSE {}

\* A directory's bytes follow each other; it is tiled by entries in use, whose
\* names differ.
Readable(ino) ==
  LET block == GetInodeBlock(ino, 0)
      end == block + Inode[ino].size
  IN /\ \A i \in 0 .. Inode[ino].size - 1 : Byte(ino, i) = block + i
     /\ block \in Within(ino) \cup {end}
     /\ \A a \in Within(ino) :
          LET next == a + Dirent[a].rec_len
          IN /\ next \in Within(ino) \cup {end}
             /\ \A b \in Within(ino) :
                  (b <= a \/ next <= b) /\ (Dirent[b].name = Dirent[a].name => b = a)

\* The images that the kernel can read: of well-formed ext2 file systems, those
\* whose directories can be read from their first block on, and whose files need
\* no doubly indirect blocks.  (Of any other the code reads something else.)
\* Inodes are counted from 1, the first block holds no entries, every entry has
\* a name, and a node that is not a file or a directory has no bytes.
ASSUME ImageAssumption ==
  /\ BLOCK_SIZE \in Nat \ {0} /\ PTR_SIZE \in 1 .. BLOCK_SIZE /\ DIRECT \in Nat \ {0}
  /\ ROOT_INODE \in DOMAIN Inode /\ IsDir(ROOT_INODE)
  /\ NULL \notin DOMAIN Inode /\ NULL \notin DOMAIN Dirent
  /\ \A a \in DOMAIN Dirent :
       Dirent[a].inode \in DOMAIN Inode /\ Dirent[a].rec_len \in Nat \ {0} /\ Dirent[a].name # NoName
  /\ \A ino \in DOMAIN Inode :
       /\ \E t \in DOMAIN TypeBits : Inode[ino].mode = TypeBits[t]
       /\ Inode[ino].size \in 0 .. (DIRECT + PerBlock) * BLOCK_SIZE
       /\ Inode[ino].size > 0 => Inode[ino].mode \in {TypeBits.REG, TypeBits.DIR, TypeBits.LNK}
       /\ \A i \in 0 .. Inode[ino].size - 1 : GetInodeBlock(ino, i \div BLOCK_SIZE) \in Nat
       /\ IsDir(ino) => Readable(ino)
-----------------------------------------------------------------------------
(* The operations of a node.                                               *)

\* initrd_node_from_file and initrd_node_root: a flag is set when all bits of
\* its type are.
NodeFlags(ino) ==
  {t \in {"REG", "DIR", "BLK", "CHR", "FIFO", "LNK"} : TypeBits[t] \subseteq Inode[ino].mode}

\* The entries that the loop of finddir_initrd compares with a name: up to the
\* first that has it.
Compared(ino, name) ==
  LET entries == Entries(ino)
  IN {entries[i] : i \in {i \in 1 .. Len(entries) :
                            \A j \in 1 .. i - 1 : Dirent[entries[j]].name # name}}

\* finddir_initrd: the inode of the entry of that name.
FindDir(ino, name) ==
  LET hits == {a \in Compared(ino, name) : Dirent[a].name = name}
  IN IF hits = {} THEN NULL ELSE Dirent[CHOOSE a \in hits : TRUE].inode

\* A mistake: the entries are counted from 1.
ReadDir_FromOne(ino, index) ==
  LET entries == Entries(ino)
  IN IF index \in 1 .. Len(entries) THEN entries[index] ELSE NULL

\* ext2_get_direntry and readdir_initrd: the address of the entry copied.
ReadDir(ino, index) ==
  LET entries == Entries(ino)
  IN IF index < Len(entries) THEN entries[index + 1] ELSE NULL

\* A mistake: the skipped part of the first block is not taken into account.
Pieces_NoShift(offset, end) ==
  LET first == offset \div BLOCK_SIZE
      last == end \div BLOCK_SIZE
      skip == offset % BLOCK_SIZE
      to(k) == BLOCK_SIZE * (k - first)
  IN IF first = last THEN {[to |-> 0, k |-> first, skip |-> skip, len |-> end - offset]}
     ELSE {[to |-> 0, k |-> first, skip |-> skip, len |-> BLOCK_SIZE - skip]}
          \cup {[to |-> to(k), k |-> k, skip |-> 0, len |-> BLOCK_SIZE] : k \in first + 1 .. last - 1}
          \cup {[to |-> to(last), k |-> last, skip |-> 0, len |-> end % BLOCK_SIZE]}

\* The calls of memcpy that read_initrd makes for the bytes from offset up to
\* end: len bytes, from skip on, of block k, to where in the buffer.
Pieces(offset, end) ==
  LET first == offset \div BLOCK_SIZE
      last == end \div BLOCK_SIZE
      skip == offset % BLOCK_SIZE
      to(k) == BLOCK_SIZE * (k - first) - skip
  IN IF first = last THEN {[to |-> 0, k |-> first, skip |-> skip, len |-> end - offset]}
     ELSE {[to |-> 0, k |-> first, skip |-> skip, len |-> BLOCK_SIZE - skip]}
          \cup {[to |-> to(k), k |-> k, skip |-> 0, len |-> BLOCK_SIZE] : k \in first + 1 .. last - 1}
          \cup {[to |-> to(last), k |-> last, skip |-> 0, len |-> end % BLOCK_SIZE]}

\* read_initrd, for an offset that is not behind the end of the file: what is
\* at each place of the buffer it wrote to, and what it returns.
ReadInitrd(ino, offset, size) ==
  LET end == IF offset + size > Inode[ino].size THEN Inode[ino].size ELSE offset + size
      pieces == Pieces(offset, end)
      piece(i) == CHOOSE p \in pieces : i \in p.to .. p.to + p.len - 1
  IN [count |-> end - offset,
      buffer |-> [i \in UNION {p.to .. p.to + p.len - 1 : p \in pieces} |->
                    GetInodeBlock(ino, piece(i).k) + piece(i).skip + i - piece(i).to]]
=============================================================================
