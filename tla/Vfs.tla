-------------------------------- MODULE Vfs --------------------------------
(***************************************************************************)
(* The virtual file system, kernel/core/vfs.c, over the ext2 image: kopen  *)
(* walks along a path, the others call the operation of a node.  The       *)
(* kernel's one thread is the only client.                                 *)
(*                                                                         *)
(* A path is absolute and is the sequence of what stands behind each of    *)
(* its slashes: "/" is one empty name.  A node is named by its inode.      *)
(***************************************************************************)
EXTENDS Ext2, FiniteSetsExt, SequencesExt

CONSTANTS
  NameLen,     \* bytes of each name
  CellSizes,   \* the sizes of the allocator's small cells
  Path,        \* bound: the paths that are opened
  MaxRead,     \* bound: the bytes asked for
  MaxIndex     \* bound: the directory entries asked for

ASSUME VfsAssumption ==
  /\ Path \subseteq Seq(DOMAIN NameLen) \ {<<>>}
  /\ \A a \in DOMAIN Dirent : Dirent[a].name \in DOMAIN NameLen
  /\ \A n \in DOMAIN NameLen : NameLen[n] \in Nat /\ \E c \in CellSizes : NameLen[n] < c
  /\ MaxRead \in Nat /\ MaxIndex \in Nat

VARIABLES
  pc,      \* "boot", "idle", "walk" (in the loop of kopen) or "halted"
  root,    \* fs_root
  path,    \* the path of the last kopen
  depth,   \* depth of kopen
  node,    \* node_ptr of kopen, and what it returned
  lost,    \* the byte behind the copy of the path is no longer 0
  ret      \* the last call that was made on the node and what came of it

vars == <<pc, root, path, depth, node, lost, ret>>

None == [op |-> "none"]

Init ==
  /\ pc = "boot"
  /\ root = NULL
  /\ path = <<>> /\ depth = 0 /\ node = NULL /\ lost = FALSE
  /\ ret = None
-----------------------------------------------------------------------------
\* main mounts the first module, if there is one.
InitrdMount ==
  /\ pc = "boot"
  /\ root' = ROOT_INODE
  /\ pc' = "idle"
  /\ UNCHANGED <<path, depth, node, lost, ret>>

NoModule ==
  /\ pc = "boot"
  /\ pc' = "idle"
  /\ UNCHANGED <<root, path, depth, node, lost, ret>>

\* kopen up to its loop.  It halts without a file system; otherwise it makes
\* a copy of the path.
Kopen(names) ==
  /\ pc = "idle"
  /\ path' = names
  /\ depth' = 0 /\ node' = root /\ lost' = FALSE
  /\ pc' = IF root = NULL THEN "halted" ELSE "walk"
  /\ ret' = None
  /\ UNCHANGED root

\* finddir_fs.
FindDirFs(ino, name) == IF "DIR" \in NodeFlags(ino) THEN FindDir(ino, name) ELSE NULL

\* The copy of a path takes as many bytes as the path has, without the 0 that
\* ends it.  When that is the size of a cell the 0 goes into the next one.
PathLen(names) == FoldLeft(LAMBDA sum, name : sum + NameLen[name] + 1, 0, names)
ExactCell(names) == PathLen(names) \in CellSizes

\* The cell klmalloc takes for a block.
CellFor(bytes) == Min({c \in CellSizes : bytes <= c})

\* finddir_initrd copies each name that it compares: it may be given the cell
\* behind the copy of the path.
MayTakeNext(ino, name) ==
  /\ ExactCell(path) /\ "DIR" \in NodeFlags(ino)
  /\ \E a \in Compared(ino, name) : CellFor(NameLen[Dirent[a].name] + 1) = PathLen(path)

\* A turn of the loop.  The last name goes on up to the 0 behind the copy.  If
\* that is lost it is a longer one, which no entry has.
Walk ==
  /\ pc = "walk"
  /\ lost' \in {lost} \cup {b \in {TRUE} : MayTakeNext(node, path[depth + 1])}
  /\ LET last == depth = Len(path) - 1
         next == IF last /\ lost' THEN NULL ELSE FindDirFs(node, path[depth + 1])
     IN /\ node' = next
        /\ \/ /\ next = NULL \/ last
              /\ pc' = "idle"
              /\ UNCHANGED depth
           \/ /\ next # NULL /\ ~last
              /\ depth' = depth + 1
              /\ UNCHANGED pc
  /\ UNCHANGED <<root, path, ret>>

\* read_fs of a node that kopen returned.
ReadFs(offset, size) ==
  /\ pc = "idle" /\ node # NULL
  /\ offset <= Inode[node].size
  /\ ret' = [op |-> "read", offset |-> offset, size |-> size,
             got |-> ReadInitrd(node, offset, size)]
  /\ UNCHANGED <<pc, root, path, depth, node, lost>>

\* readdir_fs.
EntryOf(ino, index) ==
  IF NodeFlags(ino) \cap {"REG", "DIR", "CHR"} = {"DIR"} THEN ReadDir(ino, index) ELSE NULL

\* The same of a node that kopen returned.
ReadDirFs(index) ==
  /\ pc = "idle" /\ node # NULL
  /\ ret' = [op |-> "readdir", index |-> index, got |-> EntryOf(node, index)]
  /\ UNCHANGED <<pc, root, path, depth, node, lost>>

Next ==
  \/ InitrdMount \/ NoModule
  \/ \E names \in Path : Kopen(names)
  \/ Walk
  \/ \E offset, size \in 0 .. MaxRead : ReadFs(offset, size)
  \/ \E index \in 0 .. MaxIndex : ReadDirFs(index)

Spec == Init /\ [][Next]_vars
-----------------------------------------------------------------------------
\* The nodes that a path names: none, or one.
Named(names) ==
  LET at[n \in 0 .. Len(names)] ==
        IF n = 0 THEN {ROOT_INODE}
        ELSE {Dirent[a].inode : a \in {a \in UNION {Within(ino) : ino \in at[n - 1]} :
                                        Dirent[a].name = names[n]}}
  IN at[Len(names)]
-----------------------------------------------------------------------------
(* Invariants.                                                             *)

\* The words of kopen and of its callers.
VfsTypeOK ==
  /\ pc \in {"boot", "idle", "walk", "halted"}
  /\ root \in {NULL, ROOT_INODE}
  /\ path \in Path \cup {<<>>}
  /\ node \in DOMAIN Inode \cup {NULL}
  /\ pc = "walk" => node # NULL /\ depth < Len(path)
  /\ lost \in BOOLEAN

\* kopen returns the node that the path names, through real directories only,
\* and NULL if and only if it names none.  The checks on the way go by flags
\* that other types of node share with directories.  This leaves out paths of
\* the length of a cell (see KopenFindsEveryPath).
KopenFindsPath ==
  VfsTypeOK /\ (pc = "idle" /\ path # <<>> /\ ~ExactCell(path) => Named(path) = {node} \ {NULL})

\* A read returns the bytes of the file from the offset on, as many as asked
\* for or as there are, and writes to that many bytes of the buffer and no
\* others: at any offset, across direct and indirect blocks, up to the end.
ReadIsSlice ==
  ret.op = "read" =>
    LET count == Min({ret.size, Inode[node].size - ret.offset})
    IN ret.got = [count |-> count,
                  buffer |-> [i \in 0 .. count - 1 |-> Byte(node, ret.offset + i)]]

\* readdir with 0, 1, 2, ... goes through the entries of a directory, each of
\* them once, and ends behind the last; there are none in other nodes.
ReadDirListsAll ==
  ret.op = "readdir" =>
    IF ret.index < Cardinality(Within(node))
      THEN /\ ret.got \in Within(node)
           /\ Cardinality({a \in Within(node) : a < ret.got}) = ret.index
      ELSE ret.got = NULL

\* What the comment of kopen says ("Retreive the node for the requested path",
\* vfs.c:51), of every absolute path.
KopenFindsEveryPath ==
  pc = "idle" /\ path # <<>> => Named(path) = {node} \ {NULL}
=============================================================================
