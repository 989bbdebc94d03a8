------------------------------- MODULE MC_Vfs -------------------------------
(***************************************************************************)
(* An image with blocks of 4 bytes and two block numbers, two of them in   *)
(* the inode.  The root's directory has two blocks; there are files of no  *)
(* byte, less than a block, a full block, an indirect block in part and in *)
(* full, and a block device, which has the directory's bit in its mode.    *)
(*                                                                         *)
(*   /etc/motd  /etc/none  /about  /big  /full  /dev                       *)
(***************************************************************************)
EXTENDS Vfs, TLC

ImageInode ==
  2 :> [mode |-> {14}, size |-> 8, block |-> 0 :> 4 @@ 1 :> 5 @@ 2 :> 0] @@
  3 :> [mode |-> {14}, size |-> 4, block |-> 0 :> 7 @@ 1 :> 0 @@ 2 :> 0] @@
  4 :> [mode |-> {15}, size |-> 4, block |-> 0 :> 3 @@ 1 :> 0 @@ 2 :> 0] @@
  5 :> [mode |-> {15}, size |-> 0, block |-> 0 :> 0 @@ 1 :> 0 @@ 2 :> 0] @@
  6 :> [mode |-> {15}, size |-> 3, block |-> 0 :> 11 @@ 1 :> 0 @@ 2 :> 0] @@
  7 :> [mode |-> {15}, size |-> 11, block |-> 0 :> 9 @@ 1 :> 6 @@ 2 :> 8] @@
  8 :> [mode |-> {15}, size |-> 16, block |-> 0 :> 15 @@ 1 :> 13 @@ 2 :> 14] @@
  9 :> [mode |-> {14, 13}, size |-> 0, block |-> 0 :> 3 @@ 1 :> 0 @@ 2 :> 0]

ImagePointers ==
  8 :> (0 :> 12 @@ 1 :> 0) @@
  14 :> (0 :> 16 @@ 1 :> 10)

Entry(i, n, l) == [inode |-> i, name |-> n, rec_len |-> l]

ImageDirent ==
  16 :> Entry(2, ".", 1) @@ 17 :> Entry(2, "..", 1) @@
  18 :> Entry(3, "etc", 1) @@ 19 :> Entry(6, "about", 1) @@
  20 :> Entry(7, "big", 1) @@ 21 :> Entry(8, "full", 1) @@ 22 :> Entry(9, "dev", 2) @@
  28 :> Entry(3, ".", 1) @@ 29 :> Entry(2, "..", 1) @@
  30 :> Entry(4, "motd", 1) @@ 31 :> Entry(5, "none", 1)

ImageNameLen ==
  "" :> 0 @@ "." :> 1 @@ ".." :> 2 @@ "etc" :> 3 @@ "dev" :> 3 @@ "big" :> 3 @@
  "full" :> 4 @@ "motd" :> 4 @@ "none" :> 4 @@ "about" :> 5

Name == DOMAIN ImageNameLen

ImagePath == UNION {[1 .. n -> Name] : n \in 1 .. 2} \cup {<<"etc", "..", n>> : n \in Name}
=============================================================================
