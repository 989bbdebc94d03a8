------------------------------ MODULE MC_Shell ------------------------------
(***************************************************************************)
(* Lines for the image of MC_Vfs: every arrangement of up to four words and*)
(* spaces in which no two words touch (they would be one), and cd and cat  *)
(* with relative and absolute paths of directories, files, a device and    *)
(* nothing.                                                                *)
(***************************************************************************)
EXTENDS Shell, MC_Vfs

Arguments ==
  {<<n>> : n \in Name \ {""}} \cup {<<"etc", "/", n>> : n \in {"motd", ".."}}
  \cup {<<"/">>, <<"/", "etc">>, <<"/", "dev">>, <<"/", "etc", "/", "motd">>, <<"/", "full">>}

TypedLines ==
  {line \in UNION {[1 .. n -> {" ", "ls", "etc"}] : n \in 0 .. 4} :
     \A i \in 1 .. Len(line) - 1 : line[i] = " " \/ line[i + 1] = " "}
  \cup {<<c, " ">> \o a : c \in {"cd", "cat"}, a \in Arguments}
  \cup {<<"cd">>, <<"crash">>, <<"out", " ", "etc">>, <<"out", " ", "etc", " ", "big">>}
=============================================================================
