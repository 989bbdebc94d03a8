------------------------------- MODULE Shell -------------------------------
(***************************************************************************)
(* kernel/core/shell.c: the loop of the shell over the file system, with   *)
(* strtok_r of kernel/core/system.c.                                       *)
(*                                                                         *)
(* A text is a sequence of pieces: " ", "/", and the names and words, which*)
(* have neither in them and of which no two are side by side.  What the    *)
(* heap gives and what the commands never give back is left out.           *)
(***************************************************************************)
EXTENDS Vfs

CONSTANTS
  Lines,       \* bound: the lines that are typed
  MaxPieces    \* bound: the pieces of a path together with a line

ASSUME ShellAssumption ==
  /\ Lines \subseteq Seq(STRING) /\ \A line \in Lines : "NUL" \notin ToSet(line)
  /\ MaxPieces \in Nat

VARIABLES
  at,          \* where start_shell is: "boot", "top" of the loop, "prompt",
               \* "strtok_r", "command", "kopen", "opened", "ls" or "halted"
  cwd,         \* the text of path
  cwdNode,     \* node
  typed,       \* what was typed (history)
  buffer,      \* the line, from which strtok_r cuts its tokens
  save,        \* where the next call of strtok_r goes on
  argv,        \* where the tokens start
  filename,    \* of cd and cat
  index,       \* i of ls
  shown        \* what the command has printed of the file system (history)

Space == " "

lineVars == <<typed, buffer, save, argv>>
cwdVars == <<cwd, cwdNode>>
shellVars == <<at, cwdVars, lineVars, filename, index, shown>>

ShellInit ==
  /\ Init
  /\ at = "boot" /\ cwd = <<>> /\ cwdNode = NULL
  /\ typed = <<>> /\ buffer = <<>> /\ save = 1 /\ argv = <<>>
  /\ filename = <<>> /\ index = 0 /\ shown = <<>>

Mount == (InitrdMount \/ NoModule) /\ UNCHANGED shellVars

StartShell ==
  /\ at = "boot" /\ pc = "idle"
  /\ at' = "top" /\ cwd' = <<"/">> /\ cwdNode' = root
  /\ UNCHANGED <<vars, lineVars, filename, index, shown>>

\* The prompt.  What the commands and kopen kept for themselves is gone.
Prompt ==
  /\ at = "top" /\ at' = "prompt"
  /\ typed' = <<>> /\ buffer' = <<>> /\ save' = 1 /\ argv' = <<>>
  /\ filename' = <<>> /\ index' = 0 /\ shown' = <<>>
  /\ path' = <<>> /\ depth' = 0 /\ node' = NULL /\ lost' = FALSE /\ ret' = None
  /\ UNCHANGED <<pc, root, cwdVars>>

\* kgets.  An empty line is passed over.
Kgets(line) ==
  /\ at = "prompt" /\ Len(cwd) + Len(line) <= MaxPieces
  /\ typed' = line /\ buffer' = Append(line, "NUL")
  /\ at' = IF line = <<>> THEN "top" ELSE "strtok_r"
  /\ UNCHANGED <<vars, cwdVars, save, argv, filename, index, shown>>
-----------------------------------------------------------------------------
(* The tokens.                                                             *)

\* str + strspn(str, " "): the first place from i on without a space.
SkipSpaces(i) == Min({j \in i .. Len(buffer) : buffer[j] # Space})

\* lfind(str, '\0').
EndOfText(i) == Min({j \in i .. Len(buffer) : buffer[j] = "NUL"})

\* strpbrk(str, " ").
SpacesFrom(i) == {j \in i .. EndOfText(i) : buffer[j] = Space}

Text(i) == SubSeq(buffer, i, EndOfText(i) - 1)

\* A mistake: the next call starts at the 0 that ends the token.
StrtokR_AtNul ==
  /\ at = "strtok_r"
  /\ LET token == SkipSpaces(save)
     IN IF buffer[token] = "NUL"
          THEN save' = token /\ at' = "command" /\ UNCHANGED <<buffer, argv>>
          ELSE /\ argv' = Append(argv, token)
               /\ IF SpacesFrom(token) = {} THEN save' = EndOfText(token) /\ UNCHANGED buffer
                  ELSE /\ save' = Min(SpacesFrom(token))
                       /\ buffer' = [buffer EXCEPT ![Min(SpacesFrom(token))] = "NUL"]
               /\ UNCHANGED at
  /\ UNCHANGED <<vars, cwdVars, typed, filename, index, shown>>

\* A mistake: the last token, too, is taken to have a space behind it.
StrtokR_PastEnd ==
  /\ at = "strtok_r"
  /\ LET token == SkipSpaces(save)
         end == Min(SpacesFrom(token) \cup {EndOfText(token)})
     IN IF buffer[token] = "NUL"
          THEN save' = token /\ at' = "command" /\ UNCHANGED <<buffer, argv>>
          ELSE /\ argv' = Append(argv, token)
               /\ save' = end + 1
               /\ buffer' = [buffer EXCEPT ![end] = "NUL"]
               /\ UNCHANGED at
  /\ UNCHANGED <<vars, cwdVars, typed, filename, index, shown>>

\* A call of strtok_r and the turn of the loop around it.
StrtokR ==
  /\ at = "strtok_r"
  /\ LET token == SkipSpaces(save)
     IN IF buffer[token] = "NUL"
          THEN save' = token /\ at' = "command" /\ UNCHANGED <<buffer, argv>>
          ELSE /\ argv' = Append(argv, token)
               /\ IF SpacesFrom(token) = {} THEN save' = EndOfText(token) /\ UNCHANGED buffer
                  ELSE /\ save' = Min(SpacesFrom(token)) + 1
                       /\ buffer' = [buffer EXCEPT ![Min(SpacesFrom(token))] = "NUL"]
               /\ UNCHANGED at
  /\ UNCHANGED <<vars, cwdVars, typed, filename, index, shown>>
-----------------------------------------------------------------------------
(* The commands.                                                           *)

\* cmd.  Of a line of spaces it is NULL, where memory holds no command.
Cmd == IF argv = <<>> THEN <<>> ELSE Text(argv[1])
Is(name) == Cmd = <<name>>

Command(to) == at = "command" /\ at' = to

\* echo, info, help, serial and an unknown one print; cd, cat and out do when
\* arguments are missing.
PrintOnly ==
  /\ Command("top")
  /\ ~(Is("cd") \/ Is("cat")) \/ Len(argv) < 2
  /\ ~Is("out") \/ Len(argv) < 3
  /\ ~Is("ls") /\ ~Is("crash")
  /\ UNCHANGED <<vars, cwdVars, lineVars, filename, index, shown>>

\* crash reads where nothing is mapped.  So does out: the loop of atoi counts
\* away from the end of the number, and goes on until it is there.
Fault ==
  /\ Command("halted")
  /\ Is("crash") \/ (Is("out") /\ Len(argv) >= 3)
  /\ UNCHANGED <<vars, cwdVars, lineVars, filename, index, shown>>

\* The text that cd and cat open.
FullName(arg) ==
  IF arg[1] = "/" THEN arg
  ELSE IF cwd = <<"/">> THEN cwd \o arg
  ELSE cwd \o <<"/">> \o arg

\* How kopen cuts a text that starts with a slash.
Names(text) ==
  LET slashes == {i \in DOMAIN text : text[i] = "/"}
      slash(n) == CHOOSE i \in slashes : Cardinality({j \in slashes : j <= i}) = n
      behind(i) == IF i < Len(text) /\ text[i + 1] # "/" THEN text[i + 1] ELSE NoName
  IN [n \in 1 .. Cardinality(slashes) |-> behind(slash(n))]

\* cd and cat up to kopen, which halts without a file system.
OpenArgument ==
  /\ Is("cd") \/ Is("cat")
  /\ Len(argv) >= 2
  /\ Command(IF root = NULL THEN "halted" ELSE "kopen")
  /\ filename' = FullName(Text(argv[2]))
  /\ Kopen(Names(filename'))
  /\ UNCHANGED <<cwdVars, lineVars, index, shown>>

Opening ==
  /\ at = "kopen" /\ Walk
  /\ at' = IF pc' = "walk" THEN "kopen" ELSE "opened"
  /\ UNCHANGED <<cwdVars, lineVars, filename, index, shown>>

\* A mistake: the new path is not ended, and keeps the rest of a longer one.
Cd_NoNul ==
  /\ at = "opened" /\ Is("cd")
  /\ at' = "top"
  /\ IF node # NULL /\ "DIR" \in NodeFlags(node)
       THEN cwd' = filename \o SubSeq(cwd, Len(filename) + 1, Len(cwd)) /\ cwdNode' = node
       ELSE UNCHANGED cwdVars
  /\ UNCHANGED <<vars, lineVars, filename, index, shown>>

\* The rest of cd: path and node change together, or not at all.
Cd ==
  /\ at = "opened" /\ Is("cd")
  /\ at' = "top"
  /\ IF node # NULL /\ "DIR" \in NodeFlags(node)
       THEN cwd' = filename /\ cwdNode' = node
       ELSE UNCHANGED cwdVars
  /\ UNCHANGED <<vars, lineVars, filename, index, shown>>

\* The rest of cat: read_fs of the whole file, and writech of what it returned.
Cat ==
  /\ at = "opened" /\ Is("cat")
  /\ at' = "top"
  /\ IF node = NULL THEN UNCHANGED <<vars, shown>>
     ELSE /\ ReadFs(0, Inode[node].size)
          /\ shown' = [i \in 1 .. ret'.got.count |-> ret'.got.buffer[i - 1]]
  /\ UNCHANGED <<cwdVars, lineVars, filename, index>>

\* ls.  Without a file system node is NULL, and what readdir_fs finds at low
\* addresses it may take for a directory, and its operation for code.
Ls ==
  /\ Is("ls")
  /\ \E to \in IF cwdNode = NULL THEN {"top", "halted"} ELSE {"ls"} : Command(to)
  /\ UNCHANGED <<vars, cwdVars, lineVars, filename, index, shown>>

\* A mistake: the index is not counted on.
LsEntry_Stays ==
  /\ at = "ls"
  /\ LET entry == EntryOf(cwdNode, index)
     IN IF entry = NULL THEN at' = "top" /\ UNCHANGED shown
        ELSE shown' = <<entry>> /\ UNCHANGED at
  /\ UNCHANGED <<vars, cwdVars, lineVars, filename, index>>

\* A mistake: the index goes on before the first entry.
LsEntry_FromOne ==
  /\ at = "ls"
  /\ LET entry == EntryOf(cwdNode, index + 1)
     IN IF entry = NULL THEN at' = "top" /\ UNCHANGED <<index, shown>>
        ELSE /\ shown' = Append(shown, entry)
             /\ index' = index + 1
             /\ UNCHANGED at
  /\ UNCHANGED <<vars, cwdVars, lineVars, filename>>

\* readdir_fs and the turn of the loop with what it returned.
LsEntry ==
  /\ at = "ls"
  /\ LET entry == EntryOf(cwdNode, index)
     IN IF entry = NULL THEN at' = "top" /\ UNCHANGED <<index, shown>>
        ELSE /\ shown' = Append(shown, entry)
             /\ index' = index + 1
             /\ UNCHANGED at
  /\ UNCHANGED <<vars, cwdVars, lineVars, filename>>
-----------------------------------------------------------------------------
Step == Mount \/ StartShell \/ Prompt \/ StrtokR \/ PrintOnly \/ Fault \/ OpenArgument
        \/ Opening \/ Cd \/ Cat \/ Ls \/ LsEntry

ShellNext == Step \/ \E line \in Lines : Kgets(line)

\* The kernel's one thread goes on; nobody has to type.
ShellSpec == ShellInit /\ [][ShellNext]_<<vars, shellVars>> /\ WF_<<vars, shellVars>>(Step)
-----------------------------------------------------------------------------
(* Properties.                                                             *)

\* The shell's pointers point into its buffers.
ShellTypeOK ==
  /\ at \in {"boot", "top", "prompt", "strtok_r", "command", "kopen", "opened", "ls", "halted"}
  /\ cwdNode \in DOMAIN Inode \cup {NULL}
  /\ at \notin {"boot", "halted"} => cwd # <<>> /\ cwd[1] = "/" /\ pc # "halted"
  /\ buffer # <<>> => save \in 1 .. Len(buffer) /\ Last(buffer) = "NUL"
  /\ \A n \in DOMAIN argv : argv[n] \in 1 .. Len(buffer) - 1
  /\ filename # <<>> => filename[1] = "/"

\* The node that ls and info use is the one that the path in the prompt names,
\* after any sequence of cd's, those that fail on the way and those with "."
\* and ".." in them among them, and it has passed for a directory.
PathNamesNode ==
  at = "top" /\ root # NULL =>
    /\ IF cwd = <<"/">> THEN cwdNode = root ELSE Named(Names(cwd)) = {cwdNode}
    /\ "DIR" \in NodeFlags(cwdNode)

\* The places where a word starts, of what was typed.
WordStarts == {i \in DOMAIN typed : typed[i] # Space /\ (i = 1 \/ typed[i - 1] = Space)}

\* argv has the words of the line in their order, each of them as it was typed,
\* however many spaces stand before, between and behind them.
TokensAreWords ==
  at \in {"command", "kopen", "opened", "ls"} =>
    /\ {argv[n] : n \in DOMAIN argv} = WordStarts
    /\ \A n \in DOMAIN argv :
         LET word == Text(argv[n])
             next == argv[n] + Len(word)
         IN /\ n > 1 => argv[n - 1] < argv[n]
            /\ word = SubSeq(typed, argv[n], next - 1) /\ Space \notin ToSet(word)
            /\ next <= Len(typed) => typed[next] = Space

\* When a command is done cat has printed the whole file that its argument
\* names, byte for byte, and nothing if there is none, and ls every entry of the
\* directory in the prompt, once and in their order.  (For paths of the length
\* of a cell see KopenFindsEveryPath.)
ShowsWhatIsNamed ==
  at = "top" =>
    /\ Is("cat") /\ filename # <<>> /\ ~ExactCell(Names(filename)) =>
         LET files == Named(Names(filename))
         IN IF files = {} THEN shown = <<>>
            ELSE \E ino \in files : shown = [i \in 1 .. Inode[ino].size |-> Byte(ino, i - 1)]
    /\ Is("ls") /\ cwdNode # NULL =>
         /\ ToSet(shown) = Within(cwdNode)
         /\ \A i, j \in DOMAIN shown : i < j => shown[i] < shown[j]

\* A command ends: the prompt comes back, unless the kernel has halted, which
\* only crash, out and the lack of a file system do.
PromptReturns ==
  /\ at # "prompt" ~> at = "prompt" \/ (at = "halted" /\ (Is("crash") \/ Is("out") \/ root = NULL))
=============================================================================
