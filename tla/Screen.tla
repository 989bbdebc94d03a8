------------------------------- MODULE Screen -------------------------------
(***************************************************************************)
(* The console: writech, scroll and move_csr of kernel/core/vga.c.  The    *)
(* main thread prints with them, and so does the keyboard's handler when   *)
(* no line is being read (putch of kbd.c): then a key is shown in the      *)
(* middle of whatever the main thread is printing.                         *)
(*                                                                         *)
(* The handler runs with interrupts off, in one step.  The main thread     *)
(* takes a step for each access to the shared words, as the unoptimised    *)
(* build does: x++ is a load and a store.  The character cells are copied  *)
(* in one step.  Colours and the copy sent to the serial port are left out.*)
(***************************************************************************)
EXTENDS Integers, Sequences

CONSTANTS
  WIDTH, HEIGHT,    \* 80, 25
  TAB,              \* 8
  FIRST_ROW,        \* where init_video puts the cursor (10)
  BYTE,             \* 256: what a register of the cursor holds
  MainChar,         \* bound: what the main thread prints
  KeyChar,          \* bound: what the keyboard's handler echoes
  MaxMain, MaxKeys  \* bound: how many of each

ASSUME ScreenAssumption ==
  /\ WIDTH \in Nat \ {0} /\ HEIGHT \in Nat \ {0} /\ TAB \in Nat \ {0}
  /\ WIDTH % TAB = 0
  /\ FIRST_ROW \in 0 .. HEIGHT - 1
  /\ BYTE \in Nat \ {0} /\ WIDTH * HEIGHT <= BYTE * BYTE
  /\ MaxMain \in Nat /\ MaxKeys \in Nat

Newline == "NL"
Return == "CR"
Tab == "TAB"
Backspace == "BS"
Movement == {Newline, Return, Tab, Backspace}
Blank == " "
Old == "?"                  \* what was on the screen before

\* The screen, and of the video memory behind it one row: the race of two
\* threads never needs more (WritesInVideoMemory).
Cell == 0 .. WIDTH * (HEIGHT + 1) - 1

VARIABLES
  vga,       \* csr_x, csr_y, the cells, and the cursor registers
  pc,        \* where in writech the main thread is; "idle" if not there
  ch,        \* its argument
  reg,       \* the value it has loaded or computed
  text,      \* the characters written so far (history)
  keys,      \* how many of them were keys (history, to bound them)
  torn,      \* what a key has come in the middle of: "none", the writech of a
             \* "character" or, which is worse, of a "backspace" (history)
  split      \* a key has come in the middle of the last move_csr of the main
             \* thread, and no character after it (history)

historyVars == <<text, keys, torn, split>>
vars == <<vga, pc, ch, reg, historyVars>>

\* init_video.  The registers are set to the row it chooses.
InitCursor == FIRST_ROW * WIDTH

Init ==
  /\ vga = [x |-> 0, y |-> FIRST_ROW, cells |-> [i \in Cell |-> Old],
            index |-> 15, high |-> InitCursor \div BYTE, low |-> InitCursor % BYTE]
  /\ pc = "idle" /\ ch = Blank /\ reg = 0
  /\ text = <<>> /\ keys = 0 /\ torn = "none" /\ split = FALSE
-----------------------------------------------------------------------------
(* The parts of writech, on a value v of vga.                              *)

TabStop(x) == ((x + TAB) \div TAB) * TAB

Put(v, c) ==
  CASE c = Backspace -> [v EXCEPT !.x = IF @ # 0 THEN @ - 1 ELSE @]
    [] c = Tab -> [v EXCEPT !.x = TabStop(@)]
    [] c = Return -> [v EXCEPT !.x = 0]
    [] c = Newline -> [v EXCEPT !.x = 0, !.y = @ + 1]
    [] OTHER -> [v EXCEPT !.cells[v.y * WIDTH + v.x] = c, !.x = @ + 1]

Wrap(v) == IF v.x >= WIDTH THEN [v EXCEPT !.x = 0, !.y = @ + 1] ELSE v

\* A mistake: the line that comes into view is not cleared.
CopyUp_NoBlank(cells, temp) ==
  [i \in Cell |-> IF i < (HEIGHT - temp) * WIDTH THEN cells[i + temp * WIDTH] ELSE cells[i]]

\* memcpy up by temp rows, and memsetw of one row.
CopyUp(cells, temp) ==
  [i \in Cell |->
     LET last == (HEIGHT - temp) * WIDTH
     IN IF i < last THEN cells[i + temp * WIDTH]
        ELSE IF i < last + WIDTH THEN Blank ELSE cells[i]]

\* A mistake: the cursor's row stays below the screen.
Scroll_KeepsRow(v) ==
  IF v.y > HEIGHT - 1
    THEN [v EXCEPT !.cells = CopyUp(@, v.y - HEIGHT + 1), !.y = HEIGHT]
    ELSE v

Scroll(v) ==
  IF v.y >= HEIGHT
    THEN [v EXCEPT !.cells = CopyUp(@, v.y - HEIGHT + 1), !.y = HEIGHT - 1]
    ELSE v

\* outportb(0x3D4, index) and outportb(0x3D5, data), of which a byte is kept.
OutIndex(v, index) == [v EXCEPT !.index = index]

OutData(v, data) ==
  IF v.index = 14 THEN [v EXCEPT !.high = data % BYTE] ELSE [v EXCEPT !.low = data % BYTE]

\* A mistake: both bytes go to the same register.
MoveCsr_OneIndex(v) ==
  LET temp == v.y * WIDTH + v.x
      first == OutData(OutIndex(v, 15), temp \div BYTE)
  IN OutData(first, temp)

MoveCsr(v) ==
  LET temp == v.y * WIDTH + v.x
      first == OutData(OutIndex(v, 14), temp \div BYTE)
  IN OutData(OutIndex(first, 15), temp)

WriteCh(v, c) == MoveCsr(Scroll(Wrap(Put(v, c))))
-----------------------------------------------------------------------------
(* The keyboard's handler.                                                 *)

\* In move_csr, with something loaded.
MovingCursor == {"sum", "index14", "high", "index15", "low"}

Key(c) ==
  /\ keys < MaxKeys
  /\ vga' = WriteCh(vga, c)
  /\ text' = Append(text, c)
  /\ keys' = keys + 1
  /\ torn' = IF pc = "idle" THEN torn
             ELSE IF ch = Backspace \/ torn = "backspace" THEN "backspace"
             ELSE "character"
  /\ split' = (pc \in MovingCursor)
  /\ UNCHANGED <<pc, ch, reg>>

(* writech of the main thread.  Step: from, to, the new vga and reg.       *)

Step(from, to, v, r) ==
  /\ pc = from /\ pc' = to
  /\ vga' = v /\ reg' = r
  /\ UNCHANGED <<ch, historyVars>>

Begin(c) ==
  /\ pc = "idle"
  /\ Len(text) - keys < MaxMain
  /\ ch' = c
  /\ pc' = CASE c = Backspace -> "back" [] c = Tab -> "tab" [] c = Return -> "column0"
             [] c = Newline -> "column0" [] OTHER -> "row"
  /\ text' = Append(text, c)
  /\ split' = FALSE
  /\ UNCHANGED <<vga, reg, keys, torn>>

PutSteps ==
  \/ Step("row", "where", vga, vga.y)
  \/ Step("where", "store", vga, reg * WIDTH + vga.x)
  \/ Step("store", "load", [vga EXCEPT !.cells[reg] = ch], reg)
  \/ Step("load", "add", vga, vga.x)
  \/ Step("add", "wrap", [vga EXCEPT !.x = reg + 1], reg)
  \/ Step("tab", "stop", vga, vga.x)
  \/ Step("stop", "wrap", [vga EXCEPT !.x = TabStop(reg)], reg)
  \/ Step("back", IF vga.x # 0 THEN "less" ELSE "wrap", vga, reg)
  \/ Step("less", "minus", vga, vga.x)
  \/ Step("minus", "wrap", [vga EXCEPT !.x = reg - 1], reg)
  \/ Step("column0", IF ch = Newline THEN "down" ELSE "wrap", [vga EXCEPT !.x = 0], reg)
  \/ Step("down", "line", vga, vga.y)
  \/ Step("line", "wrap", [vga EXCEPT !.y = reg + 1], reg)

WrapSteps ==
  \/ Step("wrap", IF vga.x >= WIDTH THEN "wrap0" ELSE "scroll", vga, reg)
  \/ Step("wrap0", "wrapdown", [vga EXCEPT !.x = 0], reg)
  \/ Step("wrapdown", "wrapline", vga, vga.y)
  \/ Step("wrapline", "scroll", [vga EXCEPT !.y = reg + 1], reg)

\* A mistake: the row is not set once the screen has moved.
ScrollSteps_KeepRow ==
  \/ Step("scroll", IF vga.y >= HEIGHT THEN "temp" ELSE "cursor", vga, reg)
  \/ Step("temp", "copy", vga, vga.y - HEIGHT + 1)
  \/ Step("copy", "cursor", [vga EXCEPT !.cells = CopyUp(@, reg)], reg)

ScrollSteps ==
  \/ Step("scroll", IF vga.y >= HEIGHT THEN "temp" ELSE "cursor", vga, reg)
  \/ Step("temp", "copy", vga, vga.y - HEIGHT + 1)
  \/ Step("copy", "bottom", [vga EXCEPT !.cells = CopyUp(@, reg)], reg)
  \/ Step("bottom", "cursor", [vga EXCEPT !.y = HEIGHT - 1], reg)

CursorSteps ==
  \/ Step("cursor", "sum", vga, vga.y)
  \/ Step("sum", "index14", vga, reg * WIDTH + vga.x)
  \/ Step("index14", "high", OutIndex(vga, 14), reg)
  \/ Step("high", "index15", OutData(vga, reg \div BYTE), reg)
  \/ Step("index15", "low", OutIndex(vga, 15), reg)
  \/ Step("low", "idle", OutData(vga, reg), 0)

Next ==
  \/ \E c \in MainChar : Begin(c)
  \/ PutSteps \/ WrapSteps \/ ScrollSteps \/ CursorSteps
  \/ \E c \in KeyChar : Key(c)

Spec == Init /\ [][Next]_vars
-----------------------------------------------------------------------------
(* What a terminal shows: the text laid out on an endless sheet of which   *)
(* the last HEIGHT rows are in view.                                       *)

\* The place of each character, and the one behind the last.
Places ==
  LET place[n \in 0 .. Len(text)] ==
        IF n = 0 THEN [row |-> FIRST_ROW, col |-> 0]
        ELSE LET p == place[n - 1]
                 c == text[n]
                 col == CASE c \in {Newline, Return} -> 0
                          [] c = Tab -> TabStop(p.col)
                          [] c = Backspace -> IF p.col = 0 THEN 0 ELSE p.col - 1
                          [] OTHER -> p.col + 1
                 full == col >= WIDTH
             IN [row |-> p.row + IF c = Newline \/ full THEN 1 ELSE 0,
                 col |-> IF full THEN 0 ELSE col]
  IN place

Sheet(row, col) ==
  LET at == {n \in 1 .. Len(text) :
               text[n] \notin Movement /\ Places[n - 1] = [row |-> row, col |-> col]}
  IN IF at # {} THEN text[CHOOSE n \in at : \A m \in at : m <= n]
     ELSE IF row < HEIGHT THEN Old ELSE Blank

TopRow ==
  LET bottom == Places[Len(text)].row IN IF bottom < HEIGHT THEN 0 ELSE bottom - HEIGHT + 1
-----------------------------------------------------------------------------
(* Invariants.                                                             *)

ScreenTypeOK ==
  /\ torn # "backspace" => vga.x \in 0 .. WIDTH
  /\ vga.y \in Nat
  /\ DOMAIN vga.cells = Cell
  /\ vga.index \in {14, 15} /\ vga.high \in 0 .. BYTE - 1 /\ vga.low \in 0 .. BYTE - 1
  /\ reg \in Int

\* Where the handler would write, at any moment, and where the main thread
\* writes after it has been interrupted: at most one row below the screen,
\* which is video memory still, and never in front of it.  The cursor is
\* between two values for most of writech, and a character may be written
\* behind a full line or below the last one.  Not so when a key comes while
\* the main thread prints a backspace: between the look at csr_x and csr_x--
\* the key can end the line, and the column becomes -1.
WritesInVideoMemory ==
  /\ ScreenTypeOK
  /\ torn # "backspace" =>
       /\ vga.y * WIDTH + vga.x \in Cell
       /\ pc = "store" => reg \in Cell
       /\ pc = "copy" => reg \in 0 .. 1

\* Between two calls the cursor is on the screen, whatever came in between
\* (a backspace excepted, as above): the updates that are lost never leave it
\* outside for the next caller.
CursorOnScreen ==
  pc = "idle" /\ torn # "backspace" => vga.x \in 0 .. WIDTH - 1 /\ vga.y \in 0 .. HEIGHT - 1

\* Unless a key came in the middle of a call, the screen shows the last rows
\* of what was written, each character in its place, and nothing else.
ShowsTheText ==
  pc = "idle" /\ torn = "none" =>
    \A row \in 0 .. HEIGHT - 1, col \in 0 .. WIDTH - 1 :
      vga.cells[row * WIDTH + col] = Sheet(TopRow + row, col)

HardwareCursor == vga.high * BYTE + vga.low

CursorShown == HardwareCursor = vga.y * WIDTH + vga.x

\* The blinking cursor is where the next character goes, whatever keys came
\* while the last was being put in its place, wrapped or scrolled.  Only a key
\* between the accesses of move_csr itself leaves it elsewhere (the key's own
\* move selects the other register, or is overwritten), and that only until
\* the next character of either is written.
CursorFollows == pc = "idle" /\ torn # "backspace" /\ ~split => CursorShown
=============================================================================
