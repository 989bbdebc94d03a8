----------------------------- MODULE Screen_proofs -----------------------------
(***************************************************************************)
(* Proofs about Screen, for every size of the screen, any characters and   *)
(* any keys in the middle of them: where is written, where the cursor is,  *)
(* and what is shown.                                                      *)
(***************************************************************************)
EXTENDS Screen, TLAPS

(***************************************************************************)
(* The race.  Whatever the main thread was doing, a key leaves the cursor  *)
(* on the screen, so the only values to be afraid of are those that the    *)
(* main thread has loaded before.                                          *)
(***************************************************************************)
Shown == MainChar \cup KeyChar \cup {Blank, Old}

Vga == [x : Int, y : Int, cells : [Cell -> Shown],
        index : {14, 15}, high : 0 .. BYTE - 1, low : 0 .. BYTE - 1]

Printing == {"row", "where", "store", "load", "add", "tab", "stop", "back", "less", "minus",
             "column0", "down", "line"}
Wrapping == {"wrap", "wrap0", "wrapdown", "wrapline"}
Scrolling == {"scroll", "temp", "copy", "bottom"}
Moving == {"cursor", "sum", "index14", "high", "index15", "low"}

ScreenTypes ==
  /\ vga \in Vga
  /\ pc \in {"idle"} \cup Printing \cup Wrapping \cup Scrolling \cup Moving
  /\ ch \in MainChar \cup {Blank} /\ reg \in Int
  /\ text \in Seq(MainChar \cup KeyChar) /\ keys \in Nat
  /\ torn \in {"none", "character", "backspace"}

\* Only a full line takes the column behind the screen, and only a new line
\* the row, until wrap and scroll have looked at them.
CursorInv ==
  /\ vga.x <= WIDTH /\ vga.y \in 0 .. HEIGHT
  /\ vga.x = WIDTH => pc \in {"wrap", "wrap0"} /\ vga.y < HEIGHT
  /\ vga.y = HEIGHT => pc \in {"wrap"} \cup Scrolling
  /\ pc \in {"temp", "copy"} => vga.y >= HEIGHT - 1
  /\ torn # "backspace" => vga.x >= 0

\* What the main thread has loaded or computed.  A key does not change it.
RegInv ==
  /\ pc \in {"where", "line", "wrapline", "sum"} => reg \in 0 .. HEIGHT - 1
  /\ pc \in {"add", "stop", "minus"} => reg < WIDTH
  /\ pc = "copy" => reg \in 0 .. 1
  /\ pc \in {"back", "less", "minus"} => ch = Backspace
  /\ torn # "backspace" =>
       /\ pc = "store" => reg \in 0 .. WIDTH * HEIGHT - 1
       /\ pc \in {"add", "stop"} => reg >= 0
       /\ pc = "less" => vga.x > 0
       /\ pc = "minus" => reg > 0

ScreenInv == ScreenTypes /\ CursorInv /\ RegInv
-----------------------------------------------------------------------------
(* Arithmetic of rows and columns.                                         *)

LEMMA ScreenConstants ==
  /\ WIDTH \in Nat /\ WIDTH > 0 /\ HEIGHT \in Nat /\ HEIGHT > 0 /\ TAB \in Nat /\ TAB > 0
  /\ BYTE \in Nat /\ BYTE > 0 /\ FIRST_ROW \in 0 .. HEIGHT - 1
  /\ WIDTH * HEIGHT \in Nat /\ WIDTH * (HEIGHT + 1) = WIDTH * HEIGHT + WIDTH
  /\ Cell = 0 .. WIDTH * HEIGHT + WIDTH - 1
BY ScreenAssumption DEF Cell

LEMMA ProductMonotone ==
  ASSUME NEW n \in Nat, NEW a \in Int, NEW b \in Int, a <= b
  PROVE  a * n \in Int /\ b * n \in Int /\ a * n <= b * n
<1>1. b - a \in Nat /\ (b - a) * n >= 0
  OBVIOUS
<1>2. (b - a) * n = b * n - a * n
  OBVIOUS
<1> QED BY <1>1, <1>2

LEMMA ProductBelow ==
  ASSUME NEW n \in Nat \ {0}, NEW a \in Int, NEW b \in Int, a * n < b * n
  PROVE  a < b
<1> SUFFICES ASSUME b <= a PROVE FALSE
  OBVIOUS
<1> QED BY ProductMonotone

\* The place of a column in a row.
LEMMA PlaceFacts ==
  ASSUME NEW x \in Int, NEW y \in Int
  PROVE  /\ y * WIDTH \in Int /\ y * WIDTH + x \in Int
         /\ y >= 0 => y * WIDTH >= 0
         /\ y <= HEIGHT - 1 => y * WIDTH <= WIDTH * HEIGHT - WIDTH
         /\ y <= HEIGHT => y * WIDTH <= WIDTH * HEIGHT
<1>1. y * WIDTH \in Int
  BY ScreenConstants
<1>2. 0 * WIDTH = 0 /\ (HEIGHT - 1) * WIDTH = WIDTH * HEIGHT - WIDTH
      /\ HEIGHT * WIDTH = WIDTH * HEIGHT
  BY ScreenConstants
<1>3. ASSUME y >= 0 PROVE y * WIDTH >= 0
  BY <1>2, <1>3, ScreenConstants, ProductMonotone
<1>4. ASSUME y <= HEIGHT - 1 PROVE y * WIDTH <= WIDTH * HEIGHT - WIDTH
  <2>1. y * WIDTH <= (HEIGHT - 1) * WIDTH
    BY <1>4, ScreenConstants, ProductMonotone
  <2> QED BY <1>2, <2>1
<1>5. ASSUME y <= HEIGHT PROVE y * WIDTH <= WIDTH * HEIGHT
  <2>1. y * WIDTH <= HEIGHT * WIDTH
    BY <1>5, ScreenConstants, ProductMonotone
  <2> QED BY <1>2, <2>1
<1> QED BY <1>1, <1>3, <1>4, <1>5

LEMMA PlaceOnScreen ==
  ASSUME NEW x \in 0 .. WIDTH - 1, NEW y \in 0 .. HEIGHT - 1
  PROVE  y * WIDTH + x \in 0 .. WIDTH * HEIGHT - 1
<1>1. x \in Int /\ y \in Int /\ y <= HEIGHT - 1
  BY ScreenConstants
<1>2. PICK m \in Int : m = y * WIDTH
  BY <1>1, PlaceFacts
<1>3. m >= 0 /\ m <= WIDTH * HEIGHT - WIDTH
  BY <1>1, <1>2, PlaceFacts
<1>4. m + x \in 0 .. WIDTH * HEIGHT - 1
  BY <1>3, ScreenConstants
<1> QED BY <1>2, <1>4

\* A number that two registers hold.
LEMMA RegisterFacts ==
  ASSUME NEW n \in 0 .. WIDTH * HEIGHT - 1
  PROVE  /\ n \div BYTE \in 0 .. BYTE - 1 /\ n % BYTE \in 0 .. BYTE - 1
         /\ (n \div BYTE) * BYTE + (n % BYTE) = n
         /\ (n \div BYTE) % BYTE = n \div BYTE
<1> DEFINE q == n \div BYTE
           r == n % BYTE
<1>1. /\ n \in Nat /\ q \in Nat /\ r \in 0 .. BYTE - 1 /\ n = q * BYTE + r
      /\ n < BYTE * BYTE
  BY ScreenConstants, ScreenAssumption
<1> HIDE DEF q, r
<1>2. q < BYTE
  <2>1. q * BYTE \in Int /\ BYTE * BYTE \in Int
    BY <1>1, ScreenConstants
  <2>2. q * BYTE < BYTE * BYTE
    BY <1>1, <2>1, ScreenConstants
  <2> QED BY <1>1, <2>2, ScreenConstants, ProductBelow
<1>3. q \in 0 .. BYTE - 1
  BY <1>1, <1>2, ScreenConstants
<1>4. q % BYTE = q
  BY <1>3, ScreenConstants
<1> QED BY <1>1, <1>3, <1>4 DEF q, r

\* A tabulator from within a line goes no further than its end.
LEMMA TabStopFacts ==
  ASSUME NEW x \in Int
  PROVE  /\ TabStop(x) \in Int
         /\ x >= 0 => TabStop(x) >= 0
         /\ x < WIDTH => TabStop(x) <= WIDTH
<1> DEFINE q == (x + TAB) \div TAB
           k == WIDTH \div TAB
<1>1. q \in Int /\ q * TAB <= x + TAB /\ (x >= 0 => q >= 0)
  BY ScreenConstants
<1>2. k \in Int /\ WIDTH = k * TAB
  BY ScreenAssumption, ScreenConstants
<1>3. TabStop(x) = q * TAB
  BY DEF TabStop
<1> HIDE DEF q, k
<1>4. q * TAB \in Int
  BY <1>1, ScreenConstants
<1>5. ASSUME x >= 0 PROVE q * TAB >= 0
  BY <1>1, <1>5, ScreenConstants, ProductMonotone
<1>6. ASSUME x < WIDTH PROVE q * TAB <= WIDTH
  <2>1. (k + 1) * TAB = k * TAB + TAB
    BY <1>2, ScreenConstants
  <2>2. q * TAB < (k + 1) * TAB
    BY <1>1, <1>2, <1>4, <1>6, <2>1, ScreenConstants
  <2>3. q < k + 1
    BY <1>1, <1>2, <2>2, ScreenConstants, ProductBelow
  <2>4. q * TAB <= k * TAB
    BY <1>1, <1>2, <2>3, ScreenConstants, ProductMonotone
  <2> QED BY <1>2, <2>4
<1> QED BY <1>3, <1>4, <1>5, <1>6
-----------------------------------------------------------------------------
(* The parts of writech.                                                   *)

LEMMA VgaFacts ==
  ASSUME NEW v \in Vga
  PROVE  /\ v.x \in Int /\ v.y \in Int /\ v.cells \in [Cell -> Shown]
         /\ v.index \in {14, 15} /\ v.high \in 0 .. BYTE - 1 /\ v.low \in 0 .. BYTE - 1
BY DEF Vga

LEMMA CursorUpdates ==
  ASSUME NEW v \in Vga, NEW n \in Int
  PROVE  /\ [v EXCEPT !.x = n] \in Vga /\ [v EXCEPT !.y = n] \in Vga
         /\ [v EXCEPT !.x = 0, !.y = n] \in Vga
<1>1. [v EXCEPT !.x = n] \in Vga /\ [v EXCEPT !.y = n] \in Vga
  BY DEF Vga
<1> DEFINE w == [v EXCEPT !.x = 0]
<1>2. w \in Vga
  BY DEF Vga
<1>3. [w EXCEPT !.y = n] \in Vga
  <2> HIDE DEF w
  <2> QED BY <1>2 DEF Vga
<1>4. [v EXCEPT !.x = 0, !.y = n] = [w EXCEPT !.y = n]
  OBVIOUS
<1> QED BY <1>1, <1>3, <1>4

LEMMA CellUpdates ==
  ASSUME NEW v \in Vga, NEW c \in Shown, NEW i
  PROVE  [v EXCEPT !.cells[i] = c] \in Vga
BY DEF Vga

LEMMA CellsUpdates ==
  ASSUME NEW v \in Vga, NEW cells \in [Cell -> Shown]
  PROVE  [v EXCEPT !.cells = cells] \in Vga
BY DEF Vga

\* What Put does to the cursor; it changes the cells only for a character.
LEMMA PutFacts ==
  ASSUME NEW v \in Vga, NEW c \in Shown, v.x <= WIDTH, v.y \in 0 .. HEIGHT
  PROVE  /\ Put(v, c) \in Vga
         /\ v.x >= 0 => Put(v, c).x >= 0
         /\ Put(v, c).y \in v.y .. v.y + 1
         /\ Put(v, c).y = v.y + 1 => Put(v, c).x = 0
<1>1. CASE c = Backspace
  <2>1. Put(v, c) = IF v.x # 0 THEN [v EXCEPT !.x = v.x - 1] ELSE [v EXCEPT !.x = v.x]
    BY <1>1 DEF Put, Backspace, Tab, Return, Newline, Vga
  <2>2. v.x - 1 \in Int /\ v.x \in Int
    BY VgaFacts
  <2>3. Put(v, c) \in Vga
    BY <2>1, <2>2, CursorUpdates
  <2> QED BY <2>1, <2>2, <2>3 DEF Vga
<1>2. CASE c = Tab
  <2>1. Put(v, c) = [v EXCEPT !.x = TabStop(v.x)]
    BY <1>2 DEF Put, Backspace, Tab, Return, Newline, Vga
  <2>2. TabStop(v.x) \in Int /\ (v.x >= 0 => TabStop(v.x) >= 0)
    BY VgaFacts, TabStopFacts
  <2>3. Put(v, c) \in Vga
    BY <2>1, <2>2, CursorUpdates
  <2> QED BY <2>1, <2>2, <2>3 DEF Vga
<1>3. CASE c = Return
  <2>1. Put(v, c) = [v EXCEPT !.x = 0]
    BY <1>3 DEF Put, Backspace, Tab, Return, Newline, Vga
  <2>2. [v EXCEPT !.x = 0] \in Vga
    BY 0 \in Int, CursorUpdates
  <2> QED BY <2>1, <2>2 DEF Vga
<1>4. CASE c = Newline
  <2>1. Put(v, c) = [v EXCEPT !.x = 0, !.y = v.y + 1]
    BY <1>4 DEF Put, Backspace, Tab, Return, Newline, Vga
  <2>2. v.y + 1 \in Int
    BY VgaFacts
  <2>3. Put(v, c) \in Vga
    BY <2>1, <2>2, CursorUpdates
  <2> QED BY <2>1, <2>2, <2>3 DEF Vga
<1>5. CASE c \notin Movement
  <2> DEFINE w == [v EXCEPT !.cells[v.y * WIDTH + v.x] = c]
  <2>1. Put(v, c) = [w EXCEPT !.x = v.x + 1]
    BY <1>5 DEF Put, Movement, Backspace, Tab, Return, Newline, Vga
  <2>2. v.x + 1 \in Int /\ w \in Vga /\ w.y = v.y
    BY VgaFacts, CellUpdates
  <2> HIDE DEF w
  <2>3. Put(v, c) \in Vga
    BY <2>1, <2>2, CursorUpdates
  <2> QED BY <2>1, <2>2, <2>3 DEF Vga
<1> QED BY <1>1, <1>2, <1>3, <1>4, <1>5 DEF Movement

LEMMA WrapFacts ==
  ASSUME NEW v \in Vga
  PROVE  /\ Wrap(v) \in Vga /\ Wrap(v).x < WIDTH
         /\ v.x >= 0 => Wrap(v).x >= 0
         /\ IF v.x >= WIDTH THEN Wrap(v).y = v.y + 1 ELSE Wrap(v).y = v.y
<1>1. CASE v.x >= WIDTH
  <2>1. Wrap(v) = [v EXCEPT !.x = 0, !.y = v.y + 1] /\ v.y + 1 \in Int
    BY <1>1, VgaFacts DEF Wrap
  <2>2. Wrap(v) \in Vga
    BY <2>1, CursorUpdates
  <2> QED BY <1>1, <2>1, <2>2, ScreenConstants DEF Vga
<1>2. CASE ~(v.x >= WIDTH)
  BY <1>2, ScreenConstants, VgaFacts DEF Wrap
<1> QED BY <1>1, <1>2

LEMMA CopyUpType ==
  ASSUME NEW cells \in [Cell -> Shown], NEW temp \in Nat
  PROVE  CopyUp(cells, temp) \in [Cell -> Shown]
<1> SUFFICES ASSUME NEW i \in Cell, i < (HEIGHT - temp) * WIDTH
             PROVE  cells[i + temp * WIDTH] \in Shown
  BY DEF CopyUp, Shown
<1>1. (HEIGHT - temp) * WIDTH = WIDTH * HEIGHT - temp * WIDTH /\ temp * WIDTH \in Nat
  BY ScreenConstants
<1>2. i + temp * WIDTH \in Cell
  BY <1>1, ScreenConstants
<1> QED BY <1>2

\* Scrolling may be asked for two rows at once, by a handler.
LEMMA ScrollFacts ==
  ASSUME NEW v \in Vga, v.y \in 0 .. HEIGHT + 1
  PROVE  /\ Scroll(v) \in Vga /\ Scroll(v).x = v.x
         /\ Scroll(v).y = IF v.y >= HEIGHT THEN HEIGHT - 1 ELSE v.y
<1>1. CASE v.y >= HEIGHT
  <2>1. Scroll(v) = [v EXCEPT !.cells = CopyUp(v.cells, v.y - HEIGHT + 1), !.y = HEIGHT - 1]
    BY <1>1 DEF Scroll
  <2>2. v.cells \in [Cell -> Shown] /\ v.y - HEIGHT + 1 \in Nat
        /\ HEIGHT - 1 \in Int /\ v.y \in Int /\ v.x \in Int
    BY <1>1, VgaFacts, ScreenConstants
  <2> DEFINE w == [v EXCEPT !.cells = CopyUp(v.cells, v.y - HEIGHT + 1)]
  <2>3. w \in Vga /\ w.x = v.x
    BY <2>2, CopyUpType, CellsUpdates
  <2>4. Scroll(v) = [w EXCEPT !.y = HEIGHT - 1]
    BY <2>1, <2>3 DEF Vga
  <2> HIDE DEF w
  <2>5. Scroll(v) \in Vga
    BY <2>2, <2>3, <2>4, CursorUpdates
  <2> QED BY <1>1, <2>2, <2>3, <2>4, <2>5 DEF Vga
<1>2. CASE ~(v.y >= HEIGHT)
  BY <1>2 DEF Scroll
<1> QED BY <1>1, <1>2

\* The registers take a byte each, and nothing else changes.
LEMMA OutFacts ==
  ASSUME NEW v \in Vga, NEW data \in Int
  PROVE  /\ \A index \in {14, 15} : /\ OutIndex(v, index) \in Vga
                                    /\ OutIndex(v, index).x = v.x /\ OutIndex(v, index).y = v.y
                                    /\ OutIndex(v, index).cells = v.cells
         /\ OutData(v, data) \in Vga
         /\ OutData(v, data).x = v.x /\ OutData(v, data).y = v.y
         /\ OutData(v, data).cells = v.cells
<1>1. data % BYTE \in 0 .. BYTE - 1
  BY ScreenConstants
<1> QED BY <1>1 DEF OutIndex, OutData, Vga

LEMMA MoveCsrFacts ==
  ASSUME NEW v \in Vga
  PROVE  /\ MoveCsr(v) \in Vga
         /\ MoveCsr(v).x = v.x /\ MoveCsr(v).y = v.y /\ MoveCsr(v).cells = v.cells
<1> DEFINE temp == v.y * WIDTH + v.x
           v1 == OutIndex(v, 14)
           v2 == OutData(v1, temp \div BYTE)
           v3 == OutIndex(v2, 15)
<1>1. temp \in Int /\ temp \div BYTE \in Int
  BY VgaFacts, PlaceFacts, ScreenConstants
<1>2. MoveCsr(v) = OutData(v3, temp)
  BY DEF MoveCsr
<1> HIDE DEF temp
<1>3. v1 \in Vga /\ v1.x = v.x /\ v1.y = v.y /\ v1.cells = v.cells
  BY <1>1, OutFacts
<1> HIDE DEF v1
<1>4. v2 \in Vga /\ v2.x = v.x /\ v2.y = v.y /\ v2.cells = v.cells
  BY <1>1, <1>3, OutFacts
<1> HIDE DEF v2
<1>5. v3 \in Vga /\ v3.x = v.x /\ v3.y = v.y /\ v3.cells = v.cells
  BY <1>1, <1>4, OutFacts
<1> HIDE DEF v3
<1>6. LET v4 == OutData(v3, temp)
      IN v4 \in Vga /\ v4.x = v3.x /\ v4.y = v3.y /\ v4.cells = v3.cells
  BY <1>1, <1>5, OutFacts
<1> QED BY <1>2, <1>5, <1>6

\* Whatever the main thread has left of a line or of the screen, a handler
\* that prints puts the cursor back on it.
LEMMA WriteChFacts ==
  ASSUME NEW v \in Vga, NEW c \in Shown,
         v.x <= WIDTH, v.y \in 0 .. HEIGHT, v.x = WIDTH => v.y < HEIGHT
  PROVE  /\ WriteCh(v, c) \in Vga
         /\ WriteCh(v, c).x < WIDTH /\ WriteCh(v, c).y \in 0 .. HEIGHT - 1
         /\ v.x >= 0 => WriteCh(v, c).x >= 0
         /\ v.y >= HEIGHT - 1 => WriteCh(v, c).y = HEIGHT - 1
<1> DEFINE v1 == Put(v, c)
           v2 == Wrap(v1)
           v3 == Scroll(v2)
<1>1. v1 \in Vga /\ v1.y \in v.y .. v.y + 1 /\ (v1.y = v.y + 1 => v1.x = 0)
      /\ (v.x >= 0 => v1.x >= 0)
  BY PutFacts
<1>2. WriteCh(v, c) = MoveCsr(v3)
  BY DEF WriteCh
<1> HIDE DEF v1
<1>3. /\ v2 \in Vga /\ v2.x < WIDTH /\ (v1.x >= 0 => v2.x >= 0)
      /\ IF v1.x >= WIDTH THEN v2.y = v1.y + 1 ELSE v2.y = v1.y
  BY <1>1, WrapFacts
<1>4. v2.y \in v.y .. v.y + 1 /\ v2.y \in 0 .. HEIGHT + 1
  BY <1>1, <1>3, ScreenConstants
<1> HIDE DEF v2
<1>5. v3 \in Vga /\ v3.x = v2.x /\ v3.y = IF v2.y >= HEIGHT THEN HEIGHT - 1 ELSE v2.y
  BY <1>3, <1>4, ScrollFacts
<1> HIDE DEF v3
<1>6. /\ WriteCh(v, c) \in Vga /\ WriteCh(v, c).x = v3.x /\ WriteCh(v, c).y = v3.y
  BY <1>2, <1>5, MoveCsrFacts
<1> QED BY <1>1, <1>3, <1>4, <1>5, <1>6, ScreenConstants
-----------------------------------------------------------------------------
(* The steps.                                                              *)

LEMMA CharsAreShown == MainChar \cup KeyChar \cup {Blank} \subseteq Shown
BY DEF Shown

LEMMA KeyKeepsInv ==
  ASSUME ScreenInv, NEW c \in KeyChar, Key(c)
  PROVE  ScreenInv'
<1>1. /\ vga \in Vga /\ c \in Shown /\ vga.x <= WIDTH /\ vga.y \in 0 .. HEIGHT
      /\ (vga.x = WIDTH => vga.y < HEIGHT)
  BY CharsAreShown DEF ScreenInv, ScreenTypes, CursorInv
<1>2. /\ vga' \in Vga /\ vga'.x < WIDTH /\ vga'.y \in 0 .. HEIGHT - 1
      /\ (vga.x >= 0 => vga'.x >= 0)
      /\ (vga.y >= HEIGHT - 1 => vga'.y = HEIGHT - 1)
  BY <1>1, WriteChFacts DEF Key
<1>3. /\ torn' \in {"none", "character", "backspace"}
      /\ torn' # "backspace" => torn # "backspace"
      /\ torn' # "backspace" => pc = "idle" \/ ch # Backspace
  BY DEF Key, ScreenInv, ScreenTypes
<1>4. pc' = pc /\ ch' = ch /\ reg' = reg
  BY DEF Key
<1>5. ScreenTypes'
  <2>1. text' \in Seq(MainChar \cup KeyChar) /\ keys' \in Nat
    BY DEF Key, ScreenInv, ScreenTypes
  <2> QED BY <1>2, <1>3, <1>4, <2>1 DEF ScreenInv, ScreenTypes
<1>6. CursorInv'
  <2>1. vga'.x \in Int /\ vga'.y \in Int
    BY <1>2, VgaFacts
  <2> QED BY <1>2, <1>3, <1>4, <2>1, ScreenConstants DEF ScreenInv, CursorInv
<1>7. RegInv'
  BY <1>3, <1>4 DEF ScreenInv, RegInv
<1> QED BY <1>5, <1>6, <1>7 DEF ScreenInv

LEMMA BeginKeepsInv ==
  ASSUME ScreenInv, NEW c \in MainChar, Begin(c)
  PROVE  ScreenInv'
<1>1. /\ pc = "idle" /\ ch' = c
      /\ pc' = CASE c = Backspace -> "back" [] c = Tab -> "tab" [] c = Return -> "column0"
                 [] c = Newline -> "column0" [] OTHER -> "row"
      /\ UNCHANGED <<vga, reg, keys, torn>>
  BY DEF Begin
<1>2. pc' \in {"back", "tab", "column0", "row"} /\ (pc' = "back" => ch' = Backspace)
  BY <1>1 DEF Backspace, Tab, Return, Newline
<1>3. text' \in Seq(MainChar \cup KeyChar)
  BY DEF Begin, ScreenInv, ScreenTypes
<1>4. ScreenTypes'
  BY <1>1, <1>2, <1>3 DEF ScreenInv, ScreenTypes, Printing
<1>5. CursorInv'
  BY <1>1, <1>2 DEF ScreenInv, CursorInv, Scrolling
<1>6. RegInv'
  BY <1>2 DEF RegInv
<1> QED BY <1>4, <1>5, <1>6 DEF ScreenInv

\* A step of the main thread, for the types.
LEMMA StepTypes ==
  ASSUME ScreenInv, NEW from, NEW to, NEW v \in Vga, NEW r \in Int, Step(from, to, v, r),
         to \in {"idle"} \cup Printing \cup Wrapping \cup Scrolling \cup Moving
  PROVE  /\ ScreenTypes'
         /\ pc = from /\ pc' = to /\ vga' = v /\ reg' = r /\ ch' = ch /\ torn' = torn
         /\ vga.x \in Int /\ vga.y \in Int
BY VgaFacts DEF Step, historyVars, ScreenInv, ScreenTypes

LEMMA PutStepsKeepInv ==
  ASSUME ScreenInv, PutSteps
  PROVE  ScreenInv'
<1> USE DEF CursorInv, RegInv, Printing, Wrapping, Scrolling
<1>0. /\ vga \in Vga /\ vga.x \in Int /\ vga.y \in Int /\ reg \in Int
      /\ ch \in MainChar \cup {Blank} /\ CursorInv /\ RegInv
  BY VgaFacts DEF ScreenInv, ScreenTypes
<1>1. CASE Step("row", "where", vga, vga.y)
  <2>1. /\ ScreenTypes' /\ pc = "row" /\ pc' = "where" /\ vga' = vga /\ reg' = vga.y
        /\ ch' = ch /\ torn' = torn
    BY <1>0, <1>1, StepTypes
  <2> QED BY <1>0, <2>1, ScreenConstants DEF ScreenInv
<1>2. CASE Step("where", "store", vga, reg * WIDTH + vga.x)
  <2>1. reg * WIDTH + vga.x \in Int
    BY <1>0, PlaceFacts
  <2>2. /\ ScreenTypes' /\ pc = "where" /\ pc' = "store" /\ vga' = vga
        /\ reg' = reg * WIDTH + vga.x /\ ch' = ch /\ torn' = torn
    BY <1>0, <1>2, <2>1, StepTypes
  <2>3. vga.x >= 0 => reg * WIDTH + vga.x \in 0 .. WIDTH * HEIGHT - 1
    BY <1>0, <2>1, <2>2, PlaceFacts, ScreenConstants
  <2> QED BY <1>0, <2>2, <2>3, ScreenConstants DEF ScreenInv
<1>3. CASE Step("store", "load", [vga EXCEPT !.cells[reg] = ch], reg)
  <2> DEFINE v == [vga EXCEPT !.cells[reg] = ch]
  <2>0. ch \in Shown
    BY <1>0 DEF Shown
  <2>1. v \in Vga /\ v.x = vga.x /\ v.y = vga.y
    BY <1>0, <2>0, CellUpdates DEF Vga
  <2> HIDE DEF v
  <2>2. /\ ScreenTypes' /\ pc = "store" /\ pc' = "load" /\ vga' = v
        /\ reg' = reg /\ ch' = ch /\ torn' = torn
    BY <1>0, <1>3, <2>1, StepTypes DEF v
  <2> QED BY <1>0, <2>1, <2>2, ScreenConstants DEF ScreenInv
<1>4. CASE Step("load", "add", vga, vga.x)
  <2>1. /\ ScreenTypes' /\ pc = "load" /\ pc' = "add" /\ vga' = vga
        /\ reg' = vga.x /\ ch' = ch /\ torn' = torn
    BY <1>0, <1>4, StepTypes
  <2> QED BY <1>0, <2>1, ScreenConstants DEF ScreenInv
<1>5. CASE Step("add", "wrap", [vga EXCEPT !.x = reg + 1], reg)
  <2> DEFINE v == [vga EXCEPT !.x = reg + 1]
  <2>1. reg + 1 \in Int
    BY <1>0
  <2>2. v \in Vga /\ v.x = reg + 1 /\ v.y = vga.y
    BY <1>0, <2>1, CursorUpdates DEF Vga
  <2> HIDE DEF v
  <2>3. /\ ScreenTypes' /\ pc = "add" /\ pc' = "wrap" /\ vga' = v
        /\ reg' = reg /\ ch' = ch /\ torn' = torn
    BY <1>0, <1>5, <2>2, StepTypes DEF v
  <2> QED BY <1>0, <2>1, <2>2, <2>3, ScreenConstants DEF ScreenInv
<1>6. CASE Step("tab", "stop", vga, vga.x)
  <2>1. /\ ScreenTypes' /\ pc = "tab" /\ pc' = "stop" /\ vga' = vga
        /\ reg' = vga.x /\ ch' = ch /\ torn' = torn
    BY <1>0, <1>6, StepTypes
  <2> QED BY <1>0, <2>1, ScreenConstants DEF ScreenInv
<1>7. CASE Step("stop", "wrap", [vga EXCEPT !.x = TabStop(reg)], reg)
  <2> DEFINE v == [vga EXCEPT !.x = TabStop(reg)]
  <2>1. /\ TabStop(reg) \in Int /\ (reg < WIDTH => TabStop(reg) <= WIDTH)
        /\ (reg >= 0 => TabStop(reg) >= 0)
    BY <1>0, TabStopFacts
  <2>2. v \in Vga /\ v.x = TabStop(reg) /\ v.y = vga.y
    BY <1>0, <2>1, CursorUpdates DEF Vga
  <2> HIDE DEF v
  <2>3. /\ ScreenTypes' /\ pc = "stop" /\ pc' = "wrap" /\ vga' = v
        /\ reg' = reg /\ ch' = ch /\ torn' = torn
    BY <1>0, <1>7, <2>2, StepTypes DEF v
  <2> QED BY <1>0, <2>1, <2>2, <2>3, ScreenConstants DEF ScreenInv
<1>8. CASE Step("back", IF vga.x # 0 THEN "less" ELSE "wrap", vga, reg)
  <2>1. /\ ScreenTypes' /\ pc = "back" /\ pc' = (IF vga.x # 0 THEN "less" ELSE "wrap") /\ vga' = vga
        /\ reg' = reg /\ ch' = ch /\ torn' = torn
    BY <1>0, <1>8, StepTypes
  <2> QED BY <1>0, <2>1, ScreenConstants DEF ScreenInv
<1>9. CASE Step("less", "minus", vga, vga.x)
  <2>1. /\ ScreenTypes' /\ pc = "less" /\ pc' = "minus" /\ vga' = vga
        /\ reg' = vga.x /\ ch' = ch /\ torn' = torn
    BY <1>0, <1>9, StepTypes
  <2> QED BY <1>0, <2>1, ScreenConstants DEF ScreenInv
<1>10. CASE Step("minus", "wrap", [vga EXCEPT !.x = reg - 1], reg)
  <2> DEFINE v == [vga EXCEPT !.x = reg - 1]
  <2>1. reg - 1 \in Int
    BY <1>0
  <2>2. v \in Vga /\ v.x = reg - 1 /\ v.y = vga.y
    BY <1>0, <2>1, CursorUpdates DEF Vga
  <2> HIDE DEF v
  <2>3. /\ ScreenTypes' /\ pc = "minus" /\ pc' = "wrap" /\ vga' = v
        /\ reg' = reg /\ ch' = ch /\ torn' = torn
    BY <1>0, <1>10, <2>2, StepTypes DEF v
  <2> QED BY <1>0, <2>1, <2>2, <2>3, ScreenConstants DEF ScreenInv
<1>11. CASE Step("column0", IF ch = Newline THEN "down" ELSE "wrap", [vga EXCEPT !.x = 0], reg)
  <2> DEFINE v == [vga EXCEPT !.x = 0]
  <2>1. 0 \in Int
    OBVIOUS
  <2>2. v \in Vga /\ v.x = 0 /\ v.y = vga.y
    BY <1>0, <2>1, CursorUpdates DEF Vga
  <2> HIDE DEF v
  <2>3. /\ ScreenTypes' /\ pc = "column0" /\ pc' = (IF ch = Newline THEN "down" ELSE "wrap") /\ vga' = v
        /\ reg' = reg /\ ch' = ch /\ torn' = torn
    BY <1>0, <1>11, <2>2, StepTypes DEF v
  <2> QED BY <1>0, <2>1, <2>2, <2>3, ScreenConstants DEF ScreenInv
<1>12. CASE Step("down", "line", vga, vga.y)
  <2>1. /\ ScreenTypes' /\ pc = "down" /\ pc' = "line" /\ vga' = vga
        /\ reg' = vga.y /\ ch' = ch /\ torn' = torn
    BY <1>0, <1>12, StepTypes
  <2> QED BY <1>0, <2>1, ScreenConstants DEF ScreenInv
<1>13. CASE Step("line", "wrap", [vga EXCEPT !.y = reg + 1], reg)
  <2> DEFINE v == [vga EXCEPT !.y = reg + 1]
  <2>1. reg + 1 \in Int
    BY <1>0
  <2>2. v \in Vga /\ v.y = reg + 1 /\ v.x = vga.x
    BY <1>0, <2>1, CursorUpdates DEF Vga
  <2> HIDE DEF v
  <2>3. /\ ScreenTypes' /\ pc = "line" /\ pc' = "wrap" /\ vga' = v
        /\ reg' = reg /\ ch' = ch /\ torn' = torn
    BY <1>0, <1>13, <2>2, StepTypes DEF v
  <2> QED BY <1>0, <2>1, <2>2, <2>3, ScreenConstants DEF ScreenInv
<1> QED BY <1>1, <1>2, <1>3, <1>4, <1>5, <1>6, <1>7, <1>8, <1>9, <1>10, <1>11, <1>12, <1>13 DEF PutSteps

LEMMA WrapStepsKeepInv ==
  ASSUME ScreenInv, WrapSteps
  PROVE  ScreenInv'
<1> USE DEF CursorInv, RegInv, Printing, Wrapping, Scrolling, Moving
<1>0. /\ vga \in Vga /\ vga.x \in Int /\ vga.y \in Int /\ reg \in Int
      /\ ch \in MainChar \cup {Blank} /\ CursorInv /\ RegInv
  BY VgaFacts DEF ScreenInv, ScreenTypes
<1>1. CASE Step("wrap", IF vga.x >= WIDTH THEN "wrap0" ELSE "scroll", vga, reg)
  <2>1. /\ ScreenTypes' /\ pc = "wrap" /\ pc' = (IF vga.x >= WIDTH THEN "wrap0" ELSE "scroll") /\ vga' = vga
        /\ reg' = reg /\ ch' = ch /\ torn' = torn
    BY <1>0, <1>1, StepTypes
  <2> QED BY <1>0, <2>1, ScreenConstants DEF ScreenInv
<1>2. CASE Step("wrap0", "wrapdown", [vga EXCEPT !.x = 0], reg)
  <2> DEFINE v == [vga EXCEPT !.x = 0]
  <2>1. 0 \in Int
    OBVIOUS
  <2>2. v \in Vga /\ v.x = 0 /\ v.y = vga.y
    BY <1>0, <2>1, CursorUpdates DEF Vga
  <2> HIDE DEF v
  <2>3. /\ ScreenTypes' /\ pc = "wrap0" /\ pc' = "wrapdown" /\ vga' = v
        /\ reg' = reg /\ ch' = ch /\ torn' = torn
    BY <1>0, <1>2, <2>2, StepTypes DEF v
  <2> QED BY <1>0, <2>1, <2>2, <2>3, ScreenConstants DEF ScreenInv
<1>3. CASE Step("wrapdown", "wrapline", vga, vga.y)
  <2>1. /\ ScreenTypes' /\ pc = "wrapdown" /\ pc' = "wrapline" /\ vga' = vga
        /\ reg' = vga.y /\ ch' = ch /\ torn' = torn
    BY <1>0, <1>3, StepTypes
  <2> QED BY <1>0, <2>1, ScreenConstants DEF ScreenInv
<1>4. CASE Step("wrapline", "scroll", [vga EXCEPT !.y = reg + 1], reg)
  <2> DEFINE v == [vga EXCEPT !.y = reg + 1]
  <2>1. reg + 1 \in Int
    BY <1>0
  <2>2. v \in Vga /\ v.y = reg + 1 /\ v.x = vga.x
    BY <1>0, <2>1, CursorUpdates DEF Vga
  <2> HIDE DEF v
  <2>3. /\ ScreenTypes' /\ pc = "wrapline" /\ pc' = "scroll" /\ vga' = v
        /\ reg' = reg /\ ch' = ch /\ torn' = torn
    BY <1>0, <1>4, <2>2, StepTypes DEF v
  <2> QED BY <1>0, <2>1, <2>2, <2>3, ScreenConstants DEF ScreenInv
<1> QED BY <1>1, <1>2, <1>3, <1>4 DEF WrapSteps

LEMMA ScrollStepsKeepInv ==
  ASSUME ScreenInv, ScrollSteps
  PROVE  ScreenInv'
<1> USE DEF CursorInv, RegInv, Printing, Wrapping, Scrolling, Moving
<1>0. /\ vga \in Vga /\ vga.x \in Int /\ vga.y \in Int /\ reg \in Int
      /\ ch \in MainChar \cup {Blank} /\ CursorInv /\ RegInv
  BY VgaFacts DEF ScreenInv, ScreenTypes
<1>1. CASE Step("scroll", IF vga.y >= HEIGHT THEN "temp" ELSE "cursor", vga, reg)
  <2>1. /\ ScreenTypes' /\ pc = "scroll" /\ pc' = (IF vga.y >= HEIGHT THEN "temp" ELSE "cursor") /\ vga' = vga
        /\ reg' = reg /\ ch' = ch /\ torn' = torn
    BY <1>0, <1>1, StepTypes
  <2> QED BY <1>0, <2>1, ScreenConstants DEF ScreenInv
<1>2. CASE Step("temp", "copy", vga, vga.y - HEIGHT + 1)
  <2>0. vga.y - HEIGHT + 1 \in Int
    BY <1>0, ScreenConstants
  <2>1. /\ ScreenTypes' /\ pc = "temp" /\ pc' = "copy" /\ vga' = vga
        /\ reg' = vga.y - HEIGHT + 1 /\ ch' = ch /\ torn' = torn
    BY <1>0, <1>2, <2>0, StepTypes
  <2> QED BY <1>0, <2>1, ScreenConstants DEF ScreenInv
<1>3. CASE Step("copy", "bottom", [vga EXCEPT !.cells = CopyUp(@, reg)], reg)
  <2> DEFINE v == [vga EXCEPT !.cells = CopyUp(vga.cells, reg)]
  <2>1. pc = "copy"
    BY <1>3 DEF Step
  <2>2. CopyUp(vga.cells, reg) \in [Cell -> Shown]
    BY <1>0, <2>1, VgaFacts, CopyUpType
  <2>3. v \in Vga /\ v.x = vga.x /\ v.y = vga.y
    BY <1>0, <2>2, CellsUpdates DEF Vga
  <2> HIDE DEF v
  <2>4. /\ ScreenTypes' /\ pc' = "bottom" /\ vga' = v
        /\ reg' = reg /\ ch' = ch /\ torn' = torn
    BY <1>0, <1>3, <2>3, StepTypes DEF v
  <2> QED BY <1>0, <2>1, <2>3, <2>4, ScreenConstants DEF ScreenInv
<1>4. CASE Step("bottom", "cursor", [vga EXCEPT !.y = HEIGHT - 1], reg)
  <2> DEFINE v == [vga EXCEPT !.y = HEIGHT - 1]
  <2>1. HEIGHT - 1 \in Int
    BY ScreenConstants
  <2>2. v \in Vga /\ v.y = HEIGHT - 1 /\ v.x = vga.x
    BY <1>0, <2>1, CursorUpdates DEF Vga
  <2> HIDE DEF v
  <2>3. /\ ScreenTypes' /\ pc = "bottom" /\ pc' = "cursor" /\ vga' = v
        /\ reg' = reg /\ ch' = ch /\ torn' = torn
    BY <1>0, <1>4, <2>2, StepTypes DEF v
  <2> QED BY <1>0, <2>1, <2>2, <2>3, ScreenConstants DEF ScreenInv
<1> QED BY <1>1, <1>2, <1>3, <1>4 DEF ScrollSteps

LEMMA CursorStepsKeepInv ==
  ASSUME ScreenInv, CursorSteps
  PROVE  ScreenInv'
<1> USE DEF CursorInv, RegInv, Printing, Wrapping, Scrolling, Moving
<1>0. /\ vga \in Vga /\ vga.x \in Int /\ vga.y \in Int /\ reg \in Int
      /\ ch \in MainChar \cup {Blank} /\ CursorInv /\ RegInv
  BY VgaFacts DEF ScreenInv, ScreenTypes
<1>1. CASE Step("cursor", "sum", vga, vga.y)
  <2>1. /\ ScreenTypes' /\ pc = "cursor" /\ pc' = "sum" /\ vga' = vga
        /\ reg' = vga.y /\ ch' = ch /\ torn' = torn
    BY <1>0, <1>1, StepTypes
  <2> QED BY <1>0, <2>1, ScreenConstants DEF ScreenInv
<1>2. CASE Step("sum", "index14", vga, reg * WIDTH + vga.x)
  <2>1. reg * WIDTH + vga.x \in Int
    BY <1>0, PlaceFacts
  <2>2. /\ ScreenTypes' /\ pc = "sum" /\ pc' = "index14" /\ vga' = vga
        /\ reg' = reg * WIDTH + vga.x /\ ch' = ch /\ torn' = torn
    BY <1>0, <1>2, <2>1, StepTypes
  <2> QED BY <1>0, <2>2, ScreenConstants DEF ScreenInv
<1>3. CASE Step("index14", "high", OutIndex(vga, 14), reg)
  <2> DEFINE v == OutIndex(vga, 14)
  <2>1. v \in Vga /\ v.x = vga.x /\ v.y = vga.y
    BY <1>0, OutFacts
  <2> HIDE DEF v
  <2>2. /\ ScreenTypes' /\ pc = "index14" /\ pc' = "high" /\ vga' = v
        /\ reg' = reg /\ ch' = ch /\ torn' = torn
    BY <1>0, <1>3, <2>1, StepTypes DEF v
  <2> QED BY <1>0, <2>1, <2>2, ScreenConstants DEF ScreenInv
<1>4. CASE Step("high", "index15", OutData(vga, reg \div BYTE), reg)
  <2> DEFINE v == OutData(vga, reg \div BYTE)
  <2>0. reg \div BYTE \in Int
    BY <1>0, ScreenConstants
  <2>1. v \in Vga /\ v.x = vga.x /\ v.y = vga.y
    BY <1>0, <2>0, OutFacts
  <2> HIDE DEF v
  <2>2. /\ ScreenTypes' /\ pc = "high" /\ pc' = "index15" /\ vga' = v
        /\ reg' = reg /\ ch' = ch /\ torn' = torn
    BY <1>0, <1>4, <2>1, StepTypes DEF v
  <2> QED BY <1>0, <2>1, <2>2, ScreenConstants DEF ScreenInv
<1>5. CASE Step("index15", "low", OutIndex(vga, 15), reg)
  <2> DEFINE v == OutIndex(vga, 15)
  <2>1. v \in Vga /\ v.x = vga.x /\ v.y = vga.y
    BY <1>0, OutFacts
  <2> HIDE DEF v
  <2>2. /\ ScreenTypes' /\ pc = "index15" /\ pc' = "low" /\ vga' = v
        /\ reg' = reg /\ ch' = ch /\ torn' = torn
    BY <1>0, <1>5, <2>1, StepTypes DEF v
  <2> QED BY <1>0, <2>1, <2>2, ScreenConstants DEF ScreenInv
<1>6. CASE Step("low", "idle", OutData(vga, reg), 0)
  <2> DEFINE v == OutData(vga, reg)
  <2>1. v \in Vga /\ v.x = vga.x /\ v.y = vga.y
    BY <1>0, OutFacts
  <2> HIDE DEF v
  <2>2. /\ ScreenTypes' /\ pc = "low" /\ pc' = "idle" /\ vga' = v
        /\ reg' = 0 /\ ch' = ch /\ torn' = torn
    BY <1>0, <1>6, <2>1, StepTypes DEF v
  <2> QED BY <1>0, <2>1, <2>2, ScreenConstants DEF ScreenInv
<1> QED BY <1>1, <1>2, <1>3, <1>4, <1>5, <1>6 DEF CursorSteps

\* The inductive invariant, with keys between any two steps.
LEMMA ScreenStep == ScreenInv /\ [Next]_vars => ScreenInv'
<1> SUFFICES ASSUME ScreenInv, [Next]_vars PROVE ScreenInv'
  OBVIOUS
<1>1. CASE UNCHANGED vars
  BY <1>1 DEF vars, historyVars, ScreenInv, ScreenTypes, CursorInv, RegInv
<1> QED
  BY <1>1, KeyKeepsInv, BeginKeepsInv, PutStepsKeepInv, WrapStepsKeepInv, ScrollStepsKeepInv,
     CursorStepsKeepInv DEF Next

LEMMA ScreenStart == Init => ScreenInv
<1> SUFFICES ASSUME Init PROVE ScreenInv
  OBVIOUS
<1>1. InitCursor \div BYTE \in 0 .. BYTE - 1 /\ InitCursor % BYTE \in 0 .. BYTE - 1
  <2>1. InitCursor \in 0 .. WIDTH * HEIGHT - 1
    BY ScreenConstants, 0 \in 0 .. WIDTH - 1, PlaceOnScreen DEF InitCursor
  <2> QED BY <2>1, RegisterFacts
<1>2. vga \in Vga /\ vga.x = 0 /\ vga.y = FIRST_ROW
  BY <1>1, ScreenConstants DEF Init, Vga, Shown
<1> QED BY <1>2, ScreenConstants DEF Init, ScreenInv, ScreenTypes, CursorInv, RegInv

-----------------------------------------------------------------------------
(***************************************************************************)
(* The theorems about the cursor.                                          *)
(***************************************************************************)

\* The inductive invariant of writech, with keys in the middle.
THEOREM ScreenInvariant == Spec => []ScreenInv
BY ScreenStart, ScreenStep, PTL DEF Spec

\* WritesInVideoMemory: neither the main thread nor the handler writes in
\* front of the screen or more than a row behind it, whatever they do to each
\* other's cursor, unless a key comes in the middle of a backspace (vga.c:101).
THEOREM ScreenWritesInVideoMemory == Spec => []WritesInVideoMemory
<1>1. ScreenInv => WritesInVideoMemory
  <2> SUFFICES ASSUME ScreenInv PROVE WritesInVideoMemory
    OBVIOUS
  <2>1. /\ vga \in Vga /\ vga.x \in Int /\ vga.y \in Int /\ CursorInv /\ RegInv
        /\ ScreenTypes
    BY VgaFacts DEF ScreenInv, ScreenTypes
  <2>2. ScreenTypeOK
    BY <2>1, ScreenConstants DEF ScreenTypeOK, ScreenTypes, Vga, CursorInv
  <2>3. ASSUME torn # "backspace" PROVE vga.y * WIDTH + vga.x \in Cell
    <3>1. /\ vga.x \in 0 .. WIDTH /\ vga.y \in 0 .. HEIGHT
          /\ vga.x = WIDTH => vga.y <= HEIGHT - 1
      BY <2>1, <2>3, ScreenConstants DEF CursorInv
    <3>2. /\ vga.y * WIDTH \in 0 .. WIDTH * HEIGHT
          /\ vga.y <= HEIGHT - 1 => vga.y * WIDTH <= WIDTH * HEIGHT - WIDTH
      BY <2>1, <3>1, ScreenConstants, PlaceFacts
    <3>3. PICK m \in Int : m = vga.y * WIDTH
      BY <3>2
    <3>4. m + vga.x \in 0 .. WIDTH * HEIGHT + WIDTH - 1
      BY <3>1, <3>2, <3>3, ScreenConstants
    <3> QED BY <3>3, <3>4, ScreenConstants
  <2>4. torn # "backspace" /\ pc = "store" => reg \in Cell
    BY <2>1, ScreenConstants DEF RegInv
  <2>5. pc = "copy" => reg \in 0 .. 1
    BY <2>1 DEF RegInv
  <2> QED BY <2>2, <2>3, <2>4, <2>5 DEF WritesInVideoMemory
<1> QED BY <1>1, ScreenInvariant, PTL

\* CursorOnScreen: the updates that are lost when a key comes in the middle
\* never leave the cursor outside for the next call.
THEOREM ScreenCursorOnScreen == Spec => []CursorOnScreen
<1>1. ScreenInv => CursorOnScreen
  <2> SUFFICES ASSUME ScreenInv PROVE CursorOnScreen
    OBVIOUS
  <2>1. vga \in Vga /\ vga.x \in Int /\ vga.y \in Int /\ CursorInv
    BY VgaFacts DEF ScreenInv, ScreenTypes
  <2> QED BY <2>1, ScreenConstants DEF CursorInv, CursorOnScreen, Scrolling
<1> QED BY <1>1, ScreenInvariant, PTL
-----------------------------------------------------------------------------
(* The hardware's cursor.  The two registers hold where the next character *)
(* goes, or are on their way to it, unless a key came in between.          *)

CursorMoves ==
  torn # "backspace" /\ ~split =>
    /\ pc = "idle" => CursorShown
    /\ pc = "sum" => reg = vga.y
    /\ pc \in {"index14", "high", "index15", "low"} => reg = vga.y * WIDTH + vga.x
    /\ pc = "high" => vga.index = 14
    /\ pc \in {"index15", "low"} => vga.high = reg \div BYTE
    /\ pc = "low" => vga.index = 15

LEMMA MoveCsrShows ==
  ASSUME NEW v \in Vga, v.x \in 0 .. WIDTH - 1, v.y \in 0 .. HEIGHT - 1
  PROVE  MoveCsr(v).high * BYTE + MoveCsr(v).low = MoveCsr(v).y * WIDTH + MoveCsr(v).x
<1> DEFINE temp == v.y * WIDTH + v.x
<1>1. temp \in 0 .. WIDTH * HEIGHT - 1
  BY PlaceOnScreen
<1>2. /\ temp \div BYTE \in 0 .. BYTE - 1 /\ temp % BYTE \in 0 .. BYTE - 1
      /\ (temp \div BYTE) * BYTE + (temp % BYTE) = temp
  BY <1>1, RegisterFacts
<1>3. (temp \div BYTE) % BYTE = temp \div BYTE
  BY <1>1, RegisterFacts
<1>4. MoveCsr(v).x = v.x /\ MoveCsr(v).y = v.y
  BY MoveCsrFacts
<1>5. MoveCsr(v).high = (temp \div BYTE) % BYTE /\ MoveCsr(v).low = temp % BYTE
  BY DEF MoveCsr, OutData, OutIndex, Vga
<1> HIDE DEF temp
<1>6. MoveCsr(v).high * BYTE + MoveCsr(v).low = temp
  BY <1>2, <1>3, <1>5
<1> QED BY <1>4, <1>6 DEF temp

\* writech as a whole, called on a screen whose cursor is on it.
LEMMA WriteChShows ==
  ASSUME NEW v \in Vga, NEW c \in Shown, v.x \in 0 .. WIDTH - 1, v.y \in 0 .. HEIGHT - 1
  PROVE  WriteCh(v, c).high * BYTE + WriteCh(v, c).low
           = WriteCh(v, c).y * WIDTH + WriteCh(v, c).x
<1> DEFINE v1 == Put(v, c)
           v2 == Wrap(v1)
           v3 == Scroll(v2)
<1>0. v.x <= WIDTH /\ v.y \in 0 .. HEIGHT
  BY ScreenConstants
<1>1. v1 \in Vga /\ v1.y \in v.y .. v.y + 1 /\ (v1.y = v.y + 1 => v1.x = 0) /\ v1.x >= 0
  BY <1>0, PutFacts
<1>2. WriteCh(v, c) = MoveCsr(v3)
  BY DEF WriteCh
<1> HIDE DEF v1
<1>3. /\ v2 \in Vga /\ v2.x < WIDTH /\ v2.x >= 0
      /\ IF v1.x >= WIDTH THEN v2.y = v1.y + 1 ELSE v2.y = v1.y
  BY <1>1, WrapFacts
<1>4. v2.y \in 0 .. HEIGHT + 1
  BY <1>1, <1>3, ScreenConstants
<1> HIDE DEF v2
<1>5. v3 \in Vga /\ v3.x = v2.x /\ v3.y = IF v2.y >= HEIGHT THEN HEIGHT - 1 ELSE v2.y
  BY <1>3, <1>4, ScrollFacts
<1>6. v3.x \in 0 .. WIDTH - 1 /\ v3.y \in 0 .. HEIGHT - 1
  BY <1>3, <1>4, <1>5, VgaFacts, ScreenConstants
<1> HIDE DEF v3
<1> QED BY <1>2, <1>5, <1>6, MoveCsrShows

LEMMA CursorMovesStep == ScreenInv /\ CursorMoves /\ [Next]_vars => CursorMoves'
<1> SUFFICES ASSUME ScreenInv, CursorMoves, [Next]_vars, torn' # "backspace", ~split'
             PROVE  CursorMoves'
  BY DEF CursorMoves
<1>0. /\ vga \in Vga /\ vga.x \in Int /\ vga.y \in Int /\ reg \in Int
      /\ vga.y \in 0 .. HEIGHT /\ (torn # "backspace" => vga.x >= 0)
  BY VgaFacts DEF ScreenInv, ScreenTypes, CursorInv
<1>1. CASE UNCHANGED vars
  BY <1>1 DEF vars, historyVars, CursorMoves, CursorShown, HardwareCursor
<1>2. ASSUME NEW c \in KeyChar, Key(c) PROVE CursorMoves'
  <2>1. /\ pc' = pc /\ torn # "backspace" /\ pc \notin MovingCursor
        /\ vga' = WriteCh(vga, c) /\ c \in Shown
    BY <1>2, CharsAreShown DEF Key
  <2>2. CASE pc = "idle"
    <3>1. vga.x \in 0 .. WIDTH - 1 /\ vga.y \in 0 .. HEIGHT - 1
      BY <1>0, <2>1, <2>2, ScreenConstants DEF ScreenInv, CursorInv, Scrolling
    <3>2. CursorShown'
      BY <1>0, <2>1, <3>1, WriteChShows DEF CursorShown, HardwareCursor
    <3> QED BY <2>1, <2>2, <3>2 DEF CursorMoves
  <2>3. CASE pc # "idle"
    BY <2>1, <2>3 DEF CursorMoves, MovingCursor
  <2> QED BY <2>2, <2>3
<1>3. ASSUME NEW c \in MainChar, Begin(c) PROVE CursorMoves'
  <2>1. pc' \in {"back", "tab", "column0", "row"}
    BY <1>3 DEF Begin, Backspace, Tab, Return, Newline
  <2> QED BY <2>1 DEF CursorMoves
<1>4. CASE PutSteps
  <2>1. pc' \in Printing \cup {"wrap"}
    BY <1>4 DEF PutSteps, Step, Printing
  <2> QED BY <2>1 DEF CursorMoves, Printing
<1>5. CASE WrapSteps
  <2>1. pc' \in Wrapping \cup {"scroll"}
    BY <1>5 DEF WrapSteps, Step, Wrapping
  <2> QED BY <2>1 DEF CursorMoves, Wrapping
<1>6. CASE ScrollSteps
  <2>1. pc' \in Scrolling \cup {"cursor"}
    BY <1>6 DEF ScrollSteps, Step, Scrolling
  <2> QED BY <2>1 DEF CursorMoves, Scrolling
<1>7. CASE CursorSteps
  <2>0. torn # "backspace" /\ ~split
    BY <1>7 DEF CursorSteps, Step, historyVars
  <2>1. CASE Step("cursor", "sum", vga, vga.y)
    BY <2>1 DEF Step, CursorMoves
  <2>2. CASE Step("sum", "index14", vga, reg * WIDTH + vga.x)
    BY <2>0, <2>2 DEF Step, CursorMoves
  <2>3. CASE Step("index14", "high", OutIndex(vga, 14), reg)
    <3>1. OutIndex(vga, 14).x = vga.x /\ OutIndex(vga, 14).y = vga.y /\ OutIndex(vga, 14).index = 14
      BY <1>0 DEF OutIndex, Vga
    <3> QED BY <2>0, <2>3, <3>1 DEF Step, CursorMoves
  <2>4. CASE Step("high", "index15", OutData(vga, reg \div BYTE), reg)
    <3> DEFINE v == OutData(vga, reg \div BYTE)
    <3>1. pc = "high" /\ pc' = "index15" /\ vga' = v /\ reg' = reg
      BY <2>4 DEF Step
    <3>2. vga.index = 14 /\ reg = vga.y * WIDTH + vga.x
      BY <2>0, <3>1 DEF CursorMoves
    <3>3. v.x = vga.x /\ v.y = vga.y /\ v.high = (reg \div BYTE) % BYTE
      BY <1>0, <3>2 DEF OutData, Vga
    <3>4. vga.x \in 0 .. WIDTH - 1 /\ vga.y \in 0 .. HEIGHT - 1
      BY <1>0, <2>0, <3>1, ScreenConstants DEF ScreenInv, CursorInv, Scrolling
    <3>5. reg \in 0 .. WIDTH * HEIGHT - 1
      BY <3>2, <3>4, PlaceOnScreen
    <3>6. (reg \div BYTE) % BYTE = reg \div BYTE
      BY <3>5, RegisterFacts
    <3> HIDE DEF v
    <3> QED BY <3>1, <3>2, <3>3, <3>6 DEF CursorMoves
  <2>5. CASE Step("index15", "low", OutIndex(vga, 15), reg)
    <3>1. /\ OutIndex(vga, 15).x = vga.x /\ OutIndex(vga, 15).y = vga.y
          /\ OutIndex(vga, 15).index = 15 /\ OutIndex(vga, 15).high = vga.high
      BY <1>0 DEF OutIndex, Vga
    <3> QED BY <2>0, <2>5, <3>1 DEF Step, CursorMoves
  <2>6. CASE Step("low", "idle", OutData(vga, reg), 0)
    <3> DEFINE v == OutData(vga, reg)
    <3>1. pc = "low" /\ pc' = "idle" /\ vga' = v
      BY <2>6 DEF Step
    <3>2. vga.index = 15 /\ reg = vga.y * WIDTH + vga.x /\ vga.high = reg \div BYTE
      BY <2>0, <3>1 DEF CursorMoves
    <3>3. v.x = vga.x /\ v.y = vga.y /\ v.high = vga.high /\ v.low = reg % BYTE
      BY <1>0, <3>2 DEF OutData, Vga
    <3>4. vga.x \in 0 .. WIDTH - 1 /\ vga.y \in 0 .. HEIGHT - 1
      BY <1>0, <2>0, <3>1, ScreenConstants DEF ScreenInv, CursorInv, Scrolling
    <3>5. reg \in 0 .. WIDTH * HEIGHT - 1
      BY <3>2, <3>4, PlaceOnScreen
    <3>6. (reg \div BYTE) * BYTE + (reg % BYTE) = reg
      BY <3>5, RegisterFacts
    <3> HIDE DEF v
    <3>7. CursorShown'
      BY <3>1, <3>2, <3>3, <3>6 DEF CursorShown, HardwareCursor
    <3> QED BY <3>1, <3>7 DEF CursorMoves
  <2> QED BY <1>7, <2>1, <2>2, <2>3, <2>4, <2>5, <2>6 DEF CursorSteps
<1> QED BY <1>1, <1>2, <1>3, <1>4, <1>5, <1>6, <1>7 DEF Next

\* CursorFollows: the blinking cursor is where the next character goes, unless
\* a key came between the accesses of move_csr (vga.c:44) and no character since.
THEOREM ScreenCursorFollows == Spec => []CursorFollows
<1>1. Init => CursorMoves
  <2> SUFFICES ASSUME Init PROVE CursorShown
    BY DEF Init, CursorMoves
  <2>1. InitCursor \in 0 .. WIDTH * HEIGHT - 1
    BY ScreenConstants, 0 \in 0 .. WIDTH - 1, PlaceOnScreen DEF InitCursor
  <2>2. (InitCursor \div BYTE) * BYTE + (InitCursor % BYTE) = InitCursor
    BY <2>1, RegisterFacts
  <2>3. /\ vga.x = 0 /\ vga.y = FIRST_ROW
        /\ vga.high = InitCursor \div BYTE /\ vga.low = InitCursor % BYTE
    BY DEF Init
  <2>4. FIRST_ROW * WIDTH + 0 = InitCursor
    BY ScreenConstants DEF InitCursor
  <2> QED BY <2>2, <2>3, <2>4 DEF CursorShown, HardwareCursor
<1>2. CursorMoves => CursorFollows
  BY DEF CursorMoves, CursorFollows
<1> QED BY <1>1, <1>2, ScreenInvariant, CursorMovesStep, PTL DEF Spec
-----------------------------------------------------------------------------
(***************************************************************************)
(* What is shown.  The places of the characters are a recursion over the   *)
(* text, of which only the last step is needed: a place more for a         *)
(* character more.  A screen is a view of the sheet, and writech takes a   *)
(* view of a text to a view of the text with one character more, at once   *)
(* or, if no key comes in between, step by step.                           *)
(***************************************************************************)
Text == Seq(MainChar \cup KeyChar)

\* The place behind a character that is at p.
NextPlace(p, c) ==
  LET col == CASE c \in {Newline, Return} -> 0
               [] c = Tab -> TabStop(p.col)
               [] c = Backspace -> IF p.col = 0 THEN 0 ELSE p.col - 1
               [] OTHER -> p.col + 1
      full == col >= WIDTH
  IN [row |-> p.row + IF c = Newline \/ full THEN 1 ELSE 0,
      col |-> IF full THEN 0 ELSE col]

IsPlaces(t, f) ==
  f = [n \in 0 .. Len(t) |-> IF n = 0 THEN [row |-> FIRST_ROW, col |-> 0]
                             ELSE NextPlace(f[n - 1], t[n])]

\* The characters printed at a place, by their numbers.
At(t, f, row, col) ==
  {n \in 1 .. Len(t) : t[n] \notin Movement /\ f[n - 1] = [row |-> row, col |-> col]}

IsLast(n, T) == n \in T /\ \A m \in T : m <= n

SheetOf(t, f, row, col) ==
  IF At(t, f, row, col) # {}
    THEN t[CHOOSE n \in At(t, f, row, col) : \A m \in At(t, f, row, col) : m <= n]
    ELSE IF row < HEIGHT THEN Old ELSE Blank

Top(bottom) == IF bottom < HEIGHT THEN 0 ELSE bottom - HEIGHT + 1

\* Text only goes down, and of the characters at a place one is the last.
LaidOut(t, f) ==
  /\ \A n \in 0 .. Len(t) : f[n] \in [row : Nat, col : 0 .. WIDTH - 1]
  /\ \A n \in 0 .. Len(t) : f[n].row <= f[Len(t)].row
  /\ \A row \in Nat, col \in 0 .. WIDTH - 1 :
       At(t, f, row, col) # {} => \E n : IsLast(n, At(t, f, row, col))

\* The screen v shows the sheet from the row top on.
ShowsFrom(v, t, f, top) ==
  /\ v.x = f[Len(t)].col /\ v.y = f[Len(t)].row - top
  /\ \A row \in 0 .. HEIGHT - 1, col \in 0 .. WIDTH - 1 :
       v.cells[row * WIDTH + col] = SheetOf(t, f, top + row, col)

\* The recursion has a value, and whatever satisfies it is shown.
Shows(v, t) ==
  /\ \E f : IsPlaces(t, f)
  /\ \A f : IsPlaces(t, f) => LaidOut(t, f) /\ ShowsFrom(v, t, f, Top(f[Len(t)].row))

LEMMA PlacesExtend ==
  ASSUME NEW t \in Text, NEW c \in MainChar \cup KeyChar, NEW f, IsPlaces(t, f)
  PROVE  \E g : IsPlaces(Append(t, c), g)
<1> DEFINE more == Append(t, c)
           L == Len(t)
           start == [row |-> FIRST_ROW, col |-> 0]
           g == [n \in 0 .. L + 1 |-> IF n = L + 1 THEN NextPlace(f[L], c) ELSE f[n]]
           rhs == [n \in 0 .. L + 1 |-> IF n = 0 THEN start ELSE NextPlace(g[n - 1], more[n])]
<1>1. /\ L \in Nat /\ Len(more) = L + 1 /\ more[L + 1] = c
      /\ \A n \in 1 .. L : more[n] = t[n]
  BY DEF Text
<1>2. \A n \in 0 .. L : f[n] = IF n = 0 THEN start ELSE NextPlace(f[n - 1], t[n])
  BY DEF IsPlaces
<1> HIDE DEF more, L, start
<1>3. \A n \in 0 .. L + 1 : g[n] = rhs[n]
  <2> SUFFICES ASSUME NEW n \in 0 .. L + 1
               PROVE  g[n] = IF n = 0 THEN start ELSE NextPlace(g[n - 1], more[n])
    BY <1>1
  <2>1. CASE n = L + 1
    <3>1. n # 0 /\ n - 1 \in 0 .. L + 1 /\ n - 1 # L + 1 /\ n - 1 = L
      BY <1>1, <2>1
    <3> QED BY <1>1, <2>1, <3>1
  <2>2. CASE n # L + 1
    <3>1. n \in 0 .. L /\ (n # 0 => n - 1 \in 0 .. L + 1 /\ n - 1 # L + 1 /\ n \in 1 .. L)
      BY <1>1, <2>2
    <3> QED BY <1>1, <1>2, <2>2, <3>1
  <2> QED BY <2>1, <2>2
<1>4. g = rhs
  BY <1>3
<1>5. IsPlaces(more, g)
  BY <1>1, <1>4 DEF IsPlaces, start
<1> QED BY <1>5 DEF more

LEMMA PlacesRestrict ==
  ASSUME NEW t \in Text, NEW c \in MainChar \cup KeyChar, NEW g, IsPlaces(Append(t, c), g)
  PROVE  /\ IsPlaces(t, [n \in 0 .. Len(t) |-> g[n]])
         /\ g[Len(t) + 1] = NextPlace(g[Len(t)], c)
<1> DEFINE more == Append(t, c)
           L == Len(t)
           start == [row |-> FIRST_ROW, col |-> 0]
           f == [n \in 0 .. L |-> g[n]]
           rhs == [n \in 0 .. L |-> IF n = 0 THEN start ELSE NextPlace(f[n - 1], t[n])]
<1>1. /\ L \in Nat /\ Len(more) = L + 1 /\ more[L + 1] = c
      /\ \A n \in 1 .. L : more[n] = t[n]
  BY DEF Text
<1>2. \A n \in 0 .. L + 1 : g[n] = IF n = 0 THEN start ELSE NextPlace(g[n - 1], more[n])
  BY <1>1 DEF IsPlaces
<1> HIDE DEF more, L, start
<1>3. \A n \in 0 .. L : f[n] = rhs[n]
  <2> SUFFICES ASSUME NEW n \in 0 .. L
               PROVE  g[n] = IF n = 0 THEN start ELSE NextPlace(f[n - 1], t[n])
    OBVIOUS
  <2>1. n \in 0 .. L + 1 /\ (n # 0 => n - 1 \in 0 .. L /\ n \in 1 .. L)
    BY <1>1
  <2> QED BY <1>1, <1>2, <2>1
<1>4. f = rhs
  BY <1>3
<1>5. IsPlaces(t, f)
  BY <1>4 DEF IsPlaces, L, start
<1>6. L + 1 \in 0 .. L + 1 /\ L + 1 # 0 /\ L + 1 - 1 = L
  BY <1>1
<1>7. g[L + 1] = NextPlace(g[L], c)
  BY <1>1, <1>2, <1>6
<1> QED BY <1>5, <1>7 DEF L

\* A place more: within the line, in this row or the next.
LEMMA NextPlaceFacts ==
  ASSUME NEW p \in [row : Nat, col : 0 .. WIDTH - 1], NEW c
  PROVE  /\ NextPlace(p, c) \in [row : Nat, col : 0 .. WIDTH - 1]
         /\ NextPlace(p, c).row \in p.row .. p.row + 1
<1> DEFINE col == CASE c \in {Newline, Return} -> 0
                    [] c = Tab -> TabStop(p.col)
                    [] c = Backspace -> IF p.col = 0 THEN 0 ELSE p.col - 1
                    [] OTHER -> p.col + 1
           full == col >= WIDTH
<1>1. p.row \in Nat /\ p.col \in 0 .. WIDTH - 1 /\ p.col \in Int
  BY ScreenConstants
<1>2. TabStop(p.col) \in Nat
  BY <1>1, TabStopFacts
<1>3. col \in Nat
  <2> USE DEF Newline, Return, Tab, Backspace
  <2>1. CASE c \in {Newline, Return}
    BY <2>1
  <2>2. CASE c = Tab
    BY <1>2, <2>2
  <2>3. CASE c = Backspace
    <3>1. col = IF p.col = 0 THEN 0 ELSE p.col - 1
      BY <2>3
    <3> QED BY <1>1, <3>1
  <2>4. CASE c \notin {Newline, Return, Tab, Backspace}
    <3>1. col = p.col + 1
      BY <2>4
    <3> QED BY <1>1, <3>1
  <2> QED BY <2>1, <2>2, <2>3, <2>4
<1>4. NextPlace(p, c) = [row |-> p.row + IF c = Newline \/ full THEN 1 ELSE 0,
                         col |-> IF full THEN 0 ELSE col]
  BY DEF NextPlace
<1> HIDE DEF col
<1> QED BY <1>1, <1>3, <1>4, ScreenConstants

\* The sheet with one character more.
LEMMA AtAppend ==
  ASSUME NEW t \in Text, NEW c \in MainChar \cup KeyChar, NEW f, NEW g,
         \A n \in 0 .. Len(t) : g[n] = f[n], NEW row, NEW col
  PROVE  At(Append(t, c), g, row, col) =
           At(t, f, row, col)
             \cup {n \in {Len(t) + 1} : c \notin Movement /\ f[Len(t)] = [row |-> row, col |-> col]}
<1> DEFINE more == Append(t, c)
           L == Len(t)
<1>1. /\ L \in Nat /\ Len(more) = L + 1 /\ more[L + 1] = c
      /\ \A n \in 1 .. L : more[n] = t[n]
  BY DEF Text
<1> HIDE DEF more, L
<1>2. /\ 1 .. L + 1 = 1 .. L \cup {L + 1} /\ L + 1 - 1 = L /\ L \in 0 .. L
      /\ \A n \in 1 .. L : n - 1 \in 0 .. L
  BY <1>1
<1>3. \A n \in 1 .. L : g[n - 1] = f[n - 1]
  BY <1>2 DEF L
<1>4. g[L + 1 - 1] = f[L]
  BY <1>2 DEF L
<1>5. At(more, g, row, col) =
        At(t, f, row, col)
          \cup {n \in {L + 1} : c \notin Movement /\ f[L] = [row |-> row, col |-> col]}
  BY <1>1, <1>2, <1>3, <1>4 DEF At, L
<1> QED BY <1>5 DEF more, L

LEMMA SheetAppend ==
  ASSUME NEW t \in Text, NEW c \in MainChar \cup KeyChar, NEW f, NEW g,
         LaidOut(t, f), \A n \in 0 .. Len(t) : g[n] = f[n],
         NEW row \in Nat, NEW col \in 0 .. WIDTH - 1
  PROVE  /\ SheetOf(Append(t, c), g, row, col) =
              IF c \notin Movement /\ f[Len(t)] = [row |-> row, col |-> col]
                THEN c ELSE SheetOf(t, f, row, col)
         /\ At(Append(t, c), g, row, col) # {} =>
              \E n : IsLast(n, At(Append(t, c), g, row, col))
<1> DEFINE more == Append(t, c)
           L == Len(t)
           before == At(t, f, row, col)
           after == At(more, g, row, col)
           here == c \notin Movement /\ f[L] = [row |-> row, col |-> col]
           Last(T) == CHOOSE n \in T : \A m \in T : m <= n
<1>1. /\ L \in Nat /\ Len(more) = L + 1 /\ more[L + 1] = c
      /\ \A n \in 1 .. L : more[n] = t[n]
  BY DEF Text
<1>2. after = before \cup {n \in {L + 1} : here}
  BY AtAppend
<1>3. before \subseteq 1 .. L
  BY DEF At
<1>4. before # {} => \E n : IsLast(n, before)
  BY DEF LaidOut
<1>5. /\ SheetOf(more, g, row, col) =
           IF after # {} THEN more[Last(after)]
           ELSE IF row < HEIGHT THEN Old ELSE Blank
      /\ SheetOf(t, f, row, col) =
           IF before # {} THEN t[Last(before)]
           ELSE IF row < HEIGHT THEN Old ELSE Blank
  BY DEF SheetOf
<1> HIDE DEF before, after, more, L
<1>6. CASE here
  <2>1. after = before \cup {L + 1}
    BY <1>2, <1>6
  <2>2. IsLast(L + 1, after) /\ \A n \in after : (\A m \in after : m <= n) => n = L + 1
    BY <1>1, <1>3, <2>1 DEF IsLast
  <2>3. Last(after) = L + 1
    BY <2>2 DEF IsLast
  <2> HIDE DEF Last
  <2>4. SheetOf(more, g, row, col) = c
    BY <1>1, <1>5, <2>1, <2>3
  <2> QED BY <1>6, <2>2, <2>4 DEF more, L, after
<1>7. CASE ~here
  <2>1. after = before
    BY <1>2, <1>7
  <2>2. before # {} => Last(before) \in before
    BY <1>4 DEF IsLast
  <2> HIDE DEF Last
  <2>3. SheetOf(more, g, row, col) = SheetOf(t, f, row, col)
    <3>1. Last(after) = Last(before)
      BY <2>1
    <3>2. CASE before = {}
      BY <1>5, <2>1, <3>2
    <3>3. CASE before # {}
      <4>1. PICK e : e = Last(before)
        OBVIOUS
      <4>2. e \in 1 .. L
        BY <1>3, <2>2, <3>3, <4>1
      <4>3. more[e] = t[e]
        BY <1>1, <4>2
      <4> QED BY <1>5, <2>1, <3>1, <3>3, <4>1, <4>3
    <3> QED BY <3>2, <3>3
  <2> QED BY <1>4, <1>7, <2>1, <2>3 DEF more, L, after
<1> QED BY <1>6, <1>7

\* Places with one more stay within the lines and in order.
LEMMA LaidOutAppend ==
  ASSUME NEW t \in Text, NEW c \in MainChar \cup KeyChar, NEW f, NEW g,
         LaidOut(t, f), \A n \in 0 .. Len(t) : g[n] = f[n],
         g[Len(t) + 1] = NextPlace(f[Len(t)], c)
  PROVE  LaidOut(Append(t, c), g)
<1> DEFINE more == Append(t, c)
           L == Len(t)
<1>1. L \in Nat /\ Len(more) = L + 1
  BY DEF Text
<1>2. /\ \A n \in 0 .. L : /\ f[n] \in [row : Nat, col : 0 .. WIDTH - 1]
                           /\ f[n].row <= f[L].row /\ f[n].row \in Nat
      /\ f[L] \in [row : Nat, col : 0 .. WIDTH - 1] /\ f[L].row \in Nat
  BY <1>1 DEF LaidOut
<1>3. /\ g[L + 1] \in [row : Nat, col : 0 .. WIDTH - 1]
      /\ g[L + 1].row \in f[L].row .. f[L].row + 1
  BY <1>2, NextPlaceFacts
<1>4. \A row \in Nat, col \in 0 .. WIDTH - 1 :
        At(more, g, row, col) # {} => \E n : IsLast(n, At(more, g, row, col))
  BY SheetAppend
<1>5. \A n \in 0 .. L : g[n] = f[n]
  OBVIOUS
<1> HIDE DEF more, L
<1>6. \A n \in 0 .. L + 1 : n \in 0 .. L \/ n = L + 1
  BY <1>1
<1>7. \A n \in 0 .. L + 1 : g[n] \in [row : Nat, col : 0 .. WIDTH - 1]
  BY <1>2, <1>3, <1>5, <1>6
<1>8. \A n \in 0 .. L + 1 : g[n].row <= g[L + 1].row
  BY <1>2, <1>3, <1>5, <1>6
<1>9. LaidOut(more, g)
  BY <1>1, <1>4, <1>7, <1>8 DEF LaidOut
<1> QED BY <1>9 DEF more
-----------------------------------------------------------------------------
(* writech on a view of the sheet.                                         *)

Same(v, w) == v.x = w.x /\ v.y = w.y /\ v.cells = w.cells

LEMMA PutParts ==
  ASSUME NEW v \in Vga, NEW c
  PROVE  /\ c \in Movement => Put(v, c).cells = v.cells
         /\ c # Newline => Put(v, c).y = v.y
         /\ c = Newline => Put(v, c).x = 0 /\ Put(v, c).y = v.y + 1
         /\ c = Return => Put(v, c).x = 0
         /\ c = Tab => Put(v, c).x = TabStop(v.x)
         /\ c = Backspace => Put(v, c).x = IF v.x = 0 THEN 0 ELSE v.x - 1
         /\ c \notin Movement => /\ Put(v, c).x = v.x + 1
                                 /\ Put(v, c).cells = [v.cells EXCEPT ![v.y * WIDTH + v.x] = c]
<1> USE DEF Put, Movement, Newline, Return, Tab, Backspace, Vga
<1>1. CASE c = Newline
  BY <1>1
<1>2. CASE c = Return
  BY <1>2
<1>3. CASE c = Tab
  BY <1>3
<1>4. CASE c = Backspace
  BY <1>4
<1>5. CASE c \notin Movement
  BY <1>5
<1> QED BY <1>1, <1>2, <1>3, <1>4, <1>5

LEMMA WrapParts ==
  ASSUME NEW v \in Vga
  PROVE  /\ Wrap(v).cells = v.cells
         /\ Wrap(v).x = IF v.x >= WIDTH THEN 0 ELSE v.x
         /\ Wrap(v).y = IF v.x >= WIDTH THEN v.y + 1 ELSE v.y
BY DEF Wrap, Vga

LEMMA ScrollParts ==
  ASSUME NEW v \in Vga
  PROVE  /\ Scroll(v).x = v.x
         /\ Scroll(v).cells = IF v.y >= HEIGHT THEN CopyUp(v.cells, v.y - HEIGHT + 1) ELSE v.cells
         /\ Scroll(v).y = IF v.y >= HEIGHT THEN HEIGHT - 1 ELSE v.y
BY DEF Scroll, Vga

\* The cursor goes where the next character of the sheet does.
LEMMA CursorToNextPlace ==
  ASSUME NEW v \in Vga, NEW c \in Shown, NEW p \in [row : Nat, col : 0 .. WIDTH - 1],
         v.x = p.col, v.y \in 0 .. HEIGHT
  PROVE  /\ Wrap(Put(v, c)).x = NextPlace(p, c).col
         /\ Wrap(Put(v, c)).y = v.y + NextPlace(p, c).row - p.row
<1> DEFINE w == Put(v, c)
           col == CASE c \in {Newline, Return} -> 0
                    [] c = Tab -> TabStop(p.col)
                    [] c = Backspace -> IF p.col = 0 THEN 0 ELSE p.col - 1
                    [] OTHER -> p.col + 1
           full == col >= WIDTH
<1>1. /\ NextPlace(p, c).row = p.row + IF c = Newline \/ full THEN 1 ELSE 0
      /\ NextPlace(p, c).col = IF full THEN 0 ELSE col
  BY DEF NextPlace
<1>2. v.x <= WIDTH /\ p.row \in Int /\ v.y \in Int
  BY ScreenConstants
<1>3. w \in Vga
  BY <1>2, PutFacts
<1>4. w.x = col /\ w.y = v.y + IF c = Newline THEN 1 ELSE 0
  <2>1. /\ c # Newline => w.y = v.y
        /\ c = Newline => w.x = 0 /\ w.y = v.y + 1
        /\ c = Return => w.x = 0
        /\ c = Tab => w.x = TabStop(v.x)
        /\ c = Backspace => w.x = IF v.x = 0 THEN 0 ELSE v.x - 1
        /\ c \notin Movement => w.x = v.x + 1
    BY PutParts
  <2> HIDE DEF w
  <2>2. w.y = v.y + IF c = Newline THEN 1 ELSE 0
    BY <1>2, <2>1
  <2>3. w.x = col
    <3> USE DEF Newline, Return, Tab, Backspace, Movement
    <3>1. CASE c \in {Newline, Return}
      BY <2>1, <3>1
    <3>2. CASE c = Tab
      BY <2>1, <3>2
    <3>3. CASE c = Backspace
      BY <2>1, <3>3
    <3>4. CASE c \notin Movement
      BY <2>1, <3>4
    <3> QED BY <3>1, <3>2, <3>3, <3>4
  <2> QED BY <2>2, <2>3
<1>5. c = Newline => ~full
  BY ScreenConstants DEF Newline, Return, Tab, Backspace
<1> HIDE DEF w, col
<1>6. /\ Wrap(w).x = IF full THEN 0 ELSE col
      /\ Wrap(w).y = IF full THEN w.y + 1 ELSE w.y
  BY <1>3, <1>4, WrapParts
<1>7. Wrap(w).x = NextPlace(p, c).col /\ Wrap(w).y = v.y + NextPlace(p, c).row - p.row
  BY <1>1, <1>2, <1>4, <1>5, <1>6
<1> QED BY <1>7 DEF w

\* No two places of the screen have the same cell.
LEMMA PlaceUnique ==
  ASSUME NEW row \in Int, NEW col \in 0 .. WIDTH - 1, NEW y \in Int, NEW x \in 0 .. WIDTH - 1,
         row * WIDTH + col = y * WIDTH + x
  PROVE  row = y /\ col = x
<1>1. WIDTH \in Nat \ {0} /\ col \in Nat /\ x \in Nat /\ col < WIDTH /\ x < WIDTH
  BY ScreenConstants
<1>2. /\ row * WIDTH \in Int /\ y * WIDTH \in Int
      /\ (row + 1) * WIDTH = row * WIDTH + WIDTH /\ (y + 1) * WIDTH = y * WIDTH + WIDTH
  BY <1>1
<1>3. row * WIDTH < (y + 1) * WIDTH /\ y * WIDTH < (row + 1) * WIDTH
  BY <1>1, <1>2
<1>4. row < y + 1 /\ y < row + 1
  BY <1>1, <1>3, ProductBelow
<1>5. row = y
  BY <1>4
<1> QED BY <1>1, <1>2, <1>5

LEMMA CopyUpOne ==
  ASSUME NEW cells, NEW row \in 0 .. HEIGHT - 1, NEW col \in 0 .. WIDTH - 1
  PROVE  CopyUp(cells, 1)[row * WIDTH + col] =
           IF row < HEIGHT - 1 THEN cells[(row + 1) * WIDTH + col] ELSE Blank
<1>1. PICK i \in Int : i = row * WIDTH + col
  BY PlaceFacts, ScreenConstants
<1>2. i \in 0 .. WIDTH * HEIGHT - 1 /\ i \in Cell
  BY <1>1, PlaceOnScreen, ScreenConstants
<1>3. /\ row \in Int /\ (HEIGHT - 1) * WIDTH = WIDTH * HEIGHT - WIDTH /\ 1 * WIDTH = WIDTH
      /\ (row + 1) * WIDTH = row * WIDTH + WIDTH /\ row * WIDTH \in Int
  BY ScreenConstants
<1>4. CopyUp(cells, 1)[i] = IF i < (HEIGHT - 1) * WIDTH THEN cells[i + 1 * WIDTH]
                            ELSE IF i < (HEIGHT - 1) * WIDTH + WIDTH THEN Blank ELSE cells[i]
  BY <1>2 DEF CopyUp
<1>5. i < (HEIGHT - 1) * WIDTH + WIDTH
  BY <1>2, <1>3, ScreenConstants
<1>6. CASE row < HEIGHT - 1
  <2>1. (row + 1) * WIDTH <= (HEIGHT - 1) * WIDTH
    BY <1>6, ProductMonotone, ScreenConstants
  <2>2. i < (HEIGHT - 1) * WIDTH
    BY <1>1, <1>3, <2>1, ScreenConstants
  <2>3. i + 1 * WIDTH = (row + 1) * WIDTH + col
    BY <1>1, <1>3, ScreenConstants
  <2> QED BY <1>1, <1>4, <1>6, <2>2, <2>3
<1>7. CASE ~(row < HEIGHT - 1)
  <2>1. row = HEIGHT - 1
    BY <1>7, ScreenConstants
  <2>2. ~(i < (HEIGHT - 1) * WIDTH)
    BY <1>1, <1>3, <2>1, ScreenConstants
  <2> QED BY <1>1, <1>4, <1>5, <1>7, <2>2
<1> QED BY <1>6, <1>7

\* Printing a character on a view, before the view is moved.
LEMMA PutShows ==
  ASSUME NEW v \in Vga, NEW t \in Text, NEW c \in MainChar \cup KeyChar, NEW f, NEW g,
         v.x \in 0 .. WIDTH - 1, v.y \in 0 .. HEIGHT - 1, NEW top \in Nat,
         LaidOut(t, f), ShowsFrom(v, t, f, top), \A n \in 0 .. Len(t) : g[n] = f[n],
         NEW row \in 0 .. HEIGHT - 1, NEW col \in 0 .. WIDTH - 1
  PROVE  Put(v, c).cells[row * WIDTH + col] = SheetOf(Append(t, c), g, top + row, col)
<1> DEFINE p == f[Len(t)]
           old == SheetOf(t, f, top + row, col)
           new == SheetOf(Append(t, c), g, top + row, col)
           here == p = [row |-> top + row, col |-> col]
<1>1. Len(t) \in Nat
  BY DEF Text
<1>2. p \in [row : Nat, col : 0 .. WIDTH - 1]
  BY <1>1 DEF LaidOut
<1>3. v.x = p.col /\ v.y = p.row - top /\ v.cells[row * WIDTH + col] = old
  BY DEF ShowsFrom
<1>4. new = IF c \notin Movement /\ here THEN c ELSE old
  <2>1. top + row \in Nat
    BY ScreenConstants
  <2> DEFINE r == top + row
  <2>2. r \in Nat
    BY <2>1
  <2> HIDE DEF r
  <2>3. SheetOf(Append(t, c), g, r, col) =
          IF c \notin Movement /\ p = [row |-> r, col |-> col] THEN c ELSE SheetOf(t, f, r, col)
    BY <2>2, SheetAppend
  <2> QED BY <2>3 DEF r
<1> HIDE DEF p, old, new
<1>5. here <=> row = v.y /\ col = v.x
  BY <1>2, <1>3, ScreenConstants
<1> HIDE DEF here
<1>6. CASE c \in Movement
  BY <1>3, <1>4, <1>6, PutParts DEF new
<1>7. CASE c \notin Movement
  <2>1. Put(v, c).cells = [v.cells EXCEPT ![v.y * WIDTH + v.x] = c]
    BY <1>7, PutParts
  <2>2. DOMAIN v.cells = Cell /\ row * WIDTH + col \in Cell
    <3>1. v.cells \in [Cell -> Shown]
      BY VgaFacts
    <3>2. PICK i : i = row * WIDTH + col
      OBVIOUS
    <3>3. i \in 0 .. WIDTH * HEIGHT - 1
      BY <3>2, PlaceOnScreen
    <3>4. i \in Cell
      BY <3>3, ScreenConstants
    <3>5. DOMAIN v.cells = Cell
      BY <3>1
    <3> QED BY <3>2, <3>4, <3>5
  <2>3. v.y * WIDTH + v.x = row * WIDTH + col <=> here
    <3>1. row \in Int /\ v.y \in Int
      BY ScreenConstants
    <3>2. ASSUME row * WIDTH + col = v.y * WIDTH + v.x PROVE row = v.y /\ col = v.x
      BY <3>1, <3>2, PlaceUnique
    <3> QED BY <1>5, <3>2
  <2>4. CASE here
    BY <1>4, <1>7, <2>1, <2>2, <2>3, <2>4 DEF new
  <2>5. CASE ~here
    BY <1>3, <1>4, <1>7, <2>1, <2>2, <2>3, <2>5 DEF new
  <2> QED BY <2>4, <2>5
<1> QED BY <1>6, <1>7

\* From the row pr of the sheet to qr: the view moves when its last row is left.
LEMMA MovesDown ==
  ASSUME NEW pr \in Nat, NEW qr \in pr .. pr + 1, NEW y \in 0 .. HEIGHT - 1, y = pr - Top(pr)
  PROVE  IF y + qr - pr < HEIGHT THEN Top(qr) = Top(pr)
         ELSE y = HEIGHT - 1 /\ qr = pr + 1 /\ Top(qr) = Top(pr) + 1 /\ pr = Top(pr) + HEIGHT - 1
<1>1. /\ Top(pr) = IF pr < HEIGHT THEN 0 ELSE pr - HEIGHT + 1
      /\ Top(qr) = IF qr < HEIGHT THEN 0 ELSE qr - HEIGHT + 1
  BY DEF Top
<1>2. CASE qr = pr
  BY <1>1, <1>2, ScreenConstants
<1>3. CASE qr = pr + 1
  BY <1>1, <1>3, ScreenConstants
<1> QED BY <1>2, <1>3

\* writech, the hardware's cursor left out, keeps the screen a view: of the
\* same rows, or of the rows one further down.
LEMMA WriteShows ==
  ASSUME NEW v \in Vga, NEW t \in Text, NEW c \in MainChar \cup KeyChar, Shows(v, t),
         v.x \in 0 .. WIDTH - 1, v.y \in 0 .. HEIGHT - 1
  PROVE  Shows(Scroll(Wrap(Put(v, c))), Append(t, c))
<1> DEFINE more == Append(t, c)
           L == Len(t)
<1>1. L \in Nat /\ Len(more) = L + 1
  BY DEF Text
<1>2. \E g : IsPlaces(more, g)
  BY PlacesExtend DEF Shows
<1>3. ASSUME NEW g, IsPlaces(more, g)
      PROVE  LaidOut(more, g) /\ ShowsFrom(Scroll(Wrap(Put(v, c))), more, g, Top(g[Len(more)].row))
  <2> DEFINE f == [n \in 0 .. L |-> g[n]]
             w == Wrap(Put(v, c))
             p == f[L]
             q == g[L + 1]
             top == Top(p.row)
  <2>1. IsPlaces(t, f) /\ q = NextPlace(g[L], c)
    BY <1>3, PlacesRestrict
  <2>2. \A n \in 0 .. L : g[n] = f[n]
    OBVIOUS
  <2>3. LaidOut(t, f) /\ ShowsFrom(v, t, f, top)
    BY <2>1 DEF Shows
  <2> HIDE DEF f
  <2>4. q = NextPlace(p, c)
    BY <1>1, <2>1, <2>2
  <2>5. LaidOut(more, g)
    BY <2>2, <2>3, <2>4, LaidOutAppend
  <2>6. p \in [row : Nat, col : 0 .. WIDTH - 1]
    BY <1>1, <2>3 DEF LaidOut
  <2>7. v.x = p.col /\ v.y = p.row - top
    BY <2>3 DEF ShowsFrom
  <2> HIDE DEF p, q
  <2>8. q \in [row : Nat, col : 0 .. WIDTH - 1] /\ q.row \in p.row .. p.row + 1
    BY <2>4, <2>6, NextPlaceFacts
  <2>9. c \in Shown /\ v.y \in 0 .. HEIGHT /\ v.x <= WIDTH
    BY ScreenConstants, CharsAreShown
  <2>10. w.x = q.col /\ w.y = v.y + q.row - p.row
    BY <2>4, <2>6, <2>7, <2>9, CursorToNextPlace
  <2>11. Put(v, c) \in Vga
    BY <2>9, PutFacts
  <2>12. w \in Vga /\ w.cells = Put(v, c).cells
    BY <2>11, WrapFacts, WrapParts
  <2>13. top \in Nat /\ p.row \in Nat /\ q.row \in Nat
    BY <2>6, <2>8, ScreenConstants DEF Top
  <2>14. \A row \in 0 .. HEIGHT - 1, col \in 0 .. WIDTH - 1 :
           w.cells[row * WIDTH + col] = SheetOf(more, g, top + row, col)
    BY <2>2, <2>3, <2>12, <2>13, PutShows DEF L
  <2> HIDE DEF w, more
  <2>15. Len(more) = L + 1 /\ g[Len(more)] = q
    BY <1>1 DEF q
  <2>16. CASE w.y < HEIGHT
    <3>1. Scroll(w) = w
      <4>1. w.y \in Int /\ HEIGHT \in Int
        BY <2>12, VgaFacts, ScreenConstants
      <4>2. ~(w.y >= HEIGHT)
        BY <2>16, <4>1
      <4> QED BY <4>2 DEF Scroll
    <3>2. Top(q.row) = top /\ w.y = q.row - top
      <4>1. Top(q.row) = top
        BY <2>7, <2>8, <2>10, <2>13, <2>16, MovesDown
      <4>2. v.y = p.row - top /\ w.y = v.y + q.row - p.row /\ top \in Int
        BY <2>7, <2>10, <2>13
      <4> HIDE DEF top
      <4> QED BY <2>13, <4>1, <4>2
    <3> HIDE DEF top
    <3>3. ShowsFrom(w, more, g, Top(q.row))
      BY <2>10, <2>14, <2>15, <3>2 DEF ShowsFrom
    <3> QED BY <2>5, <2>15, <3>1, <3>3 DEF more, w
  <2>17. CASE ~(w.y < HEIGHT)
    <3>1. /\ w.y = HEIGHT /\ v.y = HEIGHT - 1 /\ q.row = p.row + 1
          /\ Top(q.row) = top + 1 /\ p.row = top + HEIGHT - 1
      <4>1. /\ v.y = HEIGHT - 1 /\ q.row = p.row + 1
            /\ Top(q.row) = top + 1 /\ p.row = top + HEIGHT - 1
        BY <2>7, <2>8, <2>10, <2>13, <2>17, MovesDown
      <4>2. w.y = HEIGHT - 1 + (p.row + 1) - p.row
        BY <2>10, <4>1
      <4> HIDE DEF top
      <4> QED BY <2>13, <4>1, <4>2, ScreenConstants
    <3> HIDE DEF top
    <3> DEFINE s == Scroll(w)
    <3>2. /\ s.x = w.x /\ s.y = HEIGHT - 1
          /\ s.cells = CopyUp(w.cells, w.y - HEIGHT + 1)
      BY <2>12, <2>17, <3>1, ScrollParts, ScreenConstants
    <3>3. w.y - HEIGHT + 1 = 1
      BY <3>1, ScreenConstants
    <3>4. s.cells = CopyUp(w.cells, 1)
      BY <3>2, <3>3
    <3> HIDE DEF s
    <3>5. ASSUME NEW row \in 0 .. HEIGHT - 1, NEW col \in 0 .. WIDTH - 1
          PROVE  s.cells[row * WIDTH + col] = SheetOf(more, g, Top(q.row) + row, col)
      <4>1. s.cells[row * WIDTH + col] =
              IF row < HEIGHT - 1 THEN w.cells[(row + 1) * WIDTH + col] ELSE Blank
        BY <3>4, CopyUpOne
      <4>2. Top(q.row) + row = top + (row + 1)
        BY <2>13, <3>1, ScreenConstants
      <4>3. CASE row < HEIGHT - 1
        <5>1. row + 1 \in 0 .. HEIGHT - 1
          BY <4>3, ScreenConstants
        <5> QED BY <2>14, <4>1, <4>2, <4>3, <5>1
      <4>4. CASE ~(row < HEIGHT - 1)
        <5> DEFINE below == top + (row + 1)
        <5>1. below = p.row + 1 /\ below \in Nat /\ ~(below < HEIGHT)
          BY <2>13, <3>1, <4>4, ScreenConstants
        <5> HIDE DEF below
        <5>2. \A n \in 0 .. L : g[n].row <= p.row /\ g[n].row \in Nat
          BY <1>1, <2>2, <2>3 DEF LaidOut, p
        <5>3. At(more, g, below, col) = {}
          <6> SUFFICES ASSUME NEW n \in 1 .. L + 1, g[n - 1] = [row |-> below, col |-> col]
                       PROVE  FALSE
            BY <2>15 DEF At
          <6>1. n - 1 \in 0 .. L
            BY <1>1
          <6>2. g[n - 1].row = below
            OBVIOUS
          <6> QED BY <2>13, <5>1, <5>2, <6>1, <6>2
        <5>4. SheetOf(more, g, below, col) = Blank
          BY <5>1, <5>3 DEF SheetOf
        <5> QED BY <4>1, <4>2, <4>4, <5>4 DEF below
      <4> QED BY <4>3, <4>4
    <3>6. s.y = q.row - Top(q.row) /\ s.x = q.col
      BY <2>10, <2>13, <3>1, <3>2, ScreenConstants
    <3>7. ShowsFrom(s, more, g, Top(q.row))
      BY <2>15, <3>5, <3>6 DEF ShowsFrom
    <3> QED BY <2>5, <2>15, <3>7 DEF more, s, w
  <2> QED BY <2>16, <2>17
<1> QED BY <1>2, <1>3 DEF Shows

\* A view in between: writech of the character c, on the view before, at pc.
Doing(before, c) ==
  LET put == Put(before, c)
      wrapped == Wrap(put)
  IN /\ pc \in {"row", "where", "store", "load", "add"} => c \notin Movement
     /\ pc \in {"tab", "stop"} => c = Tab
     /\ pc \in {"back", "less", "minus"} => c = Backspace
     /\ pc = "column0" => c \in {Return, Newline}
     /\ pc \in {"down", "line"} => c = Newline
     /\ pc \in {"row", "where", "store", "tab", "stop", "back", "less", "minus", "column0"} =>
          Same(vga, before)
     /\ pc = "store" => reg = before.y * WIDTH + before.x
     /\ pc \in {"load", "add"} =>
          vga.x = before.x /\ vga.y = before.y /\ vga.cells = put.cells
     /\ pc \in {"add", "stop", "minus"} => reg = before.x
     /\ pc \in {"less", "minus"} => before.x # 0
     /\ pc \in {"down", "line"} =>
          vga.x = 0 /\ vga.y = before.y /\ vga.cells = before.cells
     /\ pc \in {"where", "line"} => reg = before.y
     /\ pc \in {"wrap", "wrap0"} => Same(vga, put)
     /\ pc \in {"wrapdown", "wrapline"} =>
          vga.x = 0 /\ vga.y = put.y /\ vga.cells = put.cells
     /\ pc \in {"wrap0", "wrapdown", "wrapline"} => put.x >= WIDTH
     /\ pc = "wrapline" => reg = put.y
     /\ pc \in {"scroll", "temp", "copy"} => Same(vga, wrapped)
     /\ pc \in {"temp", "copy", "bottom"} => wrapped.y >= HEIGHT
     /\ pc = "copy" => reg = wrapped.y - HEIGHT + 1
     /\ pc = "bottom" =>
          vga.x = wrapped.x /\ vga.cells = CopyUp(wrapped.cells, wrapped.y - HEIGHT + 1)
     /\ pc \in Moving => Same(vga, Scroll(wrapped))

Onscreen(v) == v.x \in 0 .. WIDTH - 1 /\ v.y \in 0 .. HEIGHT - 1

ShowInv ==
  torn = "none" =>
    IF pc = "idle" THEN Shows(vga, text)
    ELSE \E before \in Vga, t \in Text, c \in MainChar :
           /\ ch = c /\ text = Append(t, c)
           /\ Onscreen(before) /\ Shows(before, t) /\ Doing(before, c)

\* What a step of the main thread leaves alone, of a component of the screen.
LEMMA StepUpdates ==
  ASSUME NEW v \in Vga, NEW n
  PROVE  /\ [v EXCEPT !.x = n].x = n /\ [v EXCEPT !.x = n].y = v.y
         /\ [v EXCEPT !.x = n].cells = v.cells
         /\ [v EXCEPT !.y = n].y = n /\ [v EXCEPT !.y = n].x = v.x
         /\ [v EXCEPT !.y = n].cells = v.cells
         /\ [v EXCEPT !.cells = n].cells = n
         /\ [v EXCEPT !.cells = n].x = v.x /\ [v EXCEPT !.cells = n].y = v.y
BY DEF Vga

LEMMA PutStepsDo ==
  ASSUME vga \in Vga, NEW before \in Vga, NEW c, ch = c, Doing(before, c), PutSteps
  PROVE  pc' # "idle" /\ Doing(before, c)'
<1> USE DEF Moving
<1> DEFINE put == Put(before, c)
<1>0. /\ c \in Movement => put.cells = before.cells
      /\ c # Newline => put.y = before.y
      /\ c = Newline => put.x = 0 /\ put.y = before.y + 1
      /\ c = Return => put.x = 0
      /\ c = Tab => put.x = TabStop(before.x)
      /\ c = Backspace => put.x = IF before.x = 0 THEN 0 ELSE before.x - 1
      /\ c \notin Movement => /\ put.x = before.x + 1
                              /\ put.cells = [before.cells EXCEPT ![before.y * WIDTH + before.x] = c]
  BY PutParts
<1>00. /\ Newline \in Movement /\ Return \in Movement /\ Tab \in Movement
       /\ Backspace \in Movement /\ Newline # Return
       /\ Tab \notin {Newline, Return} /\ Backspace \notin {Newline, Return, Tab}
  BY DEF Movement, Newline, Return, Tab, Backspace
<1> HIDE DEF put
<1>1. CASE Step("row", "where", vga, vga.y)
  BY <1>1 DEF Step, Doing, Same
<1>2. CASE Step("where", "store", vga, reg * WIDTH + vga.x)
  BY <1>2 DEF Step, Doing, Same
<1>3. CASE Step("store", "load", [vga EXCEPT !.cells[reg] = ch], reg)
  <2>1. [vga EXCEPT !.cells[reg] = ch] = [vga EXCEPT !.cells = [vga.cells EXCEPT ![reg] = ch]]
    OBVIOUS
  <2>2. /\ pc = "store" /\ pc' = "load" /\ vga'.x = vga.x /\ vga'.y = vga.y
        /\ vga'.cells = [vga.cells EXCEPT ![reg] = c] /\ reg' = reg
    BY <1>3, <2>1, StepUpdates DEF Step
  <2>3. Same(vga, before) /\ reg = before.y * WIDTH + before.x /\ c \notin Movement
    BY <2>2 DEF Doing
  <2>4. vga'.x = before.x /\ vga'.y = before.y /\ vga'.cells = put.cells
    BY <1>0, <2>2, <2>3 DEF Same
  <2> QED BY <2>2, <2>3, <2>4 DEF Doing, put
<1>4. CASE Step("load", "add", vga, vga.x)
  BY <1>4 DEF Step, Doing, Same
<1>5. CASE Step("add", "wrap", [vga EXCEPT !.x = reg + 1], reg)
  <2>1. /\ pc = "add" /\ pc' = "wrap"
        /\ vga'.x = reg + 1 /\ vga'.y = vga.y /\ vga'.cells = vga.cells
    BY <1>5, StepUpdates DEF Step
  <2>2. c \notin Movement /\ vga.y = before.y /\ vga.cells = put.cells /\ reg = before.x
    BY <2>1 DEF Doing, put
  <2>3. Same(vga', put)
    BY <1>0, <1>00, <2>1, <2>2 DEF Same
  <2> QED BY <2>1, <2>3 DEF Doing, put, Same
<1>6. CASE Step("tab", "stop", vga, vga.x)
  BY <1>6 DEF Step, Doing, Same
<1>7. CASE Step("stop", "wrap", [vga EXCEPT !.x = TabStop(reg)], reg)
  <2>1. /\ pc = "stop" /\ pc' = "wrap"
        /\ vga'.x = TabStop(reg) /\ vga'.y = vga.y /\ vga'.cells = vga.cells
    BY <1>7, StepUpdates DEF Step
  <2>2. c = Tab /\ vga.y = before.y /\ vga.cells = before.cells /\ reg = before.x
    BY <2>1 DEF Doing, Same
  <2>3. Same(vga', put)
    BY <1>0, <1>00, <2>1, <2>2 DEF Same
  <2> QED BY <2>1, <2>3 DEF Doing, put, Same
<1>8. CASE Step("back", IF vga.x # 0 THEN "less" ELSE "wrap", vga, reg)
  <2>1. pc = "back" /\ pc' = (IF vga.x # 0 THEN "less" ELSE "wrap") /\ vga' = vga
    BY <1>8 DEF Step
  <2>2. c = Backspace /\ vga.x = before.x /\ vga.y = before.y /\ vga.cells = before.cells
    BY <2>1 DEF Doing, Same
  <2>3. vga.x = 0 => Same(vga, put)
    BY <1>0, <1>00, <2>1, <2>2 DEF Same
  <2> QED BY <2>1, <2>2, <2>3 DEF Doing, put, Same
<1>9. CASE Step("less", "minus", vga, vga.x)
  BY <1>9 DEF Step, Doing, Same
<1>10. CASE Step("minus", "wrap", [vga EXCEPT !.x = reg - 1], reg)
  <2>1. /\ pc = "minus" /\ pc' = "wrap"
        /\ vga'.x = reg - 1 /\ vga'.y = vga.y /\ vga'.cells = vga.cells
    BY <1>10, StepUpdates DEF Step
  <2>2. /\ c = Backspace /\ vga.y = before.y /\ vga.cells = before.cells
        /\ reg = before.x /\ before.x # 0
    BY <2>1 DEF Doing, Same
  <2>3. Same(vga', put)
    BY <1>0, <1>00, <2>1, <2>2 DEF Same
  <2> QED BY <2>1, <2>3 DEF Doing, put, Same
<1>11. CASE Step("column0", IF ch = Newline THEN "down" ELSE "wrap", [vga EXCEPT !.x = 0], reg)
  <2>1. /\ pc = "column0" /\ pc' = IF c = Newline THEN "down" ELSE "wrap"
        /\ vga'.x = 0 /\ vga'.y = vga.y /\ vga'.cells = vga.cells
    BY <1>11, StepUpdates DEF Step
  <2>2. c \in {Return, Newline} /\ vga.y = before.y /\ vga.cells = before.cells
    BY <2>1 DEF Doing, Same
  <2>3. c = Return => Same(vga', put)
    BY <1>0, <1>00, <2>1, <2>2 DEF Same
  <2> QED BY <1>00, <2>1, <2>2, <2>3 DEF Doing, put, Same
<1>12. CASE Step("down", "line", vga, vga.y)
  BY <1>12 DEF Step, Doing, Same
<1>13. CASE Step("line", "wrap", [vga EXCEPT !.y = reg + 1], reg)
  <2>1. /\ pc = "line" /\ pc' = "wrap"
        /\ vga'.y = reg + 1 /\ vga'.x = vga.x /\ vga'.cells = vga.cells
    BY <1>13, StepUpdates DEF Step
  <2>2. c = Newline /\ vga.x = 0 /\ vga.cells = before.cells /\ reg = before.y
    BY <2>1 DEF Doing
  <2>3. Same(vga', put)
    BY <1>0, <1>00, <2>1, <2>2 DEF Same
  <2> QED BY <2>1, <2>3 DEF Doing, put, Same
<1> QED
  BY <1>1, <1>2, <1>3, <1>4, <1>5, <1>6, <1>7, <1>8, <1>9, <1>10, <1>11, <1>12, <1>13 DEF PutSteps

LEMMA WrapStepsDo ==
  ASSUME vga \in Vga, NEW before \in Vga, NEW c, Put(before, c) \in Vga, Doing(before, c),
         WrapSteps
  PROVE  pc' # "idle" /\ Doing(before, c)'
<1> USE DEF Moving
<1> DEFINE put == Put(before, c)
           wrapped == Wrap(put)
<1>0. /\ wrapped.cells = put.cells
      /\ wrapped.x = IF put.x >= WIDTH THEN 0 ELSE put.x
      /\ wrapped.y = IF put.x >= WIDTH THEN put.y + 1 ELSE put.y
  BY WrapParts
<1> HIDE DEF wrapped, put
<1>1. CASE Step("wrap", IF vga.x >= WIDTH THEN "wrap0" ELSE "scroll", vga, reg)
  <2>1. pc = "wrap" /\ pc' = (IF vga.x >= WIDTH THEN "wrap0" ELSE "scroll") /\ vga' = vga
    BY <1>1 DEF Step
  <2>2. vga.x = put.x /\ vga.y = put.y /\ vga.cells = put.cells
    BY <2>1 DEF Doing, Same, put
  <2>3. ~(vga.x >= WIDTH) => Same(vga, wrapped)
    BY <1>0, <2>2 DEF Same
  <2> QED BY <2>1, <2>2, <2>3 DEF Doing, Same, put, wrapped
<1>2. CASE Step("wrap0", "wrapdown", [vga EXCEPT !.x = 0], reg)
  <2>1. /\ pc = "wrap0" /\ pc' = "wrapdown"
        /\ vga'.x = 0 /\ vga'.y = vga.y /\ vga'.cells = vga.cells
    BY <1>2, StepUpdates DEF Step
  <2> QED BY <2>1 DEF Doing, Same
<1>3. CASE Step("wrapdown", "wrapline", vga, vga.y)
  BY <1>3 DEF Step, Doing
<1>4. CASE Step("wrapline", "scroll", [vga EXCEPT !.y = reg + 1], reg)
  <2>1. /\ pc = "wrapline" /\ pc' = "scroll"
        /\ vga'.y = reg + 1 /\ vga'.x = vga.x /\ vga'.cells = vga.cells
    BY <1>4, StepUpdates DEF Step
  <2>2. vga.x = 0 /\ vga.cells = put.cells /\ put.x >= WIDTH /\ reg = put.y
    BY <2>1 DEF Doing, put
  <2>3. Same(vga', wrapped)
    BY <1>0, <2>1, <2>2 DEF Same
  <2> QED BY <2>1, <2>3 DEF Doing, Same, put, wrapped
<1> QED BY <1>1, <1>2, <1>3, <1>4 DEF WrapSteps

LEMMA ScrollStepsDo ==
  ASSUME vga \in Vga, NEW before \in Vga, NEW c, Wrap(Put(before, c)) \in Vga, Doing(before, c),
         ScrollSteps
  PROVE  pc' # "idle" /\ Doing(before, c)'
<1> USE DEF Moving
<1> DEFINE wrapped == Wrap(Put(before, c))
           moved == Scroll(wrapped)
<1>0. /\ moved.x = wrapped.x
      /\ moved.cells = IF wrapped.y >= HEIGHT
                         THEN CopyUp(wrapped.cells, wrapped.y - HEIGHT + 1) ELSE wrapped.cells
      /\ moved.y = IF wrapped.y >= HEIGHT THEN HEIGHT - 1 ELSE wrapped.y
  BY ScrollParts
<1> HIDE DEF moved, wrapped
<1>1. CASE Step("scroll", IF vga.y >= HEIGHT THEN "temp" ELSE "cursor", vga, reg)
  <2>1. pc = "scroll" /\ pc' = (IF vga.y >= HEIGHT THEN "temp" ELSE "cursor") /\ vga' = vga
    BY <1>1 DEF Step
  <2>2. vga.x = wrapped.x /\ vga.y = wrapped.y /\ vga.cells = wrapped.cells
    BY <2>1 DEF Doing, Same, wrapped
  <2>3. ~(vga.y >= HEIGHT) => Same(vga, moved)
    BY <1>0, <2>2 DEF Same
  <2> QED BY <2>1, <2>2, <2>3 DEF Doing, Same, wrapped, moved
<1>2. CASE Step("temp", "copy", vga, vga.y - HEIGHT + 1)
  BY <1>2 DEF Step, Doing, Same
<1>3. CASE Step("copy", "bottom", [vga EXCEPT !.cells = CopyUp(@, reg)], reg)
  <2>1. [vga EXCEPT !.cells = CopyUp(@, reg)] = [vga EXCEPT !.cells = CopyUp(vga.cells, reg)]
    OBVIOUS
  <2>2. /\ pc = "copy" /\ pc' = "bottom"
        /\ vga'.x = vga.x /\ vga'.cells = CopyUp(vga.cells, reg)
    BY <1>3, <2>1, StepUpdates DEF Step
  <2>3. /\ vga.x = wrapped.x /\ vga.cells = wrapped.cells /\ wrapped.y >= HEIGHT
        /\ reg = wrapped.y - HEIGHT + 1
    BY <2>2 DEF Doing, Same, wrapped
  <2> QED BY <2>2, <2>3 DEF Doing, wrapped
<1>4. CASE Step("bottom", "cursor", [vga EXCEPT !.y = HEIGHT - 1], reg)
  <2>1. /\ pc = "bottom" /\ pc' = "cursor"
        /\ vga'.y = HEIGHT - 1 /\ vga'.x = vga.x /\ vga'.cells = vga.cells
    BY <1>4, StepUpdates DEF Step
  <2>2. /\ vga.x = wrapped.x /\ wrapped.y >= HEIGHT
        /\ vga.cells = CopyUp(wrapped.cells, wrapped.y - HEIGHT + 1)
    BY <2>1 DEF Doing, wrapped
  <2>3. Same(vga', moved)
    BY <1>0, <2>1, <2>2 DEF Same
  <2> QED BY <2>1, <2>3 DEF Doing, Same, wrapped, moved
<1> QED BY <1>1, <1>2, <1>3, <1>4 DEF ScrollSteps

\* The hardware's cursor changes nothing else.
LEMMA CursorStepsDo ==
  ASSUME vga \in Vga, reg \in Int, NEW before \in Vga, NEW c, Doing(before, c), CursorSteps
  PROVE  IF pc' = "idle" THEN Same(vga', Scroll(Wrap(Put(before, c)))) ELSE Doing(before, c)'
<1> USE DEF Moving
<1>1. /\ pc \in Moving /\ pc' \in Moving \cup {"idle"}
      /\ vga' = vga \/ vga' = OutIndex(vga, 14) \/ vga' = OutIndex(vga, 15)
           \/ vga' = OutData(vga, reg \div BYTE) \/ vga' = OutData(vga, reg)
  BY DEF CursorSteps, Step
<1>2. reg \div BYTE \in Int
  BY ScreenConstants
<1>3. Same(vga', vga)
  BY <1>1, <1>2, OutFacts DEF Same
<1>4. Same(vga', Scroll(Wrap(Put(before, c))))
  BY <1>1, <1>3 DEF Doing, Same
<1>5. pc' # "idle" => Doing(before, c)'
  BY <1>1, <1>4 DEF Doing
<1> QED BY <1>4, <1>5

LEMMA SameShows ==
  ASSUME NEW v, NEW w, NEW t, Shows(v, t), Same(w, v)
  PROVE  Shows(w, t)
BY DEF Shows, ShowsFrom, Same

\* The values writech goes through, from a cursor on the screen.
LEMMA WriteParts ==
  ASSUME NEW v \in Vga, NEW c \in MainChar \cup KeyChar, Onscreen(v)
  PROVE  /\ Put(v, c) \in Vga /\ Wrap(Put(v, c)) \in Vga /\ Scroll(Wrap(Put(v, c))) \in Vga
         /\ Same(WriteCh(v, c), Scroll(Wrap(Put(v, c))))
<1>0. c \in Shown /\ v.x <= WIDTH /\ v.y \in 0 .. HEIGHT
  BY ScreenConstants, CharsAreShown DEF Onscreen
<1> DEFINE v1 == Put(v, c)
           v2 == Wrap(v1)
           v3 == Scroll(v2)
<1>1. v1 \in Vga /\ v1.y \in v.y .. v.y + 1 /\ (v1.y = v.y + 1 => v1.x = 0)
  BY <1>0, PutFacts
<1>2. WriteCh(v, c) = MoveCsr(v3)
  BY DEF WriteCh
<1> HIDE DEF v1
<1>3. v2 \in Vga /\ v2.y = IF v1.x >= WIDTH THEN v1.y + 1 ELSE v1.y
  BY <1>1, WrapFacts
<1>4. v2.y \in 0 .. HEIGHT + 1
  BY <1>0, <1>1, <1>3, ScreenConstants
<1> HIDE DEF v2
<1>5. v3 \in Vga
  BY <1>3, <1>4, ScrollFacts
<1> HIDE DEF v3
<1>6. Same(WriteCh(v, c), v3)
  BY <1>2, <1>5, MoveCsrFacts DEF Same
<1> QED BY <1>1, <1>3, <1>5, <1>6 DEF v1, v2, v3

LEMMA ShowInvStep == ScreenInv /\ ShowInv /\ [Next]_vars => ShowInv'
<1> SUFFICES ASSUME ScreenInv, ShowInv, [Next]_vars, torn' = "none" PROVE ShowInv'
  BY DEF ShowInv
<1>0. /\ vga \in Vga /\ reg \in Int /\ text \in Text
      /\ pc = "idle" /\ torn = "none" => Onscreen(vga)
  <2>1. vga \in Vga /\ vga.x \in Int /\ vga.y \in Int
    BY VgaFacts DEF ScreenInv, ScreenTypes
  <2> QED BY <2>1, ScreenConstants DEF ScreenInv, ScreenTypes, CursorInv, Scrolling, Onscreen, Text
<1>1. CASE UNCHANGED vars
  BY <1>1 DEF vars, historyVars, ShowInv, Doing
<1>2. ASSUME NEW c \in KeyChar, Key(c) PROVE ShowInv'
  <2>1. /\ pc = "idle" /\ pc' = "idle" /\ torn = "none"
        /\ vga' = WriteCh(vga, c) /\ text' = Append(text, c)
    BY <1>2 DEF Key
  <2>2. Shows(vga, text) /\ Onscreen(vga)
    BY <1>0, <2>1 DEF ShowInv
  <2>3. Shows(Scroll(Wrap(Put(vga, c))), Append(text, c))
    BY <1>0, <2>2, WriteShows DEF Onscreen
  <2>4. Shows(vga', text')
    BY <1>0, <2>1, <2>2, <2>3, WriteParts, SameShows
  <2> QED BY <2>1, <2>4 DEF ShowInv
<1>3. ASSUME NEW c \in MainChar, Begin(c) PROVE ShowInv'
  <2>1. /\ pc = "idle" /\ torn = "none" /\ vga' = vga /\ reg' = reg
        /\ ch' = c /\ text' = Append(text, c)
        /\ pc' = CASE c = Backspace -> "back" [] c = Tab -> "tab" [] c = Return -> "column0"
                   [] c = Newline -> "column0" [] OTHER -> "row"
    BY <1>3 DEF Begin
  <2>2. Shows(vga, text) /\ Onscreen(vga)
    BY <1>0, <2>1 DEF ShowInv
  <2>3. /\ pc' \in {"back", "tab", "column0", "row"}
        /\ pc' = "back" => c = Backspace
        /\ pc' = "tab" => c = Tab
        /\ pc' = "column0" => c \in {Return, Newline}
        /\ pc' = "row" => c \notin Movement
    <3> USE DEF Backspace, Tab, Return, Newline, Movement
    <3>1. CASE c = Backspace
      BY <2>1, <3>1
    <3>2. CASE c = Tab
      BY <2>1, <3>2
    <3>3. CASE c \in {Return, Newline}
      BY <2>1, <3>3
    <3>4. CASE c \notin Movement
      BY <2>1, <3>4
    <3> QED BY <3>1, <3>2, <3>3, <3>4
  <2>4. PICK before \in Vga, t \in Text : before = vga /\ t = text
    BY <1>0
  <2>5. Doing(before, c)'
    BY <2>1, <2>3, <2>4 DEF Doing, Same, Moving
  <2> QED BY <2>1, <2>2, <2>3, <2>4, <2>5 DEF ShowInv
<1>4. ASSUME PutSteps \/ WrapSteps \/ ScrollSteps \/ CursorSteps PROVE ShowInv'
  <2>1. torn = "none" /\ pc # "idle" /\ ch' = ch /\ text' = text
    BY <1>4 DEF PutSteps, WrapSteps, ScrollSteps, CursorSteps, Step, historyVars
  <2>2. PICK before \in Vga, t \in Text, c \in MainChar :
          /\ ch = c /\ text = Append(t, c)
          /\ Onscreen(before) /\ Shows(before, t) /\ Doing(before, c)
    BY <2>1 DEF ShowInv
  <2>3. Put(before, c) \in Vga /\ Wrap(Put(before, c)) \in Vga
    BY <2>2, WriteParts
  <2>4. IF pc' = "idle" THEN Same(vga', Scroll(Wrap(Put(before, c)))) ELSE Doing(before, c)'
    <3>1. CASE PutSteps
      BY <1>0, <2>2, <3>1, PutStepsDo
    <3>2. CASE WrapSteps
      BY <1>0, <2>2, <2>3, <3>2, WrapStepsDo
    <3>3. CASE ScrollSteps
      BY <1>0, <2>2, <2>3, <3>3, ScrollStepsDo
    <3>4. CASE CursorSteps
      BY <1>0, <2>2, <3>4, CursorStepsDo
    <3> QED BY <1>4, <3>1, <3>2, <3>3, <3>4
  <2>5. CASE pc' = "idle"
    <3>1. Shows(Scroll(Wrap(Put(before, c))), Append(t, c))
      BY <2>2, WriteShows DEF Onscreen
    <3>2. Shows(vga', text')
      BY <2>1, <2>2, <2>4, <2>5, <3>1, SameShows
    <3> QED BY <2>5, <3>2 DEF ShowInv
  <2>6. CASE pc' # "idle"
    BY <2>1, <2>2, <2>4, <2>6 DEF ShowInv
  <2> QED BY <2>5, <2>6
<1> QED BY <1>1, <1>2, <1>3, <1>4 DEF Next

\* Nothing is written yet.
LEMMA ShowInvStart == Init => ShowInv
<1> SUFFICES ASSUME Init PROVE Shows(vga, text)
  BY DEF Init, ShowInv
<1> DEFINE start == [row |-> FIRST_ROW, col |-> 0]
           t == << >>
<1>1. /\ text = t /\ Len(t) = 0 /\ vga.x = 0 /\ vga.y = FIRST_ROW
      /\ vga.cells = [i \in Cell |-> Old]
  BY DEF Init
<1> HIDE DEF t
<1>2. \E f : IsPlaces(t, f)
  <2> DEFINE f == [n \in 0 .. 0 |-> start]
             rhs == [n \in 0 .. 0 |-> IF n = 0 THEN start ELSE NextPlace(f[n - 1], t[n])]
  <2>1. \A n \in 0 .. 0 : f[n] = rhs[n]
    OBVIOUS
  <2>2. f = rhs
    BY <2>1
  <2>3. IsPlaces(t, f)
    BY <1>1, <2>2 DEF IsPlaces
  <2> QED BY <2>3
<1>3. ASSUME NEW f, IsPlaces(t, f) PROVE LaidOut(t, f) /\ ShowsFrom(vga, t, f, Top(f[Len(t)].row))
  <2>1. f[0] = start
    BY <1>1, <1>3 DEF IsPlaces
  <2>2. \A row, col : At(t, f, row, col) = {}
    BY <1>1 DEF At
  <2>3. LaidOut(t, f)
    BY <1>1, <2>1, <2>2, ScreenConstants DEF LaidOut
  <2>4. Top(f[Len(t)].row) = 0
    BY <1>1, <2>1, ScreenConstants DEF Top
  <2>5. ASSUME NEW row \in 0 .. HEIGHT - 1, NEW col \in 0 .. WIDTH - 1
        PROVE  vga.cells[row * WIDTH + col] = SheetOf(t, f, 0 + row, col)
    <3>1. PICK i : i = row * WIDTH + col
      OBVIOUS
    <3>2. i \in 0 .. WIDTH * HEIGHT - 1
      BY <3>1, PlaceOnScreen
    <3>3. i \in Cell
      BY <3>2, ScreenConstants
    <3>4. vga.cells[i] = Old
      BY <1>1, <3>3
    <3>5. 0 + row < HEIGHT
      BY ScreenConstants
    <3> QED BY <2>2, <3>1, <3>4, <3>5 DEF SheetOf
  <2>6. ShowsFrom(vga, t, f, 0)
    BY <1>1, <2>1, <2>5, ScreenConstants DEF ShowsFrom
  <2> QED BY <2>3, <2>4, <2>6
<1> QED BY <1>1, <1>2, <1>3 DEF Shows

\* Places of the model is such a function.
LEMMA PlacesArePlaces == (\E f : IsPlaces(text, f)) => IsPlaces(text, Places)
BY DEF Places, IsPlaces, NextPlace

\* ShowsTheText: unless a key came in the middle of a call, the screen shows
\* the last rows of what was written, each character in its place, and nothing
\* else.
THEOREM ScreenShowsTheText == Spec => []ShowsTheText
<1>1. ShowInv => ShowsTheText
  <2> SUFFICES ASSUME Shows(vga, text), NEW row \in 0 .. HEIGHT - 1, NEW col \in 0 .. WIDTH - 1
               PROVE  vga.cells[row * WIDTH + col] = Sheet(TopRow + row, col)
    BY DEF ShowInv, ShowsTheText
  <2>1. IsPlaces(text, Places)
    BY PlacesArePlaces DEF Shows
  <2>2. ShowsFrom(vga, text, Places, TopRow)
    BY <2>1 DEF Shows, TopRow, Top
  <2>3. vga.cells[row * WIDTH + col] = SheetOf(text, Places, TopRow + row, col)
    BY <2>2 DEF ShowsFrom
  <2> QED BY <2>3 DEF Sheet, SheetOf, At
<1> QED BY <1>1, ShowInvStart, ScreenInvariant, ShowInvStep, PTL DEF Spec
=============================================================================
