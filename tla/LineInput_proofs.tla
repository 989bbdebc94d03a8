-------------------------- MODULE LineInput_proofs --------------------------
(***************************************************************************)
(* Proofs for LineInput: no handler writes outside the caller's buffer, or *)
(* to it when kgets has returned, for every size of line, every set of     *)
(* characters and any number of keys.                                      *)
(***************************************************************************)
EXTENDS LineInput, TLAPS

\* Where the handler may be in place, and where kgets_want has been set.
Reading == {"full", "newline", "hlt", "halted", "terminate", "store", "disarm"}
Places == {"shell", "reset", "want", "clear", "arm", "return"} \cup Reading

\* LineTypeOK is not inductive alone: that the handler stays within the buffer
\* needs that kgets_want is the caller's size while the handler is in place,
\* which is so because it goes in after the assignment and out before the
\* return.
LineInv ==
  /\ LineTypeOK
  /\ pc \in Places
  /\ armed => pc \in Reading
  /\ armed \/ pc = "arm" => want = Size

\* A key leaves the line's words what they are, whatever it is.
LEMMA HandledKeepsType ==
  ASSUME LineInv, armed, NEW ch \in Char, Handled(ch), UNCHANGED <<armed, want, end, line>>
  PROVE  LineTypeOK'
<1>1. /\ Size \in Nat \ {0} /\ MaxKeys \in Nat
      /\ want = Size /\ collected \in 0 .. Size
      /\ buffer \in [0 .. Size -> Printable \cup {Nul}]
      /\ typed \in Seq(Char)
  BY LineAssumption DEF LineInv, LineTypeOK
<1>2. /\ buffer' \in [0 .. Size -> Printable \cup {Nul}]
      /\ collected' \in 0 .. Size /\ newline' \in BOOLEAN
  <2>1. CASE ch = Backspace /\ collected # 0 /\ KgetsHandler(ch)
    BY <1>1, <2>1 DEF KgetsHandler, Collect, lineVars, LineInv, LineTypeOK, Backspace, Newline, Control
  <2>2. CASE ch \in Printable /\ Collect(ch)
    BY <1>1, <2>2 DEF Collect, LineInv, LineTypeOK
  <2>3. CASE newline' \in BOOLEAN /\ UNCHANGED <<buffer, collected>>
    BY <1>1, <2>3
  <2>4. QED
    BY <2>1, <2>2, <2>3 DEF Handled, KgetsHandler, lineVars, LineInv, LineTypeOK
<1>3. typed' \in Seq(Char) /\ Len(typed') <= MaxKeys
  BY <1>1 DEF Handled
<1>4. late' \in BOOLEAN
  BY DEF Handled
<1>5. QED
  BY <1>1, <1>2, <1>3, <1>4 DEF LineInv, LineTypeOK

\* The serial handler passes on keys of the same kinds.
LEMMA FromSerialIsChar == ASSUME NEW c \in Serial PROVE FromSerial(c) \in Char
BY DEF Serial, FromSerial, Char

\* An interrupt, the key handled or not.
LEMMA InterruptKeepsInv ==
  ASSUME LineInv, Resume, UNCHANGED <<armed, want, end, line>>,
         \/ armed /\ \E ch \in Char : Handled(ch)
         \/ UNCHANGED <<lineVars, historyVars>>
  PROVE  LineInv'
<1>1. LineTypeOK'
  <2>1. CASE armed /\ \E ch \in Char : Handled(ch)
    BY <2>1, HandledKeepsType
  <2>2. CASE UNCHANGED <<lineVars, historyVars>>
    BY <2>2 DEF LineInv, LineTypeOK, lineVars, historyVars
  <2>3. QED
    BY <2>1, <2>2
<1>2. QED
  BY <1>1 DEF LineInv, Resume, Places, Reading

\* Every statement of kgets and every interrupt keeps the invariant.
LEMMA LineStep == LineInv /\ [Next]_vars => LineInv'
<1> SUFFICES ASSUME LineInv, [Next]_vars PROVE LineInv'
  OBVIOUS
<1> USE LineAssumption
<1>1. CASE Main
  <2> USE DEF LineInv, LineTypeOK, Places, Reading, Goto, lineVars, historyVars
  <2>1. CASE Call
    <3>1. typed' = <<>> /\ typed' \in Seq(Char) /\ Len(typed') <= MaxKeys
      BY <2>1 DEF Call
    <3>2. QED
      BY <2>1, <3>1 DEF Call
  <2>2. CASE ResetCollected
    BY <2>2 DEF ResetCollected
  <2>3. CASE SetWant
    BY <2>3 DEF SetWant
  <2>4. CASE ClearNewline
    BY <2>4 DEF ClearNewline
  <2>5. CASE Arm
    BY <2>5 DEF Arm
  <2>6. CASE TestFull
    BY <2>6 DEF TestFull
  <2>7. CASE TestNewline
    BY <2>7 DEF TestNewline
  <2>8. CASE Hlt
    BY <2>8 DEF Hlt
  <2>9. CASE LoadEnd
    BY <2>9 DEF LoadEnd
  <2>10. CASE Terminate
    <3>1. buffer' \in [0 .. Size -> Printable \cup {Nul}]
      BY <2>10 DEF Terminate
    <3>2. QED
      BY <2>10, <3>1 DEF Terminate
  <2>11. CASE Disarm
    BY <2>11 DEF Disarm
  <2>12. CASE Return
    BY <2>12 DEF Return
  <2>13. QED
    BY <1>1, <2>1, <2>2, <2>3, <2>4, <2>5, <2>6, <2>7, <2>8, <2>9, <2>10, <2>11, <2>12 DEF Main
<1>2. CASE \E ch \in Char : KeyboardIrq(ch)
  BY <1>2, InterruptKeepsInv DEF KeyboardIrq
<1>3. CASE \E c \in Serial : SerialIrq(c)
  <2>1. PICK c \in Serial : SerialIrq(c)
    BY <1>3
  <2>2. \/ armed /\ \E ch \in Char : Handled(ch)
        \/ UNCHANGED <<lineVars, historyVars>>
    BY <2>1, FromSerialIsChar DEF SerialIrq
  <2>3. QED
    BY <2>1, <2>2, InterruptKeepsInv DEF SerialIrq
<1>4. CASE TimerIrq
  BY <1>4, InterruptKeepsInv DEF TimerIrq
<1>5. CASE UNCHANGED vars
  BY <1>5 DEF vars, lineVars, historyVars, LineInv, LineTypeOK
<1>6. QED
  BY <1>1, <1>2, <1>3, <1>4, <1>5 DEF Next

\* kgets and its handler: the inductive invariant holds in every reachable
\* state.
THEOREM LineInvariant == Spec => []LineInv
<1>1. Init => LineInv
  BY LineAssumption DEF Init, LineInv, LineTypeOK, Places, Reading
<1>2. QED
  BY <1>1, LineStep, PTL DEF Spec

\* Between kgets' test and the handler's (kprintf.c:123) any number of keys may
\* come: still nothing is written outside the Size + 1 bytes of the buffer.
THEOREM LineTypeCorrect == Spec => []LineTypeOK
<1>1. LineInv => LineTypeOK
  BY DEF LineInv
<1>2. QED
  BY <1>1, LineInvariant, PTL

\* BufferLeftAlone: nothing writes to the caller's buffer from the removal of
\* the handler (kprintf.c:139) until the next call has it in place again.
THEOREM LineBufferLeftAlone == Spec => BufferLeftAlone
<1>1. LineInv /\ [Next]_vars => [QuietStep]_vars
  <2> SUFFICES ASSUME LineInv, Next, pc \in {"return", "shell", "reset", "want", "clear", "arm"}
               PROVE  buffer' = buffer
    BY DEF QuietStep
  <2>1. ~armed
    BY DEF LineInv, Reading
  <2>2. CASE Main
    BY <2>2 DEF Main, Call, ResetCollected, SetWant, ClearNewline, Arm, TestFull, TestNewline,
                Hlt, LoadEnd, Terminate, Disarm, Return, Goto, lineVars
  <2>3. CASE ~Main
    BY <2>1, <2>3 DEF Next, KeyboardIrq, SerialIrq, TimerIrq, lineVars
  <2>4. QED
    BY <2>2, <2>3
<1>2. QED
  BY <1>1, LineInvariant, PTL DEF Spec, BufferLeftAlone
-----------------------------------------------------------------------------
(* What is collected.  Edit is defined by a recursion over the keys, which  *)
(* no step needs to be unfolded of but the last: it is enough to know that  *)
(* the recursion has a value, and what a text becomes with one key more.    *)

OneKey(text, key) ==
  IF key = Backspace THEN SubSeq(text, 1, Len(text) - 1)
  ELSE IF key \in Printable /\ Len(text) < Size THEN Append(text, key)
  ELSE text

IsEdit(keys, after) ==
  after = [n \in 0 .. Len(keys) |-> IF n = 0 THEN <<>> ELSE OneKey(after[n - 1], keys[n])]

\* The keys amount to the text.
EditIs(keys, text) ==
  /\ \E after : IsEdit(keys, after)
  /\ \A after : IsEdit(keys, after) => after[Len(keys)] = text

LEMMA EditOf == ASSUME NEW keys, NEW text, EditIs(keys, text) PROVE Edit(keys) = text
<1> DEFINE after == CHOOSE f : IsEdit(keys, f)
<1>1. IsEdit(keys, after) /\ after[Len(keys)] = text
  BY DEF EditIs
<1>2. Edit(keys) = after[Len(keys)]
  BY DEF Edit, IsEdit, OneKey
<1> QED BY <1>1, <1>2

LEMMA EditStart == EditIs(<<>>, <<>>)
<1> DEFINE f == [n \in 0 .. 0 |-> <<>>]
<1>1. Len(<<>>) = 0
  OBVIOUS
<1>2. IsEdit(<<>>, f)
  BY <1>1 DEF IsEdit
<1>3. \A g : IsEdit(<<>>, g) => g[0] = <<>>
  BY <1>1 DEF IsEdit
<1> QED BY <1>1, <1>2, <1>3 DEF EditIs

LEMMA EditKey ==
  ASSUME NEW keys \in Seq(Char), NEW text, EditIs(keys, text), NEW ch \in Char
  PROVE  EditIs(Append(keys, ch), OneKey(text, ch))
<1> DEFINE more == Append(keys, ch)
           L == Len(keys)
<1>1. /\ L \in Nat /\ Len(more) = L + 1 /\ more[L + 1] = ch
      /\ \A n \in 1 .. L : more[n] = keys[n]
  OBVIOUS
<1> HIDE DEF more, L
<1>2. \E g : IsEdit(more, g)
  <2>1. PICK f : IsEdit(keys, f)
    BY DEF EditIs
  <2> DEFINE g == [n \in 0 .. L + 1 |-> IF n = L + 1 THEN OneKey(f[L], ch) ELSE f[n]]
             rhs == [n \in 0 .. L + 1 |-> IF n = 0 THEN <<>> ELSE OneKey(g[n - 1], more[n])]
  <2>2. \A n \in 0 .. L : f[n] = IF n = 0 THEN <<>> ELSE OneKey(f[n - 1], keys[n])
    BY <1>1, <2>1 DEF IsEdit, L
  <2>3. \A n \in 0 .. L + 1 : g[n] = rhs[n]
    <3> SUFFICES ASSUME NEW n \in 0 .. L + 1
                 PROVE  g[n] = IF n = 0 THEN <<>> ELSE OneKey(g[n - 1], more[n])
      BY <1>1
    <3>1. CASE n = L + 1
      <4>1. n # 0 /\ n - 1 \in 0 .. L /\ n - 1 # L + 1 /\ n - 1 = L
        BY <1>1, <3>1
      <4> QED BY <1>1, <3>1, <4>1
    <3>2. CASE n # L + 1
      <4>1. n \in 0 .. L /\ (n # 0 => n - 1 \in 0 .. L /\ n - 1 # L + 1 /\ n \in 1 .. L)
        BY <1>1, <3>2
      <4> QED BY <1>1, <2>2, <3>2, <4>1
    <3> QED BY <3>1, <3>2
  <2>4. g = rhs
    BY <2>3
  <2> QED BY <1>1, <2>4 DEF IsEdit
<1>3. ASSUME NEW g, IsEdit(more, g)
      PROVE  g[L + 1] = OneKey(text, ch)
  <2>1. \A n \in 0 .. L + 1 : g[n] = IF n = 0 THEN <<>> ELSE OneKey(g[n - 1], more[n])
    BY <1>1, <1>3 DEF IsEdit
  <2> DEFINE f == [n \in 0 .. L |-> g[n]]
             rhs == [n \in 0 .. L |-> IF n = 0 THEN <<>> ELSE OneKey(f[n - 1], keys[n])]
  <2>2. \A n \in 0 .. L : f[n] = rhs[n]
    <3> SUFFICES ASSUME NEW n \in 0 .. L
                 PROVE  g[n] = IF n = 0 THEN <<>> ELSE OneKey(f[n - 1], keys[n])
      BY <1>1
    <3>1. n \in 0 .. L + 1 /\ (n # 0 => n - 1 \in 0 .. L /\ n \in 1 .. L)
      BY <1>1
    <3> QED BY <1>1, <2>1, <3>1
  <2>3. IsEdit(keys, f)
    <3>1. f = rhs
      BY <2>2
    <3> QED BY <3>1 DEF IsEdit, L
  <2>4. g[L] = text
    <3>1. f[L] = text
      BY <2>3 DEF EditIs, L
    <3> QED BY <1>1, <3>1
  <2>5. L + 1 \in 0 .. L + 1 /\ L + 1 # 0 /\ L + 1 - 1 = L
    BY <1>1
  <2> QED BY <1>1, <2>1, <2>4, <2>5
<1>4. EditIs(more, OneKey(text, ch))
  BY <1>1, <1>2, <1>3 DEF EditIs
<1> QED BY <1>4 DEF more

\* The keys of the next state are keys as any others.
LEMMA EditPrimed == ASSUME NEW text, EditIs(typed', text) PROVE EditIs(typed, text)'
BY DEF EditIs, IsEdit, OneKey

LEMMA TextFacts ==
  ASSUME LineTypeOK
  PROVE  /\ Text(collected) \in Seq(Printable \cup {Nul}) /\ Len(Text(collected)) = collected
         /\ \A i \in 1 .. collected : Text(collected)[i] = buffer[i - 1]
<1>1. collected \in 0 .. Size /\ buffer \in [0 .. Size -> Printable \cup {Nul}] /\ Size \in Nat
  BY LineAssumption DEF LineTypeOK
<1>2. \A i \in 1 .. collected : buffer[i - 1] \in Printable \cup {Nul}
  BY <1>1
<1>3. Text(collected) \in [1 .. collected -> Printable \cup {Nul}]
  BY <1>2 DEF Text
<1>4. Text(collected) \in Seq(Printable \cup {Nul}) /\ Len(Text(collected)) = collected
  BY <1>1, <1>3
<1> QED BY <1>4 DEF Text

\* The buffer holds the text, but for what the terminator has replaced.
Matches(text) ==
  /\ text \in Seq(Printable \cup {Nul})
  /\ Len(text) = collected
  /\ \A i \in 1 .. collected : buffer[i - 1] = text[i] \/ Replaced(i)

\* kgets_handler does to what is collected what the key does to the text.
LEMMA HandlerEdits ==
  ASSUME LineInv, LineTypeOK', armed, NEW ch \in Char, Handled(ch), Resume, UNCHANGED end,
         pc \in Terminated => late',
         NEW text, Matches(text)
  PROVE  Matches(OneKey(text, ch))'
<1> DEFINE c == collected
           t == OneKey(text, ch)
<1>1. /\ want = Size /\ Size \in Nat /\ c \in 0 .. Size /\ end \in 0 .. Size
      /\ buffer \in [0 .. Size -> Printable \cup {Nul}]
  BY LineAssumption DEF LineInv, LineTypeOK
<1>2. /\ text \in Seq(Printable \cup {Nul}) /\ Len(text) = c
      /\ \A i \in 1 .. c : buffer[i - 1] = text[i] \/ Replaced(i)
  BY DEF Matches
<1>3. /\ Backspace \notin Printable /\ Newline \notin Printable /\ Control \notin Printable
      /\ Newline # Backspace /\ Control # Backspace
  BY PrintableAssumption DEF Backspace, Newline, Control
<1>4. KgetsHandler(ch)
  BY DEF Handled
\* What a key leaves where it is stays as much replaced as it was.
<1>5. ASSUME NEW i \in 1 .. c, buffer'[i - 1] = buffer[i - 1]
      PROVE  buffer'[i - 1] = text[i] \/ Replaced(i)'
  <2>1. CASE buffer[i - 1] = text[i]
    BY <1>5, <2>1
  <2>2. CASE Replaced(i)
    <3>1. pc \in Terminated /\ i = end + 1 /\ buffer[end] = Nul /\ i - 1 = end
      BY <1>1, <2>2 DEF Replaced
    <3>2. pc' = pc /\ end' = end /\ late'
      BY <3>1 DEF Resume, Terminated
    <3> QED BY <1>5, <3>1, <3>2 DEF Replaced
  <2> QED BY <1>2, <2>1, <2>2
<1> HIDE DEF c, t
<1>6. CASE ch = Backspace /\ c # 0
  <2>1. collected' = c - 1 /\ buffer' = [buffer EXCEPT ![c] = Nul]
    BY <1>3, <1>4, <1>6 DEF KgetsHandler, c
  <2>2. /\ SubSeq(text, 1, c - 1) \in Seq(Printable \cup {Nul}) /\ Len(SubSeq(text, 1, c - 1)) = c - 1
        /\ \A i \in 1 .. c - 1 : SubSeq(text, 1, c - 1)[i] = text[i]
    BY <1>1, <1>2, <1>6
  <2>3. t = SubSeq(text, 1, c - 1)
    BY <1>2, <1>6 DEF OneKey, t
  <2>4. ASSUME NEW i \in 1 .. c - 1 PROVE buffer'[i - 1] = t[i] \/ Replaced(i)'
    <3>1. i \in 1 .. c /\ i - 1 \in 0 .. Size /\ i - 1 # c
      BY <1>1, <1>6
    <3>2. buffer'[i - 1] = buffer[i - 1]
      BY <1>1, <2>1, <3>1
    <3> QED BY <1>5, <2>2, <2>3, <3>1, <3>2
  <2> QED BY <2>1, <2>2, <2>3, <2>4 DEF Matches, t
<1>7. CASE ch \in Printable /\ c < Size
  <2>1. collected' = c + 1 /\ buffer' = [buffer EXCEPT ![c] = ch]
    BY <1>1, <1>3, <1>4, <1>7 DEF KgetsHandler, Collect, c
  <2>2. /\ Append(text, ch) \in Seq(Printable \cup {Nul}) /\ Len(Append(text, ch)) = c + 1
        /\ \A i \in 1 .. c : Append(text, ch)[i] = text[i]
        /\ Append(text, ch)[c + 1] = ch
    BY <1>1, <1>2, <1>7
  <2>3. t = Append(text, ch)
    BY <1>2, <1>3, <1>7 DEF OneKey, t
  <2>4. ASSUME NEW i \in 1 .. c + 1 PROVE buffer'[i - 1] = t[i] \/ Replaced(i)'
    <3>1. CASE i = c + 1
      <4>1. i - 1 = c /\ c \in 0 .. Size
        BY <1>1, <3>1
      <4> QED BY <1>1, <2>1, <2>2, <2>3, <3>1, <4>1
    <3>2. CASE i # c + 1
      <4>1. i \in 1 .. c /\ i - 1 \in 0 .. Size /\ i - 1 # c
        BY <1>1, <3>2
      <4>2. buffer'[i - 1] = buffer[i - 1]
        BY <1>1, <2>1, <4>1
      <4> QED BY <1>5, <2>2, <2>3, <4>1, <4>2
    <3> QED BY <3>1, <3>2
  <2> QED BY <2>1, <2>2, <2>3, <2>4 DEF Matches, t
<1>8. CASE ~(ch = Backspace /\ c # 0) /\ ~(ch \in Printable /\ c < Size)
  <2>1. UNCHANGED <<buffer, collected>>
    BY <1>1, <1>3, <1>4, <1>8 DEF KgetsHandler, Collect, c, lineVars
  <2>2. ch = Backspace => SubSeq(text, 1, Len(text) - 1) = text
    BY <1>2, <1>8
  <2>3. t = text
    BY <1>2, <1>8, <2>2 DEF OneKey, t
  <2>4. \A i \in 1 .. c : buffer'[i - 1] = text[i] \/ Replaced(i)'
    BY <1>5, <2>1
  <2> QED BY <1>2, <2>1, <2>3, <2>4 DEF Matches, c, t
<1> QED BY <1>6, <1>7, <1>8

\* The keys so far amount to what is collected, from before the handler is in
\* place until the next line.  The index of the terminator is where the text
\* ends, and the terminator stays there, unless a late key comes.
SpeltInv == \E text : EditIs(typed, text) /\ Matches(text)

Returned == pc = "shell" /\ want # 0

CollectInv ==
  /\ pc = "reset" => typed = <<>>
  /\ pc \in {"want", "clear"} => typed = <<>> /\ collected = 0
  /\ pc \in Collecting \cup Terminated => SpeltInv
  /\ pc = "store" => late \/ end = collected
  /\ pc \in Terminated \/ Returned => late \/ buffer[collected] = Nul
  /\ Returned => line = collected /\ (late \/ SpeltInv)

\* What is spelt stays so while the words it depends on do, wherever kgets
\* goes, if no replaced character is taken for one that is not.
LEMMA SpeltStays ==
  ASSUME SpeltInv, UNCHANGED <<typed, buffer, collected>>,
         \A i \in 1 .. collected : Replaced(i) => Replaced(i)'
  PROVE  SpeltInv'
<1>1. PICK text : EditIs(typed, text) /\ Matches(text)
  BY DEF SpeltInv
<1>2. EditIs(typed, text)'
  <2>1. EditIs(typed', text)
    BY <1>1
  <2> QED BY <2>1, EditPrimed
<1>3. Matches(text)'
  BY <1>1 DEF Matches
<1> QED BY <1>2, <1>3 DEF SpeltInv

LEMMA HandledKeepsCollected ==
  ASSUME LineInv, LineInv', CollectInv, armed, NEW ch \in Char, Handled(ch), Resume,
         UNCHANGED <<armed, want, end, line>>
  PROVE  CollectInv'
<1>1. /\ pc \in Reading /\ pc' \in Reading /\ typed \in Seq(Char)
      /\ pc \in Collecting \cup Terminated
  BY DEF LineInv, LineTypeOK, Collecting, Terminated, Resume, Reading
<1>2. /\ pc \in Terminated => late'
      /\ pc' \in {"store", "disarm"} => late'
  BY <1>1 DEF Resume, Handled, Over, Terminated, Reading
<1>3. SpeltInv'
  <2>1. PICK text : EditIs(typed, text) /\ Matches(text)
    BY <1>1 DEF CollectInv, SpeltInv
  <2>2. Matches(OneKey(text, ch))'
    BY <1>2, <2>1, HandlerEdits DEF LineInv
  <2>3. typed' = Append(typed, ch)
    BY DEF Handled
  <2>4. EditIs(typed', OneKey(text, ch))
    BY <1>1, <2>1, <2>3, EditKey
  <2>5. PICK more : more = OneKey(text, ch)
    OBVIOUS
  <2>6. EditIs(typed, more)'
    <3>1. EditIs(typed', more)
      BY <2>4, <2>5
    <3> QED BY <3>1, EditPrimed
  <2>7. Matches(more)'
    BY <2>2, <2>5
  <2> QED BY <2>6, <2>7 DEF SpeltInv
<1> QED BY <1>1, <1>2, <1>3 DEF CollectInv, Returned, Reading, Terminated

\* Interrupts that find no handler, and the statements of kgets that leave the
\* buffer alone.
LEMMA OthersKeepCollected ==
  ASSUME LineInv, CollectInv, UNCHANGED <<buffer, collected, want, line, typed, late>>,
         \/ pc' = pc /\ UNCHANGED end
         \/ pc \in Collecting /\ pc' \in Collecting \ {"store"}
         \/ pc = "terminate" /\ pc' = "store" /\ end' = collected
         \/ pc = "disarm" /\ pc' = "return" /\ UNCHANGED end
  PROVE  CollectInv'
<1>1. ASSUME SpeltInv PROVE SpeltInv'
  <2>1. \A i \in 1 .. collected : Replaced(i) => Replaced(i)'
    BY DEF Replaced, Collecting, Terminated
  <2> QED BY <1>1, <2>1, SpeltStays
<1> QED BY <1>1 DEF CollectInv, Returned, Collecting, Terminated

LEMMA CollectStep == LineInv /\ LineInv' /\ CollectInv /\ [Next]_vars => CollectInv'
<1> SUFFICES ASSUME LineInv, LineInv', CollectInv, [Next]_vars PROVE CollectInv'
  OBVIOUS
<1>0. LineTypeOK /\ Size \in Nat \ {0}
  BY LineAssumption DEF LineInv
<1>1. CASE Main
  <2>1. CASE Call
    BY <2>1 DEF Call, Goto, CollectInv, Returned, Collecting, Terminated
  <2>2. CASE ResetCollected
    BY <2>2 DEF ResetCollected, Goto, historyVars, CollectInv, Returned, Collecting, Terminated
  <2>3. CASE SetWant
    BY <2>3 DEF SetWant, Goto, lineVars, historyVars, CollectInv, Returned, Collecting, Terminated
  <2>4. CASE ClearNewline
    <3>1. pc' = "arm" /\ typed' = <<>> /\ collected' = 0
      BY <2>4 DEF ClearNewline, Goto, historyVars, CollectInv
    <3>2. Matches(<<>>)'
      BY <3>1 DEF Matches
    <3>3. EditIs(typed, <<>>)'
      <4>1. EditIs(typed', <<>>)
        BY <3>1, EditStart
      <4> QED BY <4>1, EditPrimed
    <3>4. SpeltInv'
      BY <3>2, <3>3 DEF SpeltInv
    <3> QED BY <3>1, <3>4 DEF CollectInv, Returned, Collecting, Terminated
  <2>5. CASE Arm
    BY <2>5, OthersKeepCollected DEF Arm, Goto, lineVars, historyVars, Collecting
  <2>6. CASE TestFull
    BY <2>6, OthersKeepCollected DEF TestFull, Goto, lineVars, historyVars, Collecting
  <2>7. CASE TestNewline
    BY <2>7, OthersKeepCollected DEF TestNewline, Goto, lineVars, historyVars, Collecting
  <2>8. CASE Hlt
    BY <2>8, OthersKeepCollected DEF Hlt, Goto, lineVars, historyVars, Collecting
  <2>9. CASE LoadEnd
    BY <2>9, OthersKeepCollected DEF LoadEnd, Goto, lineVars, historyVars
  <2>10. CASE Terminate
    <3>1. /\ pc = "store" /\ pc' = "disarm" /\ buffer' = [buffer EXCEPT ![end] = Nul]
          /\ UNCHANGED <<collected, typed, late, end>>
      BY <2>10 DEF Terminate, Goto, historyVars
    <3>2. /\ collected \in 0 .. Size /\ end \in 0 .. Size
          /\ buffer \in [0 .. Size -> Printable \cup {Nul}]
      BY <1>0 DEF LineTypeOK
    <3>3. late \/ end = collected
      BY <3>1 DEF CollectInv
    <3>4. buffer'[end] = Nul /\ \A k \in 0 .. Size : k # end => buffer'[k] = buffer[k]
      BY <3>1, <3>2
    <3>5. PICK text : EditIs(typed, text) /\ Matches(text)
      BY <3>1 DEF CollectInv, SpeltInv, Collecting
    <3>6. ASSUME NEW i \in 1 .. collected
          PROVE  buffer'[i - 1] = text[i] \/ Replaced(i)'
      <4>1. i - 1 \in 0 .. Size /\ buffer[i - 1] = text[i] /\ i - 1 # collected
        BY <1>0, <3>1, <3>2, <3>5 DEF Matches, Replaced, Terminated
      <4>2. CASE i - 1 # end
        BY <3>4, <4>1, <4>2
      <4>3. CASE i - 1 = end
        <5>1. late /\ i = end + 1
          BY <3>2, <3>3, <4>1, <4>3
        <5> QED BY <3>1, <3>4, <5>1 DEF Replaced, Terminated
      <4> QED BY <4>2, <4>3
    <3>7. Matches(text)'
      BY <3>1, <3>5, <3>6 DEF Matches
    <3>8. EditIs(typed, text)'
      <4>1. EditIs(typed', text)
        BY <3>1, <3>5
      <4> QED BY <4>1, EditPrimed
    <3>9. SpeltInv'
      BY <3>7, <3>8 DEF SpeltInv
    <3>10. late' \/ buffer'[collected'] = Nul
      BY <3>1, <3>3, <3>4
    <3> QED BY <3>1, <3>9, <3>10 DEF CollectInv, Returned, Collecting, Terminated
  <2>11. CASE Disarm
    BY <2>11, OthersKeepCollected DEF Disarm, Goto, lineVars, historyVars
  <2>12. CASE Return
    <3>1. /\ pc = "return" /\ pc' = "shell" /\ line' = collected
          /\ UNCHANGED <<buffer, collected, typed, late, end>>
      BY <2>12 DEF Return, Goto, lineVars, historyVars
    <3>2. late \/ SpeltInv'
      <4> SUFFICES ASSUME ~late PROVE SpeltInv'
        OBVIOUS
      <4>1. \A i \in 1 .. collected : Replaced(i) => Replaced(i)'
        BY DEF Replaced
      <4> QED BY <3>1, <4>1, SpeltStays DEF CollectInv, Terminated
    <3>3. late \/ buffer[collected] = Nul
      BY <3>1 DEF CollectInv, Terminated
    <3> QED BY <3>1, <3>2, <3>3 DEF CollectInv, Returned, Collecting, Terminated
  <2> QED BY <1>1, <2>1, <2>2, <2>3, <2>4, <2>5, <2>6, <2>7, <2>8, <2>9, <2>10, <2>11, <2>12 DEF Main
<1>2. ASSUME Resume, UNCHANGED <<armed, want, end, line>>, UNCHANGED <<lineVars, historyVars>>
      PROVE  CollectInv'
  BY <1>2, OthersKeepCollected DEF Resume, lineVars, historyVars, Collecting
<1>3. ASSUME NEW ch \in Char, KeyboardIrq(ch) PROVE CollectInv'
  BY <1>2, <1>3, HandledKeepsCollected DEF KeyboardIrq
<1>4. ASSUME NEW c \in Serial, SerialIrq(c) PROVE CollectInv'
  BY <1>2, <1>4, FromSerialIsChar, HandledKeepsCollected DEF SerialIrq
<1>5. CASE TimerIrq
  BY <1>2, <1>5 DEF TimerIrq
<1>6. CASE UNCHANGED vars
  BY <1>6, OthersKeepCollected DEF vars, lineVars, historyVars
<1> QED BY <1>1, <1>3, <1>4, <1>5, <1>6 DEF Next

LEMMA CollectInvariant == Spec => []CollectInv
<1>1. Init => CollectInv
  BY DEF Init, CollectInv, Returned, Collecting, Terminated
<1> QED BY <1>1, LineInvariant, CollectStep, PTL DEF Spec

\* CollectsWhatIsTyped: whatever keys come between the statements of kgets and
\* in whatever order, the text collected is what they amount to, one by one,
\* for any size of line and any number of keys; but for one character of a
\* late key, at the index that kgets had loaded for its terminator.
THEOREM LineCollectsWhatIsTyped == Spec => []CollectsWhatIsTyped
<1>1. LineInv /\ CollectInv => CollectsWhatIsTyped
  <2> SUFFICES ASSUME LineInv, CollectInv, pc \in Collecting \cup Terminated
               PROVE  /\ Len(Edit(typed)) = collected
                      /\ \A i \in 1 .. collected :
                           Text(collected)[i] = Edit(typed)[i] \/ Replaced(i)
    BY DEF CollectsWhatIsTyped
  <2>1. PICK text : EditIs(typed, text) /\ Matches(text)
    BY DEF CollectInv, SpeltInv
  <2>2. Edit(typed) = text
    BY <2>1, EditOf
  <2>3. \A i \in 1 .. collected : Text(collected)[i] = buffer[i - 1]
    BY TextFacts DEF LineInv
  <2> QED BY <2>1, <2>2, <2>3 DEF Matches
<1> QED BY <1>1, LineInvariant, CollectInvariant, PTL

\* ReturnsTheLine: what kgets returns is that text, as a string, unless a key
\* came between the end of the line and the removal of the handler.
THEOREM LineReturnsTheLine == Spec => []ReturnsTheLine
<1>1. LineInv /\ CollectInv => ReturnsTheLine
  <2> SUFFICES ASSUME LineInv, CollectInv, Returned, ~late
               PROVE  Text(line) = Edit(typed) /\ buffer[line] = Nul
    BY DEF ReturnsTheLine, Returned
  <2>1. line = collected /\ buffer[collected] = Nul
    BY DEF CollectInv
  <2>2. PICK text : EditIs(typed, text) /\ Matches(text)
    BY DEF CollectInv, SpeltInv
  <2>3. Edit(typed) = text
    BY <2>2, EditOf
  <2>4. \A i \in 1 .. collected : buffer[i - 1] = text[i]
    BY <2>2 DEF Matches, Replaced
  <2>5. Text(collected) = text
    <3>1. /\ Text(collected) \in Seq(Printable \cup {Nul}) /\ Len(Text(collected)) = collected
          /\ \A i \in 1 .. collected : Text(collected)[i] = text[i]
      BY <2>4, TextFacts DEF LineInv
    <3>2. text \in Seq(Printable \cup {Nul}) /\ Len(text) = collected
      BY <2>2 DEF Matches
    <3> QED BY <3>1, <3>2
  <2> QED BY <2>1, <2>3, <2>5
<1> QED BY <1>1, LineInvariant, CollectInvariant, PTL
=============================================================================
