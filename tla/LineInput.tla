----------------------------- MODULE LineInput -----------------------------
(***************************************************************************)
(* Reading a line: kgets of kernel/core/kprintf.c, which the shell calls,  *)
(* and the interrupt handlers of the keyboard, the serial port and the     *)
(* timer that run between any two of its instructions.                     *)
(*                                                                         *)
(* The kernel is built without optimisation, so kgets reads the shared     *)
(* words each time the source does, and a statement that reads one and     *)
(* writes another is two steps.  A handler runs with interrupts off and is *)
(* one step.  hlt waits for the next interrupt, whichever it is.           *)
(* What the handlers echo on the screen is left to module Screen.          *)
(***************************************************************************)
EXTENDS Integers, Sequences

CONSTANTS
  Size,         \* the argument of kgets (1023); the buffer has one byte more
  Printable,    \* bound: the characters from 0x20 on that are typed
  MaxKeys       \* bound: the keys handled during one call of kgets

ASSUME LineAssumption == Size \in Nat \ {0} /\ MaxKeys \in Nat

Backspace == "BS"       \* 0x08
Newline == "NL"
Control == "CTRL"       \* any other character below 0x20
Nul == "NUL"
Char == Printable \cup {Backspace, Newline, Control}
Serial == Char \cup {"DEL", "CR"}      \* what comes in on the serial port

ASSUME PrintableAssumption == Printable \cap {Backspace, Newline, Control} = {}

VARIABLES
  pc,           \* where the main thread is
  armed,        \* keyboard_buffer_handler is kgets_handler, not NULL
  buffer,       \* the bytes that kgets_buffer points to
  collected,    \* kgets_collected
  want,         \* kgets_want
  newline,      \* kgets_newline
  end,          \* where kgets is about to put, or has put, the terminator
  line,         \* what kgets returned: its length
  typed,        \* keys the handler got in this call (history)
  late          \* TRUE if one of them came when the line was over (history)

lineVars == <<buffer, collected, newline>>
historyVars == <<typed, late>>
vars == <<pc, armed, lineVars, want, end, line, historyVars>>

Init ==
  /\ pc = "shell"
  /\ armed = FALSE
  /\ buffer = [i \in 0 .. Size |-> Nul]
  /\ collected = 0 /\ want = 0 /\ newline = FALSE
  /\ end = 0 /\ line = 0
  /\ typed = <<>> /\ late = FALSE
-----------------------------------------------------------------------------
(* kgets, statement by statement.                                          *)

Goto(from, to) == pc = from /\ pc' = to

Call ==
  /\ Goto("shell", "reset")
  /\ typed' = <<>> /\ late' = FALSE
  /\ UNCHANGED <<armed, lineVars, want, end, line>>

\* A mistake: what the last call left is still counted.
ResetCollected_Skipped ==
  /\ Goto("reset", "want")
  /\ UNCHANGED <<armed, lineVars, want, end, line, historyVars>>

ResetCollected ==
  /\ Goto("reset", "want")
  /\ collected' = 0
  /\ UNCHANGED <<armed, buffer, newline, want, end, line, historyVars>>

SetWant ==
  /\ Goto("want", "clear")
  /\ want' = Size
  /\ UNCHANGED <<armed, lineVars, end, line, historyVars>>

ClearNewline ==
  /\ Goto("clear", "arm")
  /\ newline' = FALSE
  /\ UNCHANGED <<armed, buffer, collected, want, end, line, historyVars>>

\* A mistake: the flag is cleared again when the handler is in place.
Arm_ThenClear ==
  /\ \/ Goto("arm", "rearm") /\ armed' = TRUE /\ UNCHANGED newline
     \/ Goto("rearm", "full") /\ newline' = FALSE /\ UNCHANGED armed
  /\ UNCHANGED <<buffer, collected, want, end, line, historyVars>>

Arm ==
  /\ Goto("arm", "full")
  /\ armed' = TRUE
  /\ UNCHANGED <<lineVars, want, end, line, historyVars>>

\* while (kgets_collected < size ...
TestFull ==
  /\ \/ Goto("full", "newline") /\ collected < Size
     \/ Goto("full", "terminate") /\ collected >= Size
  /\ UNCHANGED <<armed, lineVars, want, end, line, historyVars>>

\* ... && !kgets_newline)
TestNewline ==
  /\ \/ Goto("newline", "hlt") /\ ~newline
     \/ Goto("newline", "terminate") /\ newline
  /\ UNCHANGED <<armed, lineVars, want, end, line, historyVars>>

\* From "halted" only an interrupt leads on.
Hlt ==
  /\ Goto("hlt", "halted")
  /\ UNCHANGED <<armed, lineVars, want, end, line, historyVars>>

\* buffer[kgets_collected] = '\0': the index is loaded first.
LoadEnd ==
  /\ Goto("terminate", "store")
  /\ end' = collected
  /\ UNCHANGED <<armed, lineVars, want, line, historyVars>>

\* A mistake: the terminator goes to the end of the buffer.
Terminate_AtEnd ==
  /\ Goto("store", "disarm")
  /\ buffer' = [buffer EXCEPT ![Size] = Nul]
  /\ UNCHANGED <<armed, collected, newline, want, end, line, historyVars>>

\* The store, which a key may have come before.
Terminate ==
  /\ Goto("store", "disarm")
  /\ buffer' = [buffer EXCEPT ![end] = Nul]
  /\ UNCHANGED <<armed, collected, newline, want, end, line, historyVars>>

\* A mistake: the handler stays in place.
Disarm_Skipped ==
  /\ Goto("disarm", "return")
  /\ UNCHANGED <<armed, lineVars, want, end, line, historyVars>>

Disarm ==
  /\ Goto("disarm", "return")
  /\ armed' = FALSE
  /\ UNCHANGED <<lineVars, want, end, line, historyVars>>

Return ==
  /\ Goto("return", "shell")
  /\ line' = collected
  /\ UNCHANGED <<armed, lineVars, want, end, historyVars>>

Main ==
  \/ Call \/ ResetCollected \/ SetWant \/ ClearNewline \/ Arm
  \/ TestFull \/ TestNewline \/ Hlt
  \/ LoadEnd \/ Terminate \/ Disarm \/ Return
-----------------------------------------------------------------------------
(* Interrupts.                                                             *)

\* A mistake: the limit is not looked at.
Collect_NoLimit(ch) ==
  /\ buffer' = [i \in 0 .. collected + 1 |->
                  IF i = collected THEN ch ELSE IF i <= Size THEN buffer[i] ELSE Nul]
  /\ collected' = collected + 1
  /\ UNCHANGED newline

\* The end of kgets_handler, for a printable character.
Collect(ch) ==
  /\ IF collected < want
       THEN buffer' = [buffer EXCEPT ![collected] = ch] /\ collected' = collected + 1
       ELSE UNCHANGED <<buffer, collected>>
  /\ UNCHANGED newline

\* kgets_handler(ch).
KgetsHandler(ch) ==
  \/ /\ ch = Backspace /\ collected # 0
     /\ buffer' = [buffer EXCEPT ![collected] = Nul]
     /\ collected' = collected - 1
     /\ UNCHANGED newline
  \/ /\ ch = Backspace /\ collected = 0
     /\ UNCHANGED lineVars
  \/ /\ ch = Newline
     /\ newline' = TRUE
     /\ UNCHANGED <<buffer, collected>>
  \/ /\ ch = Control
     /\ UNCHANGED lineVars
  \/ /\ ch \in Printable
     /\ Collect(ch)

\* The line is over: kgets has seen its end, or will when it next looks.
Over == newline \/ pc \in {"terminate", "store", "disarm"}

\* A key for the handler that kgets has put in place.
Handled(ch) ==
  /\ Len(typed) < MaxKeys
  /\ KgetsHandler(ch)
  /\ typed' = Append(typed, ch)
  /\ late' = (late \/ Over)

\* iret: a processor that hlt stopped goes on behind it.
Resume == pc' = IF pc = "halted" THEN "full" ELSE pc

\* keyboard_handler and putch.  With no handler the key is only echoed.
KeyboardIrq(ch) ==
  /\ Resume
  /\ IF armed THEN Handled(ch) ELSE UNCHANGED <<lineVars, historyVars>>
  /\ UNCHANGED <<armed, want, end, line>>

\* The conversions of serial_handler.
FromSerial(c) == IF c = "DEL" THEN Backspace ELSE IF c = "CR" THEN Newline ELSE c

\* serial_handler.  With no handler the character is dropped.
SerialIrq(c) ==
  /\ Resume
  /\ IF armed THEN Handled(FromSerial(c)) ELSE UNCHANGED <<lineVars, historyVars>>
  /\ UNCHANGED <<armed, want, end, line>>

\* timer_handler, a hundred times a second.  It counts, and wakes the hlt.
TimerIrq ==
  /\ Resume
  /\ UNCHANGED <<armed, lineVars, want, end, line, historyVars>>

Next ==
  \/ Main
  \/ \E ch \in Char : KeyboardIrq(ch)
  \/ \E c \in Serial : SerialIrq(c)
  \/ TimerIrq

\* The processor executes instructions and the timer does not stop.  Nothing
\* makes anyone press a key.
Fairness == WF_vars(Main) /\ WF_vars(TimerIrq)

Spec == Init /\ [][Next]_vars /\ Fairness
-----------------------------------------------------------------------------
(* What reading a line should do, keys taken one by one.                   *)

Edit(keys) ==
  LET after[n \in 0 .. Len(keys)] ==
        IF n = 0 THEN <<>>
        ELSE LET text == after[n - 1]
                 key == keys[n]
             IN IF key = Backspace
                  THEN SubSeq(text, 1, Len(text) - 1)
                ELSE IF key \in Printable /\ Len(text) < Size
                  THEN Append(text, key)
                ELSE text
  IN after[Len(keys)]

Text(n) == [i \in 1 .. n |-> buffer[i - 1]]
-----------------------------------------------------------------------------
(* Invariants.                                                             *)

\* The words of kgets hold what their C types hold, and the buffer is still
\* the Size + 1 bytes of its caller.
LineTypeOK ==
  /\ armed \in BOOLEAN /\ newline \in BOOLEAN /\ late \in BOOLEAN
  /\ buffer \in [0 .. Size -> Printable \cup {Nul}]
  /\ collected \in 0 .. Size /\ want \in {0, Size}
  /\ end \in 0 .. Size /\ line \in 0 .. Size
  /\ typed \in Seq(Char) /\ Len(typed) <= MaxKeys

\* Before kgets stores the terminator, and after.
Collecting == {"arm", "full", "newline", "hlt", "halted", "terminate", "store"}
Terminated == {"disarm", "return"}

\* A key that came between the load of the index and the store has its
\* character, the one at that index, replaced by the terminator.
Replaced(i) == pc \in Terminated /\ late /\ i = end + 1 /\ buffer[end] = Nul

\* Whatever the handlers do between the statements of kgets, what is
\* collected is what the keys typed since kgets took the keyboard amount to.
\* This holds from before the handler is in place to after it is gone, but
\* for the one character of a late key that the terminator may have replaced:
\* no other is lost, and the count is right in any case.
CollectsWhatIsTyped ==
  pc \in Collecting \cup Terminated =>
    /\ Len(Edit(typed)) = collected
    /\ \A i \in 1 .. collected : Text(collected)[i] = Edit(typed)[i] \/ Replaced(i)

\* When kgets returns, and no key came between the end of the line and the
\* removal of the handler, the caller has the line, a string that ends where
\* kgets says.  (After a late key it may have neither: the key is taken into
\* the line that was over, and may replace the terminator or be replaced.)
ReturnsTheLine ==
  pc = "shell" /\ want # 0 /\ ~late =>
    Text(line) = Edit(typed) /\ buffer[line] = Nul
-----------------------------------------------------------------------------
(* Action and temporal properties.                                         *)

\* The buffer is on the stack of kgets' caller.  Nothing writes to it from the
\* removal of the handler on: not while kgets returns, not when it has, and not
\* in the next call (with a buffer of its own) before the handler is in place.
QuietStep ==
  pc \in {"return", "shell", "reset", "want", "clear", "arm"} => buffer' = buffer

BufferLeftAlone == [][QuietStep]_vars

\* A line that was ended is returned, even when the newline came after kgets
\* looked for it and before it executed hlt: the interrupt that should wake
\* it is gone then, and the timer's takes its place.
NewlineEndsTheLine == newline /\ armed ~> pc = "shell"
=============================================================================
