------------------------------ MODULE Keyboard ------------------------------
(***************************************************************************)
(* kernel/core/kbd.c: from scancodes to characters, with the modifier keys.*)
(*                                                                         *)
(* The codes that the kernel has not read yet stand in the keyboard        *)
(* controller, the oldest one in its output buffer.  A code is a key and   *)
(* whether it went up.  Of the 83 keys there are the modifiers and one of  *)
(* each kind that norm and the tables of characters tell apart.            *)
(***************************************************************************)
EXTENDS Integers, Sequences, FiniteSets

CONSTANTS
  Key,         \* bound: the keys that are used
  MaxCodes     \* bound: the codes the controller holds

Shifts == {"lshift", "rshift"}
Modifiers == Shifts \cup {"ctrl", "alt"}

\* key_method: the function for each key.  NULL: Escape, the arrows and other
\* keys without one.
KeyMethod ==
  [lshift |-> "shft", rshift |-> "shft", ctrl |-> "ctlk", alt |-> "altk",
   letter |-> "norm", bracket |-> "norm", F1 |-> "func", up |-> "NULL"]

ASSUME KeyAssumption == Key \subseteq DOMAIN KeyMethod /\ MaxCodes \in Nat \ {0}

VARIABLES
  held,        \* the keys that are down
  codes,       \* the codes on their way; "with" has the modifiers that were
               \* held when a key went down (history)
  state,       \* keyboard_state: shift, alt, ctrl
  mixed        \* TRUE if the toggles could not tell what is held (history)

keyboardVars == <<held, codes, state, mixed>>

KeyboardInit ==
  /\ held \in {{}} \cup {{k} : k \in Key}
  /\ codes = <<>>
  /\ state = [shift |-> FALSE, alt |-> FALSE, ctrl |-> FALSE]
  /\ mixed = (held \cap Modifiers # {})
-----------------------------------------------------------------------------
(* What the user does: the keyboard sends a code, again and again while a  *)
(* key is held down.                                                       *)

Send(key, up) ==
  /\ Len(codes) < MaxCodes
  /\ codes' = Append(codes, [key |-> key, up |-> up,
                             with |-> IF KeyMethod[key] = "norm" /\ ~up /\ ~mixed
                                        THEN held \cap Modifiers ELSE {}])
  /\ UNCHANGED state

Press(key) ==
  /\ key \notin held
  /\ Send(key, FALSE)
  /\ held' = held \cup {key}
  /\ mixed' = (mixed \/ (key \in Shifts /\ held \cap Shifts # {}))

Repeat(key) ==
  /\ key \in held
  /\ Send(key, FALSE)
  /\ mixed' = (mixed \/ key \in Modifiers)
  /\ UNCHANGED held

Release(key) ==
  /\ key \in held
  /\ Send(key, TRUE)
  /\ held' = held \ {key}
  /\ UNCHANGED mixed

User == \E key \in Key : Press(key) \/ Repeat(key) \/ Release(key)
-----------------------------------------------------------------------------
(* What the kernel does with a code.                                       *)

\* norm: the kind of character that putch gets.  Control takes 0x40 from the
\* lower table's character, which only the brackets and the backslash survive.
Norm(code, mods) ==
  IF code.up THEN "none"
  ELSE IF mods.shift THEN "upper"
  ELSE IF mods.ctrl /\ code.key = "bracket" THEN "control"
  ELSE "plain"

\* A mistake: the modifiers are switched on, and off, by what the code says,
\* with the two taken for each other.
Toggle_Swapped(mods, code) ==
  CASE KeyMethod[code.key] = "shft" -> [mods EXCEPT !.shift = code.up]
    [] KeyMethod[code.key] = "altk" -> [mods EXCEPT !.alt = code.up]
    [] KeyMethod[code.key] = "ctlk" -> [mods EXCEPT !.ctrl = code.up]
    [] OTHER -> mods

\* shft, altk and ctlk, which do not look at whether the key went up.
Toggle(mods, code) ==
  CASE KeyMethod[code.key] = "shft" -> [mods EXCEPT !.shift = ~@]
    [] KeyMethod[code.key] = "altk" -> [mods EXCEPT !.alt = ~@]
    [] KeyMethod[code.key] = "ctlk" -> [mods EXCEPT !.ctrl = ~@]
    [] OTHER -> mods

\* keyboard_handler: reading the port makes room for the next code.
KeyboardHandler ==
  /\ codes' = Tail(codes)
  /\ state' = Toggle(state, Head(codes))
  /\ UNCHANGED <<held, mixed>>
-----------------------------------------------------------------------------
\* The character for a key that goes down while these modifiers are held.
Meant(with) ==
  IF with \cap Shifts # {} THEN {"upper"}
  ELSE IF "ctrl" \in with THEN {"control", "plain"}
  ELSE {"plain"}

\* A key that is read, however late, gives the character that goes with the
\* modifiers that were held when it went down, and none when it goes up.
\* This leaves out modifiers that repeat, two shift keys at once, and one that
\* is held when the kernel starts: all modifiers toggle (kbd.c:113).
TypedAsHeld ==
  codes # <<>> /\ ~mixed /\ KeyMethod[Head(codes).key] = "norm" =>
    IF Head(codes).up THEN Norm(Head(codes), state) = "none"
    ELSE Norm(Head(codes), state) \in Meant(Head(codes).with)
=============================================================================
