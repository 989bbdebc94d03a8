-------------------------- MODULE Interrupts_proofs --------------------------
(***************************************************************************)
(* Theorems about Interrupts and Keyboard, for every set of request lines, *)
(* size and trigger level of the serial port's buffer, keys, and number of *)
(* codes under way.                                                        *)
(***************************************************************************)
EXTENDS Interrupts, TLAPS

(***************************************************************************)
(* The inductive invariant.                                                *)
(***************************************************************************)

\* The calls of main, and those before which it has not yet installed something.
CallsOfMain ==
  {"gdt_install", "idt_install", "isrs_install", "irq_remap", "irq_install",
   "init_video", "timer_install", "keyboard_install", "serial_install",
   "serial_enable", "paging_install", "shell", "halted"}
BeforeIsrs == {"gdt_install", "idt_install", "isrs_install"}
BeforeRemap == BeforeIsrs \cup {"irq_remap"}
BeforeSti == BeforeRemap \cup {"irq_install"}
BeforeVideo == BeforeSti \cup {"init_video"}
BeforeKeyboard == BeforeVideo \cup {"timer_install", "keyboard_install"}
BeforeSerial == BeforeKeyboard \cup {"serial_install"}
BeforePaging == BeforeSerial \cup {"serial_enable", "paging_install"}

\* The tables are complete, one after the other, and sti comes when those are
\* that an interrupt needs.
TablesInv ==
  /\ pc \in CallsOfMain
  /\ pc \in BeforeSti => ~enabled
  /\ pc # "gdt_install" => gdt = <<"code", "data">>
  /\ pc \notin BeforeIsrs => gate[14].stub = "isr"
  /\ pc \notin BeforeRemap => base = [master |-> 32, slave |-> 40]
  /\ pc \notin BeforeSti => \A v \in 32 .. 47 : gate[v] = [stub |-> "irq", sel |-> 8]
  /\ pc \notin BeforeVideo => screen
  /\ pc \notin BeforePaging => 14 \in faults

\* Each driver has a line of its own, from its installation on.
DriversInv ==
  /\ \A l \in 0 .. 15 : routines[l] = "keyboard_handler" <=> l = 1 /\ pc \notin BeforeKeyboard
  /\ \A l \in 0 .. 15 : routines[l] = "serial_handler" <=> l = 4 /\ pc \notin BeforeSerial
  /\ routines[1] \in {"NULL", "keyboard_handler"}
  /\ routines[4] \in {"NULL", "serial_handler"}

\* A request stands for something to be read, and what is there to be read has
\* its request, but for the two cases that stop the input.
RequestsInv ==
  /\ 1 \in request => full
  /\ full /\ routines[1] = "NULL" => early
  /\ 4 \in request => received > 0
  /\ routines[4] = "NULL" => received = 0 /\ ~receiving
  /\ InputAskedFor

Code == [key : Key, up : BOOLEAN, with : SUBSET Modifiers]

KeysTypeOK ==
  /\ held \subseteq Key /\ mixed \in BOOLEAN
  /\ codes \in Seq(Code)
  /\ state \in [shift : BOOLEAN, alt : BOOLEAN, ctrl : BOOLEAN]

\* keyboard_state says which modifiers are held, as far as a toggle can.
StateTells(mods, down) ==
  /\ mods.shift <=> down \cap Shifts # {}
  /\ mods.alt <=> "alt" \in down
  /\ mods.ctrl <=> "ctrl" \in down

\* The modifiers down behind a code, from those down before it.  A modifier
\* is neither pressed twice nor are both shift keys down.
After(down, code) ==
  IF code.key \notin Modifiers THEN down
  ELSE IF code.up THEN down \ {code.key} ELSE down \cup {code.key}
Possible(down, code) ==
  /\ code.key \in Modifiers => (code.up <=> code.key \in down)
  /\ code.key \in Shifts /\ ~code.up => down \cap Shifts = {}
  /\ KeyMethod[code.key] = "norm" /\ ~code.up => code.with = down

\* h[i] are the modifiers that were down when code i + 1 was sent: the kernel's
\* state is that of h[0], the keys that are held are those of the last one.
History(h) ==
  /\ h \in [0 .. Len(codes) -> SUBSET Modifiers]
  /\ StateTells(state, h[0])
  /\ h[Len(codes)] = held \cap Modifiers
  /\ \A i \in 1 .. Len(codes) : Possible(h[i-1], codes[i]) /\ h[i] = After(h[i-1], codes[i])
  /\ \A i \in 0 .. Len(codes) : ~(Shifts \subseteq h[i])

KeysInv == KeysTypeOK /\ (~mixed => \E h \in [0 .. Len(codes) -> SUBSET Modifiers] : History(h))

IntInv == IntTypeOK /\ TablesInv /\ DriversInv /\ RequestsInv /\ KeysInv
-----------------------------------------------------------------------------
(***************************************************************************)
(* Keys and codes.                                                         *)
(***************************************************************************)

LEMMA KeyFacts ==
  /\ MaxCodes \in Nat
  /\ \A k \in Key :
       /\ KeyMethod[k] = "shft" <=> k \in Shifts
       /\ KeyMethod[k] = "altk" <=> k = "alt"
       /\ KeyMethod[k] = "ctlk" <=> k = "ctrl"
       /\ KeyMethod[k] = "norm" => k \notin Modifiers
<1>1. DOMAIN KeyMethod = {"lshift", "rshift", "ctrl", "alt", "letter", "bracket", "F1", "up"}
  BY DEF KeyMethod
<1>2. Key \subseteq DOMAIN KeyMethod /\ MaxCodes \in Nat
  BY KeyAssumption
<1>3. /\ KeyMethod["lshift"] = "shft" /\ KeyMethod["rshift"] = "shft"
      /\ KeyMethod["ctrl"] = "ctlk" /\ KeyMethod["alt"] = "altk"
      /\ KeyMethod["letter"] = "norm" /\ KeyMethod["bracket"] = "norm"
      /\ KeyMethod["F1"] = "func" /\ KeyMethod["up"] = "NULL"
  BY DEF KeyMethod
<1> QED BY <1>1, <1>2, <1>3 DEF Shifts, Modifiers

\* A toggle does what holding a modifier means, as long as every press of one
\* is followed by its release.
LEMMA ToggleTells ==
  ASSUME NEW mods \in [shift : BOOLEAN, alt : BOOLEAN, ctrl : BOOLEAN],
         NEW down \in SUBSET Modifiers, NEW code \in Code,
         StateTells(mods, down), Possible(down, code), ~(Shifts \subseteq down)
  PROVE  /\ Toggle(mods, code) \in [shift : BOOLEAN, alt : BOOLEAN, ctrl : BOOLEAN]
         /\ StateTells(Toggle(mods, code), After(down, code))
<1>1. code.key \in Key /\ code.up \in BOOLEAN
  BY DEF Code
<1>2. Shifts = {"lshift", "rshift"} /\ Modifiers = {"lshift", "rshift", "ctrl", "alt"}
  BY DEF Shifts, Modifiers
<1>3. CASE code.key \in Shifts
  <2>1. Toggle(mods, code) = [mods EXCEPT !.shift = ~@]
    BY <1>1, <1>3, KeyFacts DEF Toggle
  <2>2. After(down, code) \cap Shifts # {} <=> down \cap Shifts = {}
    BY <1>1, <1>2, <1>3 DEF After, Possible
  <2>3. "alt" \in After(down, code) <=> "alt" \in down
    BY <1>2, <1>3 DEF After
  <2>4. "ctrl" \in After(down, code) <=> "ctrl" \in down
    BY <1>2, <1>3 DEF After
  <2>5. /\ [mods EXCEPT !.shift = ~@] \in [shift : BOOLEAN, alt : BOOLEAN, ctrl : BOOLEAN]
        /\ [mods EXCEPT !.shift = ~@].shift <=> ~mods.shift
        /\ [mods EXCEPT !.shift = ~@].alt <=> mods.alt
        /\ [mods EXCEPT !.shift = ~@].ctrl <=> mods.ctrl
    OBVIOUS
  <2> QED BY <2>1, <2>2, <2>3, <2>4, <2>5 DEF StateTells
<1>4. CASE code.key = "alt"
  <2>1. Toggle(mods, code) = [mods EXCEPT !.alt = ~@]
    BY <1>1, <1>4, KeyFacts DEF Toggle
  <2>2. "alt" \in After(down, code) <=> "alt" \notin down
    BY <1>1, <1>2, <1>4 DEF After, Possible
  <2>3. After(down, code) \cap Shifts = down \cap Shifts
    BY <1>2, <1>4 DEF After
  <2>4. "ctrl" \in After(down, code) <=> "ctrl" \in down
    BY <1>2, <1>4 DEF After
  <2>5. /\ [mods EXCEPT !.alt = ~@] \in [shift : BOOLEAN, alt : BOOLEAN, ctrl : BOOLEAN]
        /\ [mods EXCEPT !.alt = ~@].alt <=> ~mods.alt
        /\ [mods EXCEPT !.alt = ~@].shift <=> mods.shift
        /\ [mods EXCEPT !.alt = ~@].ctrl <=> mods.ctrl
    OBVIOUS
  <2> QED BY <2>1, <2>2, <2>3, <2>4, <2>5 DEF StateTells
<1>5. CASE code.key = "ctrl"
  <2>1. Toggle(mods, code) = [mods EXCEPT !.ctrl = ~@]
    BY <1>1, <1>5, KeyFacts DEF Toggle
  <2>2. "ctrl" \in After(down, code) <=> "ctrl" \notin down
    BY <1>1, <1>2, <1>5 DEF After, Possible
  <2>3. After(down, code) \cap Shifts = down \cap Shifts
    BY <1>2, <1>5 DEF After
  <2>4. "alt" \in After(down, code) <=> "alt" \in down
    BY <1>2, <1>5 DEF After
  <2>5. /\ [mods EXCEPT !.ctrl = ~@] \in [shift : BOOLEAN, alt : BOOLEAN, ctrl : BOOLEAN]
        /\ [mods EXCEPT !.ctrl = ~@].ctrl <=> ~mods.ctrl
        /\ [mods EXCEPT !.ctrl = ~@].shift <=> mods.shift
        /\ [mods EXCEPT !.ctrl = ~@].alt <=> mods.alt
    OBVIOUS
  <2> QED BY <2>1, <2>2, <2>3, <2>4, <2>5 DEF StateTells
<1>6. CASE code.key \notin Modifiers
  <2>1. Toggle(mods, code) = mods
    BY <1>1, <1>2, <1>6, KeyFacts DEF Toggle
  <2>2. After(down, code) = down
    BY <1>6 DEF After
  <2> QED BY <2>1, <2>2
<1> QED BY <1>2, <1>3, <1>4, <1>5, <1>6

\* Both shift keys are never down, as long as mixed is FALSE.
LEMMA AfterShifts ==
  ASSUME NEW down \in SUBSET Modifiers, NEW code \in Code,
         Possible(down, code), ~(Shifts \subseteq down)
  PROVE  After(down, code) \in SUBSET Modifiers /\ ~(Shifts \subseteq After(down, code))
BY DEF After, Possible, Shifts, Modifiers, Code
-----------------------------------------------------------------------------
LEMMA KeysInitially ==
  ASSUME KeyboardInit
  PROVE  KeysInv
<1> USE KeyFacts
<1>1. KeysTypeOK
  BY DEF KeyboardInit, KeysTypeOK
<1>2. ASSUME ~mixed PROVE History([i \in 0 .. Len(codes) |-> {}])
  <2>1. Len(codes) = 0 /\ held \cap Modifiers = {}
    BY <1>2 DEF KeyboardInit
  <2>2. StateTells(state, {})
    BY DEF KeyboardInit, StateTells
  <2>3. ~(Shifts \subseteq {})
    BY DEF Shifts
  <2> QED BY <2>1, <2>2, <2>3 DEF History
<1>3. [i \in 0 .. Len(codes) |-> {}] \in [0 .. Len(codes) -> SUBSET Modifiers]
  OBVIOUS
<1> QED BY <1>1, <1>2, <1>3 DEF KeysInv

\* keyboard_handler takes the oldest code: the history loses its first set.
LEMMA HandlerKeepsKeys ==
  ASSUME KeysInv, codes # <<>>, KeyboardHandler
  PROVE  KeysInv' /\ Len(codes') = Len(codes) - 1
<1>1. codes \in Seq(Code) /\ codes[1] \in Code /\ Head(codes) = codes[1] /\ Len(codes) \in Nat \ {0}
  BY DEF KeysInv, KeysTypeOK
<1>2. /\ codes' \in Seq(Code) /\ Len(codes') = Len(codes) - 1
      /\ \A i \in 1 .. Len(codes) - 1 : codes'[i] = codes[i + 1]
  BY <1>1 DEF KeyboardHandler
<1>3. /\ state' = Toggle(state, codes[1])
      /\ held' = held /\ mixed' = mixed
  BY <1>1 DEF KeyboardHandler
<1>4. state' \in [shift : BOOLEAN, alt : BOOLEAN, ctrl : BOOLEAN]
  <2>1. state \in [shift : BOOLEAN, alt : BOOLEAN, ctrl : BOOLEAN]
    BY DEF KeysInv, KeysTypeOK
  <2> QED BY <1>1, <1>3, <2>1 DEF Toggle
<1>5. KeysTypeOK'
  BY <1>2, <1>3, <1>4 DEF KeysInv, KeysTypeOK
<1>6. ASSUME ~mixed' PROVE \E h \in [0 .. Len(codes') -> SUBSET Modifiers] : History(h)'
  <2>1. PICK h \in [0 .. Len(codes) -> SUBSET Modifiers] : History(h)
    BY <1>3, <1>6 DEF KeysInv
  <2>2. /\ StateTells(state, h[0]) /\ h[Len(codes)] = held \cap Modifiers
        /\ \A i \in 1 .. Len(codes) : Possible(h[i-1], codes[i]) /\ h[i] = After(h[i-1], codes[i])
        /\ \A i \in 0 .. Len(codes) : ~(Shifts \subseteq h[i])
    BY <2>1 DEF History
  <2>3. PICK g : g = [i \in 0 .. Len(codes) - 1 |-> h[i + 1]]
    OBVIOUS
  <2>4. g \in [0 .. Len(codes') -> SUBSET Modifiers]
    BY <1>1, <1>2, <2>3
  <2>5. StateTells(state', g[0])
    <3>1. state \in [shift : BOOLEAN, alt : BOOLEAN, ctrl : BOOLEAN] /\ h[0] \in SUBSET Modifiers
      BY <1>1 DEF KeysInv, KeysTypeOK
    <3>2. Possible(h[0], codes[1]) /\ h[1] = After(h[0], codes[1]) /\ ~(Shifts \subseteq h[0])
      BY <1>1, <2>2
    <3>3. StateTells(Toggle(state, codes[1]), After(h[0], codes[1]))
      BY <1>1, <2>2, <3>1, <3>2, ToggleTells
    <3>4. g[0] = h[1]
      BY <1>1, <2>3
    <3> QED BY <1>3, <3>2, <3>3, <3>4
  <2>6. g[Len(codes')] = held' \cap Modifiers
    BY <1>1, <1>2, <1>3, <2>2, <2>3
  <2>7. ASSUME NEW i \in 1 .. Len(codes')
        PROVE  Possible(g[i-1], codes'[i]) /\ g[i] = After(g[i-1], codes'[i])
    <3>1. i + 1 \in 1 .. Len(codes) /\ (i + 1) - 1 = i /\ i \in Int
      BY <1>1, <1>2
    <3>2. g[i-1] = h[i] /\ g[i] = h[i + 1] /\ codes'[i] = codes[i + 1]
      BY <1>1, <1>2, <2>3
    <3>3. Possible(h[(i + 1) - 1], codes[i + 1]) /\ h[i + 1] = After(h[(i + 1) - 1], codes[i + 1])
      BY <2>2, <3>1
    <3> QED BY <3>1, <3>2, <3>3
  <2>8. ASSUME NEW i \in 0 .. Len(codes') PROVE ~(Shifts \subseteq g[i])
    BY <1>1, <1>2, <2>2, <2>3
  <2> QED BY <2>4, <2>5, <2>6, <2>7, <2>8 DEF History
<1> QED BY <1>2, <1>5, <1>6 DEF KeysInv

\* A key is pressed or released: the history gets another set at its end.
LEMMA UserKeepsKeys ==
  ASSUME KeysInv, User
  PROVE  /\ KeysInv' /\ codes' # <<>>
         /\ Len(codes) < MaxCodes /\ Len(codes') = Len(codes) + 1
<1>1. PICK key \in Key : Press(key) \/ Repeat(key) \/ Release(key)
  BY DEF User
<1>2. PICK up \in BOOLEAN : Send(key, up) /\ (up <=> Release(key))
  BY <1>1 DEF Press, Repeat, Release
<1>3. PICK code : code = [key |-> key, up |-> up,
                          with |-> IF KeyMethod[key] = "norm" /\ ~up /\ ~mixed
                                     THEN held \cap Modifiers ELSE {}]
  OBVIOUS
<1>4. code \in Code /\ code.key = key /\ code.up = up
  BY <1>3 DEF Code
<1>5. codes \in Seq(Code) /\ Len(codes) \in Nat
  BY DEF KeysInv, KeysTypeOK
<1>6. /\ codes' \in Seq(Code) /\ Len(codes') = Len(codes) + 1 /\ Len(codes) < MaxCodes
      /\ codes'[Len(codes) + 1] = code
      /\ \A i \in 1 .. Len(codes) : codes'[i] = codes[i]
      /\ state' = state
  <2>1. codes' = Append(codes, code) /\ Len(codes) < MaxCodes /\ state' = state
    BY <1>2, <1>3 DEF Send
  <2> QED BY <1>4, <1>5, <2>1
<1>7. held' \subseteq Key /\ mixed' \in BOOLEAN /\ (~mixed' => ~mixed)
  BY <1>1 DEF Press, Repeat, Release, KeysInv, KeysTypeOK
<1>8. KeysTypeOK'
  BY <1>6, <1>7 DEF KeysInv, KeysTypeOK
<1>9. ASSUME ~mixed' PROVE \E h \in [0 .. Len(codes') -> SUBSET Modifiers] : History(h)'
  <2>1. PICK h \in [0 .. Len(codes) -> SUBSET Modifiers] : History(h)
    BY <1>7, <1>9 DEF KeysInv
  <2>2. /\ StateTells(state, h[0]) /\ h[Len(codes)] = held \cap Modifiers
        /\ \A i \in 1 .. Len(codes) : Possible(h[i-1], codes[i]) /\ h[i] = After(h[i-1], codes[i])
        /\ \A i \in 0 .. Len(codes) : ~(Shifts \subseteq h[i])
    BY <2>1 DEF History
  <2>3. PICK down : down = held \cap Modifiers
    OBVIOUS
  <2>4. Possible(down, code) /\ After(down, code) = held' \cap Modifiers
    <3>1. CASE Press(key)
      <4>1. key \notin held /\ held' = held \cup {key} /\ ~up
        BY <1>2, <3>1 DEF Press, Release
      <4>2. key \in Shifts => held \cap Shifts = {}
        BY <1>9, <3>1 DEF Press
      <4>3. KeyMethod[key] = "norm" => code.with = down
        BY <1>3, <1>7, <1>9, <2>3, <4>1
      <4> QED BY <1>4, <2>3, <4>1, <4>2, <4>3 DEF Possible, After
    <3>2. CASE Repeat(key)
      <4>1. key \notin Modifiers /\ held' = held /\ ~up
        BY <1>2, <1>9, <3>2 DEF Repeat, Release
      <4>2. key \notin Shifts
        BY <4>1 DEF Modifiers
      <4>3. KeyMethod[key] = "norm" => code.with = down
        BY <1>3, <1>7, <1>9, <2>3, <4>1
      <4> QED BY <1>4, <2>3, <4>1, <4>2, <4>3 DEF Possible, After
    <3>3. CASE Release(key)
      <4>1. key \in held /\ held' = held \ {key} /\ up
        BY <1>2, <3>3 DEF Release
      <4> QED BY <1>4, <2>3, <4>1 DEF Possible, After
    <3> QED BY <1>1, <3>1, <3>2, <3>3
  <2>5. h[Len(codes)] = down /\ down \in SUBSET Modifiers /\ ~(Shifts \subseteq down)
    BY <1>5, <2>2, <2>3
  <2>6. After(down, code) \in SUBSET Modifiers /\ ~(Shifts \subseteq After(down, code))
    BY <1>4, <2>4, <2>5, AfterShifts
  <2>7. PICK g : g = [i \in 0 .. Len(codes) + 1 |-> IF i = Len(codes) + 1 THEN After(down, code) ELSE h[i]]
    OBVIOUS
  <2>8. g \in [0 .. Len(codes') -> SUBSET Modifiers]
    BY <1>5, <1>6, <2>6, <2>7
  <2>9. StateTells(state', g[0])
    BY <1>5, <1>6, <2>2, <2>7
  <2>10. g[Len(codes')] = held' \cap Modifiers
    BY <1>5, <1>6, <2>4, <2>7
  <2>11. ASSUME NEW i \in 1 .. Len(codes')
         PROVE  Possible(g[i-1], codes'[i]) /\ g[i] = After(g[i-1], codes'[i])
    <3>1. CASE i = Len(codes) + 1
      <4>1. g[i-1] = down /\ g[i] = After(down, code) /\ codes'[i] = code
        BY <1>5, <1>6, <2>5, <2>7, <3>1
      <4> QED BY <2>4, <4>1
    <3>2. CASE i # Len(codes) + 1
      <4>1. g[i-1] = h[i-1] /\ g[i] = h[i] /\ codes'[i] = codes[i] /\ i \in 1 .. Len(codes)
        BY <1>5, <1>6, <2>7, <3>2
      <4> QED BY <2>2, <4>1
    <3> QED BY <3>1, <3>2
  <2>12. ASSUME NEW i \in 0 .. Len(codes') PROVE ~(Shifts \subseteq g[i])
    BY <1>5, <1>6, <2>2, <2>6, <2>7
  <2> QED BY <2>8, <2>9, <2>10, <2>11, <2>12 DEF History
<1>10. codes' # <<>>
  BY <1>5, <1>6
<1> QED BY <1>6, <1>8, <1>9, <1>10 DEF KeysInv

LEMMA OtherStepsKeepKeys ==
  ASSUME KeysInv, UNCHANGED keyboardVars
  PROVE  KeysInv'
BY DEF KeysInv, KeysTypeOK, History, keyboardVars

LEMMA HistoryTypesAsHeld == KeysInv => TypedAsHeld
<1> SUFFICES ASSUME KeysInv, codes # <<>>, ~mixed, KeyMethod[Head(codes).key] = "norm",
                    ~Head(codes).up
             PROVE  Norm(Head(codes), state) \in Meant(Head(codes).with)
  <2>1. Head(codes).up => Norm(Head(codes), state) = "none"
    BY DEF Norm
  <2> QED BY <2>1 DEF TypedAsHeld
<1>1. codes[1] \in Code /\ Head(codes) = codes[1] /\ 1 \in 1 .. Len(codes)
  BY DEF KeysInv, KeysTypeOK
<1>2. PICK h \in [0 .. Len(codes) -> SUBSET Modifiers] : History(h)
  BY DEF KeysInv
<1>3. StateTells(state, h[0]) /\ Possible(h[1 - 1], codes[1])
  BY <1>1, <1>2 DEF History
<1>4. codes[1].with = h[0]
  BY <1>1, <1>3 DEF Possible
<1> QED BY <1>1, <1>3, <1>4 DEF Norm, Meant, StateTells
-----------------------------------------------------------------------------
(***************************************************************************)
(* The steps.                                                              *)
(***************************************************************************)

LEMMA LineFacts ==
  /\ Line \subseteq 0 .. 15 /\ 1 \in Line /\ 4 \in Line
  /\ FIFO \in Nat /\ TRIGGER \in Nat /\ TRIGGER >= 1 /\ TRIGGER <= FIFO
BY InterruptsAssumption

LEMMA InitEstablishes == Init => IntInv
<1> SUFFICES ASSUME Init PROVE IntInv
  OBVIOUS
<1> USE LineFacts, KeyFacts DEF Init
<1>1. KeysInv
  BY KeysInitially
<1>2. codes = <<>>
  BY DEF KeyboardInit
<1>3. IntTypeOK
  <2>1. gate \in [Vector -> [stub : {"none", "isr", "irq"}, sel : {0, 8}]]
    BY DEF NoGate
  <2>2. routines \in [0 .. 15 -> Handlers]
    BY DEF Handlers
  <2>3. received \in 0 .. FIFO /\ Len(codes) <= MaxCodes
    BY <1>2
  <2> QED BY <2>1, <2>2, <2>3 DEF IntTypeOK
<1>4. TablesInv
  BY DEF TablesInv, CallsOfMain, BeforeIsrs, BeforeRemap, BeforeSti, BeforeVideo, BeforePaging,
         BeforeSerial, BeforeKeyboard
<1>5. DriversInv
  BY DEF DriversInv, BeforeIsrs, BeforeRemap, BeforeSti, BeforeVideo, BeforeSerial, BeforeKeyboard
<1>6. RequestsInv
  BY DEF RequestsInv, InputAskedFor, SignalNow, Signal
<1> QED BY <1>1, <1>3, <1>4, <1>5, <1>6 DEF IntInv

\* Where main stands says what it has called.
LEMMA Order ==
  /\ BeforeIsrs = {"gdt_install", "idt_install", "isrs_install"}
  /\ BeforeRemap = {"gdt_install", "idt_install", "isrs_install", "irq_remap"}
  /\ BeforeSti = {"gdt_install", "idt_install", "isrs_install", "irq_remap", "irq_install"}
  /\ BeforeVideo = {"gdt_install", "idt_install", "isrs_install", "irq_remap", "irq_install",
                    "init_video"}
  /\ BeforeKeyboard = {"gdt_install", "idt_install", "isrs_install", "irq_remap", "irq_install",
                       "init_video", "timer_install", "keyboard_install"}
  /\ BeforeSerial = {"gdt_install", "idt_install", "isrs_install", "irq_remap", "irq_install",
                     "init_video", "timer_install", "keyboard_install", "serial_install"}
  /\ BeforePaging = {"gdt_install", "idt_install", "isrs_install", "irq_remap", "irq_install",
                     "init_video", "timer_install", "keyboard_install", "serial_install",
                     "serial_enable", "paging_install"}
BY DEF BeforeIsrs, BeforeRemap, BeforeSti, BeforeVideo, BeforeSerial, BeforeKeyboard, BeforePaging

\* main's calls.
LEMMA MainKeeps ==
  ASSUME IntInv, Main
  PROVE  IntInv'
<1> USE LineFacts, Order
<1>0. IntTypeOK /\ TablesInv /\ DriversInv /\ RequestsInv /\ KeysInv
  BY DEF IntInv
<1>1. KeysInv'
  <2>1. UNCHANGED keyboardVars
    BY DEF Main, GdtInstall, IdtInstall, IsrsInstall, IrqRemap, IrqInstall, InitVideo, TimerInstall,
           KeyboardInstall, SerialInstall, SerialEnable, PagingInstall, devVars, kbdVars
  <2> QED BY <1>0, <2>1, OtherStepsKeepKeys
<1> USE DEF Goto, tableVars, picVars, devVars, serialVars, kbdVars, keyboardVars
<1>2. CASE GdtInstall
  <2> USE <1>2 DEF GdtInstall
  <2>1. IntTypeOK'
    BY <1>0 DEF IntTypeOK
  <2>2. TablesInv'
    BY <1>0 DEF TablesInv, CallsOfMain
  <2>3. DriversInv'
    BY <1>0 DEF DriversInv
  <2>4. RequestsInv'
    BY <1>0 DEF RequestsInv, InputAskedFor, SignalNow, Signal
  <2> QED BY <1>1, <2>1, <2>2, <2>3, <2>4 DEF IntInv
<1>3. CASE IdtInstall
  <2> USE <1>3 DEF IdtInstall
  <2>1. IntTypeOK'
    BY <1>0 DEF IntTypeOK, NoGate
  <2>2. TablesInv'
    BY <1>0 DEF TablesInv, CallsOfMain
  <2>3. DriversInv'
    BY <1>0 DEF DriversInv
  <2>4. RequestsInv'
    BY <1>0 DEF RequestsInv, InputAskedFor, SignalNow, Signal
  <2> QED BY <1>1, <2>1, <2>2, <2>3, <2>4 DEF IntInv
<1>4. CASE IsrsInstall
  <2> USE <1>4 DEF IsrsInstall
  <2>1. gate' = [v \in Vector |-> IF v \in 0 .. 31 THEN [stub |-> "isr", sel |-> 8] ELSE gate[v]]
    BY DEF SetGates
  <2>2. IntTypeOK'
    BY <1>0, <2>1 DEF IntTypeOK
  <2>3. TablesInv'
    BY <1>0, <2>1 DEF TablesInv, CallsOfMain, Vector
  <2>4. DriversInv'
    BY <1>0 DEF DriversInv
  <2>5. RequestsInv'
    BY <1>0 DEF RequestsInv, InputAskedFor, SignalNow, Signal
  <2> QED BY <1>1, <2>2, <2>3, <2>4, <2>5 DEF IntInv
<1>5. CASE IrqRemap
  <2> USE <1>5 DEF IrqRemap
  <2>1. IntTypeOK'
    BY <1>0 DEF IntTypeOK
  <2>2. TablesInv'
    BY <1>0 DEF TablesInv, CallsOfMain
  <2>3. DriversInv'
    BY <1>0 DEF DriversInv
  <2>4. routines[1] = "NULL" /\ routines[4] = "NULL"
    BY <1>0 DEF DriversInv
  <2>5. RequestsInv'
    BY <1>0, <2>4 DEF RequestsInv, InputAskedFor, SignalNow, Signal
  <2> QED BY <1>1, <2>1, <2>2, <2>3, <2>5 DEF IntInv
<1>6. CASE IrqInstall
  <2> USE <1>6 DEF IrqInstall
  <2>1. gate' = [v \in Vector |-> IF v \in 32 .. 47 THEN [stub |-> "irq", sel |-> 8] ELSE gate[v]]
    BY DEF SetGates
  <2>2. IntTypeOK'
    BY <1>0, <2>1 DEF IntTypeOK
  <2>3. TablesInv'
    BY <1>0, <2>1 DEF TablesInv, CallsOfMain, Vector
  <2>4. DriversInv'
    BY <1>0 DEF DriversInv
  <2>5. RequestsInv'
    BY <1>0 DEF RequestsInv, InputAskedFor, SignalNow, Signal
  <2> QED BY <1>1, <2>2, <2>3, <2>4, <2>5 DEF IntInv
<1>7. CASE InitVideo
  <2> USE <1>7 DEF InitVideo
  <2>1. IntTypeOK'
    BY <1>0 DEF IntTypeOK
  <2>2. TablesInv'
    BY <1>0 DEF TablesInv, CallsOfMain
  <2>3. DriversInv'
    BY <1>0 DEF DriversInv
  <2>4. RequestsInv'
    BY <1>0 DEF RequestsInv, InputAskedFor, SignalNow, Signal
  <2> QED BY <1>1, <2>1, <2>2, <2>3, <2>4 DEF IntInv
<1>8. CASE TimerInstall
  <2> USE <1>8 DEF TimerInstall, InstallHandler
  <2>1. IntTypeOK'
    BY <1>0 DEF IntTypeOK, Handlers
  <2>2. TablesInv'
    BY <1>0 DEF TablesInv, CallsOfMain
  <2>3. DriversInv'
    BY <1>0 DEF DriversInv, IntTypeOK
  <2>4. RequestsInv'
    BY <1>0 DEF RequestsInv, InputAskedFor, SignalNow, Signal, IntTypeOK
  <2> QED BY <1>1, <2>1, <2>2, <2>3, <2>4 DEF IntInv
<1>9. CASE KeyboardInstall
  <2> USE <1>9 DEF KeyboardInstall, InstallHandler
  <2>1. IntTypeOK'
    BY <1>0 DEF IntTypeOK, Handlers
  <2>2. TablesInv'
    BY <1>0 DEF TablesInv, CallsOfMain
  <2>3. DriversInv'
    BY <1>0 DEF DriversInv, IntTypeOK
  <2>4. RequestsInv'
    BY <1>0 DEF RequestsInv, InputAskedFor, SignalNow, Signal, IntTypeOK
  <2> QED BY <1>1, <2>1, <2>2, <2>3, <2>4 DEF IntInv
<1>10. CASE SerialInstall
  <2> USE <1>10 DEF SerialInstall, InstallHandler
  <2>1. IntTypeOK'
    <3>1. routines' \in [0 .. 15 -> Handlers]
      BY <1>0 DEF IntTypeOK, Handlers
    <3>2. /\ received' \in 0 .. FIFO
          /\ receiving' \in BOOLEAN
          /\ ~waited'
      <4>1. received' = 0 /\ receiving' = FALSE /\ waited' = FALSE
        OBVIOUS
      <4> HIDE <1>10 DEF SerialInstall
      <4>2. 0 \in 0 .. FIFO
        OBVIOUS
      <4> QED BY <4>1, <4>2
    <3>3. UNCHANGED <<enabled, screen, full, codes, gate, faults, request, master, slave>>
      OBVIOUS
    <3> HIDE <1>10 DEF SerialInstall
    <3> QED BY <1>0, <3>1, <3>2, <3>3 DEF IntTypeOK
  <2>2. TablesInv'
    BY <1>0 DEF TablesInv, CallsOfMain
  <2>3. DriversInv'
    BY <1>0 DEF DriversInv, IntTypeOK
  <2>4. routines[4] = "NULL"
    BY <1>0 DEF DriversInv
  <2>5. RequestsInv'
    BY <1>0, <2>4 DEF RequestsInv, InputAskedFor, SignalNow, Signal, IntTypeOK
  <2> QED BY <1>1, <2>1, <2>2, <2>3, <2>5 DEF IntInv
<1>11. CASE SerialEnable
  <2> USE <1>11 DEF SerialEnable, RaiseOnEdge
  <2>1. IntTypeOK'
    BY <1>0 DEF IntTypeOK
  <2>2. TablesInv'
    BY <1>0 DEF TablesInv, CallsOfMain
  <2>3. DriversInv'
    BY <1>0 DEF DriversInv
  <2>4. routines[4] # "NULL"
    BY <1>0 DEF DriversInv
  <2>5. RequestsInv'
    BY <1>0, <2>4 DEF RequestsInv, InputAskedFor, SignalNow, Signal, IntTypeOK
  <2> QED BY <1>1, <2>1, <2>2, <2>3, <2>5 DEF IntInv
<1>12. CASE PagingInstall
  <2> USE <1>12 DEF PagingInstall
  <2>1. IntTypeOK'
    BY <1>0 DEF IntTypeOK
  <2>2. TablesInv'
    BY <1>0 DEF TablesInv, CallsOfMain
  <2>3. DriversInv'
    BY <1>0 DEF DriversInv
  <2>4. RequestsInv'
    BY <1>0 DEF RequestsInv, InputAskedFor, SignalNow, Signal
  <2> QED BY <1>1, <2>1, <2>2, <2>3, <2>4 DEF IntInv
<1> QED BY <1>2, <1>3, <1>4, <1>5, <1>6, <1>7, <1>8, <1>9, <1>10, <1>11, <1>12 DEF Main

\* What a step leaves alone keeps its part of the invariant.
LEMMA TablesAlone ==
  ASSUME TablesInv, DriversInv, UNCHANGED <<pc, enabled, tableVars, base>>
  PROVE  TablesInv' /\ DriversInv'
BY DEF TablesInv, DriversInv, tableVars

\* The user's keys.
LEMMA KeyEventKeeps ==
  ASSUME IntInv, KeyEvent
  PROVE  IntInv'
<1> USE KeyFacts
<1>0. IntTypeOK /\ TablesInv /\ DriversInv /\ RequestsInv /\ KeysInv
  BY DEF IntInv
<1>1. /\ User
      /\ UNCHANGED <<pc, enabled, tableVars, picVars, serialVars, full, early, answered>>
  BY DEF KeyEvent
<1>2. KeysInv' /\ codes' # <<>> /\ Len(codes') = Len(codes) + 1 /\ Len(codes) < MaxCodes
  BY <1>0, <1>1, UserKeepsKeys
<1>3. TablesInv' /\ DriversInv'
  BY <1>0, <1>1, TablesAlone DEF picVars
<1>4. IntTypeOK'
  <2>1. Len(codes) \in Nat
    BY <1>0 DEF KeysInv, KeysTypeOK
  <2> QED BY <1>0, <1>1, <1>2, <2>1 DEF IntTypeOK, tableVars, picVars, serialVars
<1>5. RequestsInv'
  BY <1>0, <1>1 DEF RequestsInv, InputAskedFor, SignalNow, Signal, tableVars, picVars, serialVars
<1> QED BY <1>2, <1>3, <1>4, <1>5 DEF IntInv

\* The devices.
LEMMA DeviceKeeps ==
  ASSUME IntInv, Deliver \/ Receive \/ CharTimeout \/ \E l \in Line : Tick(l)
  PROVE  IntInv'
<1> USE LineFacts
<1>0. IntTypeOK /\ TablesInv /\ DriversInv /\ RequestsInv /\ KeysInv
  BY DEF IntInv
<1>1. UNCHANGED keyboardVars /\ UNCHANGED <<pc, enabled, tableVars, base>>
  BY DEF Deliver, Receive, CharTimeout, Tick, devVars, kbdVars
<1>2. KeysInv' /\ TablesInv' /\ DriversInv'
  BY <1>0, <1>1, TablesAlone, OtherStepsKeepKeys
<1>3. CASE Deliver
  <2>1. IntTypeOK'
    BY <1>0, <1>3 DEF Deliver, IntTypeOK, tableVars, serialVars, keyboardVars
  <2>2. /\ early => early'
        /\ routines[1] = "NULL" => early'
    <3>1. early' = (early \/ routines[1] = "NULL")
      BY <1>3 DEF Deliver
    <3> QED BY <3>1, Zenon
  <2>3. /\ full' /\ request' = request \cup {1}
        /\ UNCHANGED <<routines, received, receiving, waited, crowded>>
    BY <1>3 DEF Deliver, tableVars, serialVars
  <2>4. RequestsInv'
    BY <1>0, <2>2, <2>3 DEF RequestsInv, InputAskedFor, SignalNow, Signal
  <2> QED BY <1>2, <2>1, <2>4 DEF IntInv
<1>4. CASE Receive
  <2>0. received \in 0 .. FIFO /\ received' = received + 1 /\ received < FIFO
    BY <1>0, <1>4 DEF Receive, IntTypeOK
  <2>1. IntTypeOK'
    <3>1. received' \in 0 .. FIFO /\ (waited' => received' > 0)
      BY <1>0, <1>4, <2>0 DEF Receive, IntTypeOK
    <3>2. request' \subseteq Line
      BY <1>0, <1>4 DEF Receive, RaiseOnEdge, IntTypeOK
    <3>3. UNCHANGED <<enabled, screen, receiving, full, codes, gate, routines, faults, master, slave>>
      BY <1>4 DEF Receive, tableVars, kbdVars, keyboardVars
    <3> QED BY <1>0, <3>1, <3>2, <3>3 DEF IntTypeOK
  <2>2. RequestsInv'
    BY <1>0, <1>4, <2>0
    DEF Receive, RaiseOnEdge, RequestsInv, InputAskedFor, SignalNow, Signal, tableVars, kbdVars
  <2> QED BY <1>2, <2>1, <2>2 DEF IntInv
<1>5. CASE CharTimeout
  <2>1. IntTypeOK'
    <3>1. request' \subseteq Line
      BY <1>0, <1>5 DEF CharTimeout, RaiseOnEdge, IntTypeOK
    <3>2. /\ UNCHANGED <<enabled, screen, receiving, full, codes, gate, routines, faults, master, slave>>
          /\ received' = received /\ received > 0
      BY <1>5 DEF CharTimeout, tableVars, kbdVars, keyboardVars
    <3> QED BY <1>0, <3>1, <3>2 DEF IntTypeOK
  <2>2. RequestsInv'
    BY <1>0, <1>5
    DEF CharTimeout, RaiseOnEdge, RequestsInv, InputAskedFor, SignalNow, Signal, tableVars, kbdVars,
        IntTypeOK
  <2> QED BY <1>2, <2>1, <2>2 DEF IntInv
<1>6. ASSUME NEW l \in Line, Tick(l) PROVE IntInv'
  <2>1. IntTypeOK'
    BY <1>0, <1>6 DEF Tick, IntTypeOK, tableVars, devVars, serialVars, kbdVars, keyboardVars
  <2>2. RequestsInv'
    BY <1>0, <1>6
    DEF Tick, RequestsInv, InputAskedFor, SignalNow, Signal, tableVars, devVars, serialVars, kbdVars
  <2> QED BY <1>2, <2>1, <2>2 DEF IntInv
<1> QED BY <1>3, <1>4, <1>5, <1>6

\* The lines of both controllers come to the place of their number.
LEMMA VectorsInPlace ==
  ASSUME TablesInv, enabled, NEW l \in Line
  PROVE  VectorOf(l) = 32 + l /\ VectorOf(l) \in 32 .. 47
<1>1. base = [master |-> 32, slave |-> 40]
  BY DEF TablesInv, BeforeSti
<1> QED BY <1>1, LineFacts DEF VectorOf

\* An interrupt, with its handler.
LEMMA InterruptKeeps ==
  ASSUME IntInv, NEW l \in Line, Interrupt(l)
  PROVE  IntInv'
<1> USE LineFacts
<1>0. IntTypeOK /\ TablesInv /\ DriversInv /\ RequestsInv /\ KeysInv
  BY DEF IntInv
<1>1. enabled /\ l \in request /\ request' = request \ {l}
  BY DEF Interrupt, Heard
<1>2. VectorOf(l) = 32 + l /\ VectorOf(l) - 32 = l
  BY <1>0, <1>1, VectorsInPlace
<1>3. UNCHANGED <<pc, enabled, tableVars, base, early>>
  BY DEF Interrupt
<1>4. /\ routines[l] = "keyboard_handler" => ReadCode
      /\ routines[l] # "keyboard_handler" => UNCHANGED <<keyboardVars, full>>
      /\ routines[l] = "serial_handler" => SerialHandler
      /\ routines[l] # "serial_handler" => UNCHANGED serialVars
  BY <1>2 DEF Interrupt
<1>5. master' \subseteq 0 .. 7 /\ slave' \subseteq 8 .. 15
  <2>1. master \cup {IF l < 8 THEN l ELSE 2} \subseteq 0 .. 7
    BY <1>0 DEF IntTypeOK
  <2>2. slave \cup (IF l < 8 THEN {} ELSE {l}) \subseteq 8 .. 15
    BY <1>0 DEF IntTypeOK
  <2> QED BY <2>1, <2>2 DEF Interrupt, EndOfInterrupt
<1>6. routines[l] = "keyboard_handler" => l = 1 /\ full /\ codes # <<>>
  BY <1>0, <1>1 DEF DriversInv, RequestsInv, IntTypeOK
<1>7. routines[l] = "serial_handler" => l = 4 /\ received > 0
  BY <1>0, <1>1 DEF DriversInv, RequestsInv
<1>8. TablesInv' /\ DriversInv'
  BY <1>0, <1>3, TablesAlone
<1>9. KeysInv' /\ Len(codes') <= MaxCodes /\ (full' => codes' # <<>>)
  <2>1. CASE routines[l] = "keyboard_handler"
    <3>1. KeyboardHandler /\ full' = FALSE
      BY <1>4, <2>1 DEF ReadCode
    <3>2. KeysInv' /\ Len(codes') = Len(codes) - 1
      BY <1>0, <1>6, <2>1, <3>1, HandlerKeepsKeys
    <3>3. Len(codes) \in Nat /\ Len(codes) <= MaxCodes
      BY <1>0 DEF KeysInv, KeysTypeOK, IntTypeOK
    <3> QED BY <3>1, <3>2, <3>3, KeyFacts
  <2>2. CASE routines[l] # "keyboard_handler"
    BY <1>0, <1>4, <2>2, OtherStepsKeepKeys DEF IntTypeOK, keyboardVars
  <2> QED BY <2>1, <2>2
<1>10. /\ received' \in 0 .. FIFO /\ receiving' \in BOOLEAN /\ (waited' => received' > 0)
  <2>1. CASE routines[l] = "serial_handler"
    <3>1. received' = received - 1 /\ waited' = FALSE /\ receiving' = receiving
      BY <1>4, <2>1 DEF SerialHandler
    <3> QED BY <1>0, <1>7, <2>1, <3>1 DEF IntTypeOK
  <2>2. CASE routines[l] # "serial_handler"
    BY <1>0, <1>4, <2>2 DEF IntTypeOK, serialVars
  <2> QED BY <2>1, <2>2
<1>11. IntTypeOK'
  <2>1. UNCHANGED <<enabled, screen, gate, routines, faults>>
    BY <1>3 DEF tableVars
  <2> QED BY <1>0, <1>1, <1>5, <1>9, <1>10, <2>1 DEF IntTypeOK
<1>12. RequestsInv'
  <2>0. routines' = routines /\ early' = early
    BY <1>3 DEF tableVars
  <2>1. CASE l = 1
    <3>1. routines[1] = "NULL" \/ ReadCode
      BY <1>0, <1>4, <2>1 DEF DriversInv
    <3>2. UNCHANGED serialVars
      BY <1>4, <1>7, <2>1
    <3>3. ~(full' /\ routines[1] # "NULL")
      BY <3>1 DEF ReadCode
    <3>4. full' => full
      BY <1>4, <2>1, <3>1 DEF ReadCode
    <3> QED BY <1>0, <1>1, <2>0, <2>1, <3>2, <3>3, <3>4
            DEF RequestsInv, InputAskedFor, SignalNow, Signal, serialVars
  <2>2. CASE l = 4
    <3>1. full' = full
      BY <1>4, <1>6, <2>2
    <3>2. CASE routines[4] = "NULL"
      <4>1. UNCHANGED serialVars
        BY <1>4, <2>2, <3>2
      <4> QED BY <1>0, <1>1, <2>0, <2>2, <3>1, <3>2, <4>1
              DEF RequestsInv, InputAskedFor, SignalNow, Signal, serialVars
    <3>3. CASE routines[4] # "NULL"
      <4>1. SerialHandler
        BY <1>0, <1>4, <2>2, <3>3 DEF DriversInv
      <4>2. /\ received \in 0 .. FIFO /\ received' = received - 1 /\ ~waited'
        BY <1>0, <4>1 DEF SerialHandler, IntTypeOK
      <4>3. received > TRIGGER => crowded'
        <5>1. crowded' = (crowded \/ received > TRIGGER)
          BY <4>1 DEF SerialHandler
        <5> QED BY <5>1, Zenon
      <4>4. SignalNow' => received > TRIGGER
        BY <4>2 DEF SignalNow, Signal
      <4> QED BY <1>0, <1>1, <2>0, <2>2, <3>1, <3>3, <4>3, <4>4
              DEF RequestsInv, InputAskedFor
    <3> QED BY <3>2, <3>3
  <2>3. CASE l # 1 /\ l # 4
    <3>1. UNCHANGED serialVars /\ full' = full
      BY <1>4, <1>6, <1>7, <2>3
    <3> QED BY <1>0, <1>1, <2>0, <2>3, <3>1
            DEF RequestsInv, InputAskedFor, SignalNow, Signal, serialVars
  <2> QED BY <2>1, <2>2, <2>3
<1> QED BY <1>8, <1>9, <1>11, <1>12 DEF IntInv

LEMMA IntStep == IntInv /\ [Next]_vars => IntInv'
<1> SUFFICES ASSUME IntInv, [Next]_vars PROVE IntInv'
  OBVIOUS
<1>1. CASE Main
  BY <1>1, MainKeeps
<1>2. CASE PageFault
  <2>0. IntTypeOK /\ TablesInv /\ DriversInv /\ RequestsInv /\ KeysInv
    BY DEF IntInv
  <2> USE <1>2 DEF PageFault, Goto, tableVars, picVars, devVars, serialVars, kbdVars, keyboardVars
  <2>1. KeysInv'
    BY <2>0, OtherStepsKeepKeys
  <2>2. IntTypeOK'
    BY <2>0 DEF IntTypeOK
  <2>3. TablesInv' /\ DriversInv'
    BY <2>0, Order DEF TablesInv, CallsOfMain, DriversInv
  <2>4. RequestsInv'
    BY <2>0 DEF RequestsInv, InputAskedFor, SignalNow, Signal
  <2> QED BY <2>1, <2>2, <2>3, <2>4 DEF IntInv
<1>3. CASE KeyEvent
  BY <1>3, KeyEventKeeps
<1>4. CASE Deliver \/ Receive \/ CharTimeout
  BY <1>4, DeviceKeeps
<1>5. ASSUME NEW l \in Line, Tick(l) PROVE IntInv'
  BY <1>5, DeviceKeeps
<1>6. ASSUME NEW l \in Line, Interrupt(l) PROVE IntInv'
  BY <1>6, InterruptKeeps
<1>7. CASE UNCHANGED vars
  <2>0. IntTypeOK /\ TablesInv /\ DriversInv /\ RequestsInv /\ KeysInv
    BY DEF IntInv
  <2> USE <1>7 DEF vars, tableVars, picVars, devVars, serialVars, kbdVars, keyboardVars
  <2>1. KeysInv'
    BY <2>0, OtherStepsKeepKeys
  <2>2. IntTypeOK'
    BY <2>0 DEF IntTypeOK
  <2>3. TablesInv' /\ DriversInv'
    BY <2>0, TablesAlone
  <2>4. RequestsInv'
    BY <2>0 DEF RequestsInv, InputAskedFor, SignalNow, Signal
  <2> QED BY <2>1, <2>2, <2>3, <2>4 DEF IntInv
<1> QED BY <1>1, <1>2, <1>3, <1>4, <1>5, <1>6, <1>7 DEF Next
-----------------------------------------------------------------------------
(***************************************************************************)
(* The theorems.                                                           *)
(***************************************************************************)

\* The inductive invariant, from start.asm to the shell and a panic, with
\* interrupts and device events between any two of main's calls.
THEOREM IntInvariant == Spec => []IntInv
<1>1. Init => IntInv
  BY InitEstablishes
<1>2. IntInv /\ [Next]_vars => IntInv'
  BY IntStep
<1> QED BY <1>1, <1>2, PTL DEF Spec

\* Every interrupt finds its way to a handler that has what it needs, from
\* irq_install's sti on (irq.c:61): the gates, the segment and the controllers'
\* bases are there, the screen for an echo, the code or byte to be read.
THEOREM IntInterruptsLand == Spec => []InterruptsLand
<1>1. IntInv => InterruptsLand
  <2> SUFFICES ASSUME IntInv PROVE InterruptsLand
    OBVIOUS
  <2>0. IntTypeOK /\ TablesInv /\ DriversInv /\ RequestsInv
    BY DEF IntInv
  <2>1. ASSUME enabled, NEW l \in Line
        PROVE  /\ VectorOf(l) \in 32 .. 47
               /\ gate[VectorOf(l)].stub = "irq"
               /\ gdt[gate[VectorOf(l)].sel \div 8] = "code"
    <3>1. VectorOf(l) \in 32 .. 47
      BY <2>0, <2>1, VectorsInPlace
    <3>2. gate[VectorOf(l)] = [stub |-> "irq", sel |-> 8] /\ gdt = <<"code", "data">>
      BY <2>0, <2>1, <3>1, Order DEF TablesInv
    <3>3. gate[VectorOf(l)].sel = 8 /\ gate[VectorOf(l)].stub = "irq"
      BY <3>2
    <3>4. gdt[1] = "code" /\ 8 \div 8 = 1
      BY <3>2
    <3> QED BY <3>1, <3>3, <3>4
  <2>2. routines[1] = "keyboard_handler" => screen /\ (1 \in request => full)
    BY <2>0, Order DEF TablesInv, DriversInv, RequestsInv
  <2>3. routines[4] = "serial_handler" /\ 4 \in request => received > 0
    BY <2>0 DEF RequestsInv
  <2>4. pc = "shell" => gate[14].stub = "isr" /\ 14 \in faults
    BY <2>0, Order DEF TablesInv
  <2> QED BY <2>0, <2>1, <2>2, <2>3, <2>4 DEF InterruptsLand
<1> QED BY <1>1, IntInvariant, PTL

\* A code or bytes that wait have their request, save for the two cases in which
\* input stops for good (main.c:41, serial.c:12).
THEOREM IntInputAskedFor == Spec => []InputAskedFor
<1>1. IntInv => InputAskedFor
  BY DEF IntInv, RequestsInv
<1> QED BY <1>1, IntInvariant, PTL

\* A key gives the character that goes with the modifiers held when it went
\* down, however many codes wait in front of it (kbd.c:113, norm and shft).
THEOREM IntTypedAsHeld == Spec => []TypedAsHeld
<1>1. IntInv => TypedAsHeld
  BY HistoryTypesAsHeld DEF IntInv
<1> QED BY <1>1, IntInvariant, PTL
=============================================================================
