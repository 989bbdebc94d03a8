----------------------------- MODULE Interrupts -----------------------------
(***************************************************************************)
(* Interrupts from start.asm to the drivers: kernel/main.c installs the    *)
(* tables and handlers one by one, and interrupts arrive as soon as        *)
(* irq_install executes sti, in the middle of that.                        *)
(*                                                                         *)
(* The pair of interrupt controllers is taken from how irq_remap and       *)
(* irq_handler program them: edge triggered, fixed priority, an interrupt  *)
(* in service until the end-of-interrupt command.  Of the keyboard's       *)
(* controller and of the serial port, as serial_install programs it, there *)
(* is what raises a request: a code that comes into the empty output       *)
(* buffer, and bytes that reach the trigger level or lie there for a while.*)
(***************************************************************************)
EXTENDS Keyboard, FiniteSetsExt

CONSTANTS
  Line,        \* bound: the request lines that are used, of 0 .. 15
  FIFO,        \* the bytes the serial port holds, 16
  TRIGGER      \* the level that raises a request, 14

ASSUME InterruptsAssumption ==
  /\ Line \subseteq 0 .. 15 /\ {1, 4} \subseteq Line /\ 2 \notin Line
  /\ {FIFO, TRIGGER} \subseteq Nat \ {0} /\ TRIGGER <= FIFO

VARIABLES
  pc,          \* what main calls next; "shell", or "halted"
  enabled,     \* the processor's interrupt flag
  gdt,         \* the kinds of segment the processor knows
  gate,        \* idt: the gate of each vector
  base,        \* the first vectors of the two controllers
  request,     \* lines whose request waits in a controller
  master, slave,  \* lines in service in the two controllers
  routines,    \* irq_routines
  faults,      \* isrs_routines, those that are not NULL
  screen,      \* textmemptr points to video memory
  full,        \* the oldest code is in the keyboard controller's output buffer
  received,    \* bytes in the serial port's buffer
  receiving,   \* the serial port raises requests
  waited,      \* its bytes have lain there for the time of four others
  answered,    \* lines that were served while others still wait
  early,       \* a code came in when its handler was not there (history)
  crowded      \* the serial handler left a full buffer behind (history)

tableVars == <<gdt, gate, routines, faults, screen>>
picVars == <<base, request, master, slave>>
serialVars == <<received, receiving, waited, crowded>>
kbdVars == <<keyboardVars, full, early>>
devVars == <<serialVars, kbdVars, answered>>
vars == <<pc, enabled, tableVars, picVars, devVars>>

Vector == 0 .. 47      \* of 0 .. 255: there is no gate behind
NoGate == [stub |-> "none", sel |-> 0]
Handlers == {"NULL", "timer_handler", "keyboard_handler", "serial_handler"}

\* start: interrupts are off, and the controllers are as the firmware left them.
Init ==
  /\ pc = "gdt_install" /\ enabled = FALSE
  /\ gdt = <<>> /\ gate = [v \in Vector |-> NoGate]
  /\ base = [master |-> 8, slave |-> 112]
  /\ request = {} /\ master = {} /\ slave = {}
  /\ routines = [l \in 0 .. 15 |-> "NULL"] /\ faults = {}
  /\ screen = FALSE
  /\ received = 0 /\ receiving = FALSE /\ waited = FALSE
  /\ full = FALSE /\ answered = {}
  /\ early = FALSE /\ crowded = FALSE
  /\ KeyboardInit
-----------------------------------------------------------------------------
(* main, call by call.                                                     *)

Goto(from, to) == pc = from /\ pc' = to

\* gdt_install and gdt_flush: segment 8 * n is entry n.
GdtInstall ==
  /\ Goto("gdt_install", "idt_install")
  /\ gdt' = <<"code", "data">>
  /\ UNCHANGED <<enabled, gate, routines, faults, screen, picVars, devVars>>

\* idt_set_gate, for the vectors vs, each with the stub of its own.
SetGates(vs, stubs) ==
  gate' = [v \in Vector |-> IF v \in vs THEN [stub |-> stubs, sel |-> 8] ELSE gate[v]]

IdtInstall ==
  /\ Goto("idt_install", "isrs_install")
  /\ gate' = [v \in Vector |-> NoGate]
  /\ UNCHANGED <<enabled, gdt, routines, faults, screen, picVars, devVars>>

IsrsInstall ==
  /\ Goto("isrs_install", "irq_remap")
  /\ SetGates(0 .. 31, "isr")
  /\ UNCHANGED <<enabled, gdt, routines, faults, screen, picVars, devVars>>

\* The initialisation words make a controller forget what it was asked for: a
\* request that is still up raises no other.
IrqRemap ==
  /\ Goto("irq_remap", "irq_install")
  /\ base' = [master |-> 32, slave |-> 40]
  /\ request' = {} /\ master' = {} /\ slave' = {}
  /\ UNCHANGED <<enabled, tableVars, devVars>>

\* A mistake: the last gate is left out.
IrqInstall_OneLess ==
  /\ Goto("irq_install", "init_video")
  /\ SetGates(32 .. 46, "irq")
  /\ enabled' = TRUE
  /\ UNCHANGED <<gdt, routines, faults, screen, picVars, devVars>>

IrqInstall ==
  /\ Goto("irq_install", "init_video")
  /\ SetGates(32 .. 47, "irq")
  /\ enabled' = TRUE
  /\ UNCHANGED <<gdt, routines, faults, screen, picVars, devVars>>

InitVideo ==
  /\ Goto("init_video", "timer_install")
  /\ screen' = TRUE
  /\ UNCHANGED <<enabled, gdt, gate, routines, faults, picVars, devVars>>

InstallHandler(l, handler) ==
  /\ routines' = [routines EXCEPT ![l] = handler]
  /\ UNCHANGED <<enabled, gdt, gate, faults, screen>>

TimerInstall ==
  /\ Goto("timer_install", "keyboard_install")
  /\ InstallHandler(0, "timer_handler")
  /\ UNCHANGED <<picVars, devVars>>

KeyboardInstall ==
  /\ Goto("keyboard_install", "serial_install")
  /\ InstallHandler(1, "keyboard_handler")
  /\ UNCHANGED <<picVars, devVars>>

\* serial_install up to the handler: the port is silent, its buffer emptied.
SerialInstall ==
  /\ Goto("serial_install", "serial_enable")
  /\ received' = 0 /\ receiving' = FALSE /\ waited' = FALSE
  /\ InstallHandler(4, "serial_handler")
  /\ UNCHANGED <<picVars, kbdVars, answered, crowded>>

\* The serial port's request line, and what the controller makes of its edge.
Signal(n, on, w) == on /\ (n >= TRIGGER \/ w)
SignalNow == Signal(received, receiving, waited)
RaiseOnEdge ==
  request' = IF Signal(received', receiving', waited') /\ ~SignalNow
               THEN request \cup {4} ELSE request

SerialEnable ==
  /\ Goto("serial_enable", "paging_install")
  /\ receiving' = TRUE
  /\ UNCHANGED <<received, waited>> /\ RaiseOnEdge
  /\ UNCHANGED <<enabled, tableVars, base, master, slave, kbdVars, answered, crowded>>

\* What follows up to the shell has no part in this.
PagingInstall ==
  /\ Goto("paging_install", "shell")
  /\ faults' = faults \cup {14}
  /\ UNCHANGED <<enabled, gdt, gate, routines, screen, picVars, devVars>>

\* A page fault of the shell's commands crash and out: page_fault, or without
\* it fault_handler, panics, and the processor stops with interrupts off.
PageFault ==
  /\ Goto("shell", "halted")
  /\ enabled' = FALSE
  /\ UNCHANGED <<tableVars, picVars, devVars>>

Main ==
  \/ GdtInstall \/ IdtInstall \/ IsrsInstall \/ IrqRemap \/ IrqInstall \/ InitVideo
  \/ TimerInstall \/ KeyboardInstall \/ SerialInstall \/ SerialEnable \/ PagingInstall
-----------------------------------------------------------------------------
(* The devices.  They are slow: one that was served does not ask again     *)
(* while others still wait.  After a panic nothing matters any more.       *)

\* The keyboard sends a code to its controller, which keeps it until the output
\* buffer is free.
KeyEvent ==
  /\ pc # "halted"
  /\ User
  /\ UNCHANGED <<pc, enabled, tableVars, picVars, serialVars, full, early, answered>>

Deliver ==
  /\ pc # "halted"
  /\ codes # <<>> /\ ~full /\ 1 \notin answered
  /\ full' = TRUE
  /\ request' = request \cup {1}
  /\ early' = (early \/ routines[1] = "NULL")
  /\ UNCHANGED <<pc, enabled, tableVars, base, master, slave, serialVars, keyboardVars, answered>>

\* What comes before serial_install is thrown away there.
Receive ==
  /\ pc # "halted" /\ routines[4] # "NULL"
  /\ received < FIFO /\ 4 \notin answered
  /\ received' = received + 1
  /\ UNCHANGED <<receiving, waited>> /\ RaiseOnEdge
  /\ UNCHANGED <<pc, enabled, tableVars, base, master, slave, kbdVars, answered, crowded>>

CharTimeout ==
  /\ pc # "halted"
  /\ received > 0 /\ ~waited /\ 4 \notin answered
  /\ waited' = TRUE
  /\ UNCHANGED <<received, receiving>> /\ RaiseOnEdge
  /\ UNCHANGED <<pc, enabled, tableVars, base, master, slave, kbdVars, answered, crowded>>

\* The timer, whoever programmed it, and devices the kernel has no driver for.
Tick(l) ==
  /\ pc # "halted"
  /\ l \in Line \ ({1, 4} \cup answered)
  /\ request' = request \cup {l}
  /\ UNCHANGED <<pc, enabled, tableVars, base, master, slave, devVars>>
-----------------------------------------------------------------------------
(* An interrupt.                                                           *)

VectorOf(l) == IF l < 8 THEN base.master + l ELSE base.slave + l - 8

\* The place of a line in the order of priorities: 8 to 15 come in at 2.
Priority(l) == IF l < 8 THEN 16 * l ELSE 32 + l

\* A line is heard if nothing in service, and no other request, is before it.
Heard(l) ==
  /\ enabled /\ l \in request
  /\ \A m \in (request \ {l}) \cup slave : Priority(l) < Priority(m)
  /\ \A m \in master : Priority(l) < Priority(m)

\* A mistake: the second controller is not told.
EndOfInterrupt_MasterOnly(number, m, s) == [master |-> m \ {Min(m)}, slave |-> s]

\* The end of irq_handler: each command ends the first line in service.
EndOfInterrupt(number, m, s) ==
  [master |-> m \ {Min(m)},
   slave |-> IF number >= 40 THEN s \ {Min(s)} ELSE s]

\* A mistake: the scancode stays in the port when no method is there for it.
ReadCode_IfMethod ==
  IF KeyMethod[Head(codes).key] = "norm"
    THEN KeyboardHandler /\ full' = FALSE ELSE UNCHANGED <<keyboardVars, full>>

ReadCode == KeyboardHandler /\ full' = FALSE

\* serial_handler takes one byte, however many there are.
SerialHandler ==
  /\ received' = received - 1
  /\ waited' = FALSE
  /\ crowded' = (crowded \/ received > TRIGGER)
  /\ UNCHANGED receiving

\* _irqN, irq_handler and the handler, with interrupts off from the gate to
\* iret.  The handler is looked up by the number that the stub pushed.
Interrupt(l) ==
  /\ Heard(l)
  /\ request' = request \ {l}
  /\ answered' = IF request = {l} THEN {} ELSE answered \cup {l}
  /\ LET number == VectorOf(l)
         handler == routines[number - 32]
         ended == EndOfInterrupt(number,
                    master \cup {IF l < 8 THEN l ELSE 2},
                    slave \cup (IF l < 8 THEN {} ELSE {l}))
     IN /\ master' = ended.master /\ slave' = ended.slave
        /\ IF handler = "keyboard_handler" THEN ReadCode ELSE UNCHANGED <<keyboardVars, full>>
        /\ IF handler = "serial_handler" THEN SerialHandler ELSE UNCHANGED serialVars
  /\ UNCHANGED <<pc, enabled, tableVars, base, early>>

Next ==
  \/ Main \/ PageFault
  \/ KeyEvent \/ Deliver \/ Receive \/ CharTimeout
  \/ \E l \in Line : Tick(l) \/ Interrupt(l)

\* The processor goes on, through main and with what it is asked for.
Fairness == WF_vars(Main) /\ WF_vars(\E l \in Line : Interrupt(l))

Spec == Init /\ [][Next]_vars /\ Fairness
-----------------------------------------------------------------------------
(* Properties.                                                             *)

\* The tables, controllers and buffers hold what theirs can hold.
IntTypeOK ==
  /\ enabled \in BOOLEAN /\ screen \in BOOLEAN /\ receiving \in BOOLEAN
  /\ (full => codes # <<>>) /\ (waited => received > 0)
  /\ gate \in [Vector -> [stub : {"none", "isr", "irq"}, sel : {0, 8}]]
  /\ routines \in [0 .. 15 -> Handlers] /\ faults \subseteq 0 .. 31
  /\ request \subseteq Line /\ master \subseteq 0 .. 7 /\ slave \subseteq 8 .. 15
  /\ received \in 0 .. FIFO /\ Len(codes) <= MaxCodes

\* From sti on, whatever main has installed by then, an interrupt finds the
\* way to irq_handler, and the handler finds what it relies on: a screen to
\* echo on, a code and a byte to read (serial_recv would wait for one for ever,
\* with interrupts off).  In the shell a page fault finds its handler.
InterruptsLand ==
  /\ IntTypeOK
  /\ enabled =>
       /\ \A l \in Line :
            /\ VectorOf(l) \in 32 .. 47
            /\ gate[VectorOf(l)].stub = "irq"
            /\ gdt[gate[VectorOf(l)].sel \div 8] = "code"
       /\ routines[1] = "keyboard_handler" => screen /\ (1 \in request => full)
       /\ routines[4] = "serial_handler" /\ 4 \in request => received > 0
  /\ pc = "shell" => gate[14].stub = "isr" /\ 14 \in faults

\* A code or bytes that the kernel has to read have their request, so that they
\* are read.  Two cases are left out, where input has stopped for ever: a code
\* that came before the keyboard's handler was there (main.c:41; irq_remap
\* forgets its request, and without a handler nobody reads it) fills the buffer,
\* which raises no other request; and a serial buffer still at the trigger level
\* when the handler has taken its one byte (serial.c:12) gives no edge.
InputAskedFor ==
  /\ full /\ ~early => 1 \in request
  /\ SignalNow /\ ~crowded => 4 \in request

\* Every request is served, as long as the kernel has not panicked: no handler
\* leaves a controller waiting for the end of an interrupt.
RequestsServed == \A l \in Line : l \in request ~> l \notin request \/ pc = "halted"
=============================================================================
