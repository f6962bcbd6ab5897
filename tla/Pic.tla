-------------------------------- MODULE Pic --------------------------------
(***************************************************************************)
(* The interrupt controller (device/PIC.cpp), the keyboard controller that *)
(* shares its data register (device/keyboard.cpp) and the interrupt unit   *)
(* of the processor (interrupt.cpp).  Their operations are action          *)
(* fragments: Machine gives them their place in the emulator's main loop.  *)
(*                                                                         *)
(* Besides the program's state the module keeps a history of the events    *)
(* that raised requests; no guard reads it.                                *)
(***************************************************************************)
EXTENDS OutBuf

Irq == 0 .. 15
Lines == {KeyboardIrq, MouseIrq}

VARIABLES
  imr,               \* IMR: a delivered line is masked until end of interrupt
  irr,               \* IRR: lines that chk_irq found and has not queued yet
  interrupt_queue,   \* requests waiting for the processor
  buf,               \* the byte the keyboard controller returns on port 0x60
  \* history
  origin,            \* for each request in interrupt_queue, what raised it
  served,            \* the delivered interrupts, in order, with their origin
  unacked            \* lines delivered since the last end of interrupt

picVars == <<imr, irr, interrupt_queue, buf, origin, served, unacked>>

\* What raised a request: the slot chk_irq popped, and the event it latched.
Origin == [slot : Slot, first : Value, second : Lines]

PicInit ==
  /\ imr = [i \in Irq |-> FALSE]
  /\ irr = [i \in Irq |-> FALSE]
  /\ interrupt_queue = <<>>
  /\ buf = 0
  /\ origin = <<>>
  /\ served = <<>>
  /\ unacked = {}

-----------------------------------------------------------------------------
(***************************************************************************)
(* chk_irq.  Latch is the part before the loop: it looks at the front of   *)
(* out_buf, event or not, and only while interrupts are enabled.  The loop *)
(* over IRR queues the raised lines in ascending order, one RaiseLine per  *)
(* line: it pops out_buf once per line, and line 0 has to wait while       *)
(* interrupts are enabled.                                                 *)
(***************************************************************************)
\* Mutant: the line is latched while interrupts are disabled, too.
LatchDisabledMutant(enabled) ==
  /\ IF Front.second \in Lines
     THEN /\ irr' = [irr EXCEPT ![Front.second] = TRUE]
          /\ buf' = Front.first
     ELSE UNCHANGED <<irr, buf>>
  /\ UNCHANGED <<imr, interrupt_queue, origin, served, unacked, start>>

\* Mutant: whatever the front holds is taken for an event.
LatchAnyMutant(enabled) ==
  /\ IF enabled
     THEN /\ irr' = [irr EXCEPT ![Front.second] = TRUE]
          /\ buf' = Front.first
     ELSE UNCHANGED <<irr, buf>>
  /\ UNCHANGED <<imr, interrupt_queue, origin, served, unacked, start>>

Latch(enabled) ==
  /\ IF enabled /\ Front.second \in Lines
     THEN /\ irr' = [irr EXCEPT ![Front.second] = TRUE]
          /\ buf' = Front.first
     ELSE UNCHANGED <<irr, buf>>
  /\ UNCHANGED <<imr, interrupt_queue, origin, served, unacked, start>>

\* Lines whose turn it is in the loop.
Raised(enabled) == {i \in Irq : irr[i] /\ ~(i = 0 /\ enabled)}

\* Mutant: the request is queued and the event stays in out_buf.
RaiseLineMutant(enabled, i) ==
  /\ i \in Raised(enabled)
  /\ \A j \in Raised(enabled) : i <= j
  /\ interrupt_queue' = Append(interrupt_queue, i)
  /\ irr' = [irr EXCEPT ![i] = FALSE]
  /\ origin' = Append(origin, [slot |-> start, first |-> buf, second |-> i])
  /\ UNCHANGED <<imr, buf, served, unacked, start>>

RaiseLine(enabled, i) ==
  /\ i \in Raised(enabled)
  /\ \A j \in Raised(enabled) : i <= j
  /\ interrupt_queue' = Append(interrupt_queue, i)
  /\ Pop
  /\ irr' = [irr EXCEPT ![i] = FALSE]
  /\ origin' = Append(origin, [slot |-> start, first |-> buf, second |-> i])
  /\ UNCHANGED <<imr, buf, served, unacked>>

-----------------------------------------------------------------------------
(***************************************************************************)
(* exec_interrupt: the request at the head of the queue is delivered if    *)
(* interrupts are enabled and its line is not masked; a masked head makes  *)
(* the requests behind it wait.                                            *)
(***************************************************************************)
\* Mutant: the test of IMR is missing.
DeliverableMutant(enabled) == interrupt_queue # <<>> /\ enabled

Deliverable(enabled) ==
  /\ interrupt_queue # <<>>
  /\ enabled
  /\ ~imr[Head(interrupt_queue)]

Deliver ==
  /\ imr' = [imr EXCEPT ![Head(interrupt_queue)] = TRUE]
  /\ interrupt_queue' = Tail(interrupt_queue)
  /\ served' = Append(served, Head(origin))
  /\ origin' = Tail(origin)
  /\ unacked' = unacked \cup {Head(interrupt_queue)}
  /\ UNCHANGED <<irr, buf, start>>

-----------------------------------------------------------------------------
(***************************************************************************)
(* Port accesses.                                                          *)
(***************************************************************************)
\* Mutant: end of interrupt forgets the mouse.
EoiLinesMutant == {KeyboardIrq}

\* The lines that a write to port 0x20 releases.
EoiLines == {KeyboardIrq, MouseIrq}

\* PIC::out8 on port 0x20: end of interrupt, whatever the byte written.
EndOfInterrupt ==
  /\ imr' = [i \in Irq |-> imr[i] /\ i \notin EoiLines]
  /\ irr' = [i \in Irq |-> irr[i] /\ i \notin EoiLines]
  /\ unacked' = unacked \ Lines
  /\ UNCHANGED <<interrupt_queue, buf, origin, served, start>>

\* keyboard::in8 on port 0x60: the caller gets the low byte of buf, and an
\* acknowledgement takes one more element off out_buf, each time it is read
\* and whether or not there is one.
\* Mutant: every byte that is read takes one more element off out_buf.
PopsAgainMutant == TRUE

PopsAgain == buf = Ack

ReadData ==
  /\ IF PopsAgain THEN Pop ELSE UNCHANGED start
  /\ UNCHANGED picVars

\* keyboard::out8 on port 0x60: the controller acknowledges on the mouse line.
AckEvents == <<[first |-> Ack, second |-> MouseIrq]>>

PicTypeOK ==
  /\ imr \in [Irq -> BOOLEAN]
  /\ irr \in [Irq -> BOOLEAN]
  /\ interrupt_queue \in Seq(Lines)
  /\ buf \in Value
  /\ origin \in Seq(Origin)
  /\ served \in Seq(Origin)
  /\ unacked \subseteq Lines
=============================================================================
