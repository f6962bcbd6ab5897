--------------------------- MODULE MachineProofs ---------------------------
(***************************************************************************)
(* Theorems of Machine for every guest, every input and every size of the  *)
(* queue, with one or two producers and with fresh or recycled memory.     *)
(***************************************************************************)
EXTENDS Machine, TLAPS

-----------------------------------------------------------------------------
(***************************************************************************)
(* The producers of out_buf never write past the slots they may use,       *)
(* however their accesses interleave: both cursors are bounded by the      *)
(* number of pushes that are complete.                                     *)
(***************************************************************************)
\* Pushes that have been completed, by either thread.
Completed == pushes - Len(todo[Gui]) - Len(todo[Emu])

OutBufInv ==
  /\ OutBufTypeOK
  /\ finish <= Completed
  /\ \A t \in Thread : cursor[t] <= Completed

LEMMA ThreadsDiffer == Gui \in Thread /\ Emu \in Thread /\ Gui # Emu
  BY DEF Gui, Emu, Thread

\* The queue starts empty, whatever its memory holds.
LEMMA OutBufInitInv == OutBufInit => OutBufInv
<1> SUFFICES ASSUME OutBufInit PROVE OutBufInv
  OBVIOUS
<1>1. OutBufTypeOK
  BY OutBufAssumption DEF OutBufInit, OutBufTypeOK, Slot, StartSlot
<1>2. /\ pushes = 0 /\ todo[Gui] = <<>> /\ todo[Emu] = <<>>
      /\ finish = 0 /\ \A t \in Thread : cursor[t] = 0
  BY ThreadsDiffer DEF OutBufInit
<1>3. Completed = 0
  <2>1. pushes = 0 /\ Len(todo[Gui]) = 0 /\ Len(todo[Emu]) = 0
    BY <1>1, <1>2, ThreadsDiffer DEF OutBufTypeOK
  <2>2. 0 - 0 - 0 = 0
    OBVIOUS
  <2>3. QED
    BY <2>1, <2>2, Zenon DEF Completed
<1>4. QED
  BY <1>1, <1>2, <1>3 DEF OutBufInv

\* A callback begins: its events are to be pushed, nothing is complete yet.
LEMMA BeginPushesInv ==
  ASSUME OutBufInv, NEW t \in Thread, NEW events \in Seq(Event),
         BeginPushes(t, events), start' \in StartSlot
  PROVE  OutBufInv'
<1> USE OutBufAssumption, ThreadsDiffer DEF OutBufInv, OutBufTypeOK, Slot, BeginPushes
<1>1. Completed' = Completed
  <2>1. Len(todo[t]) = 0 /\ Len(todo'[t]) = Len(events) /\ Len(events) \in Nat
    OBVIOUS
  <2>2. \A s \in Thread : s # t => todo'[s] = todo[s]
    OBVIOUS
  <2>3. Len(todo[Gui]) \in Nat /\ Len(todo[Emu]) \in Nat
    OBVIOUS
  <2>4. CASE t = Gui
    BY <2>1, <2>2, <2>3, <2>4 DEF Completed
  <2>5. CASE t = Emu
    BY <2>1, <2>2, <2>3, <2>5 DEF Completed
  <2>6. QED
    BY <2>4, <2>5 DEF Thread
<1>2. todo' \in [Thread -> Seq(Event)]
  OBVIOUS
<1>3. pushes' \in Slot
  OBVIOUS
<1>4. QED
  BY <1>1, <1>2, <1>3

\* A push that is not complete leaves a slot free for it.
LEMMA RoomForPush ==
  ASSUME OutBufInv, NEW t \in Thread, todo[t] # <<>>
  PROVE  Completed \in Int /\ Completed < NodeSlots
<1> USE OutBufAssumption, ThreadsDiffer DEF OutBufInv, OutBufTypeOK, Slot
<1>1. Len(todo[t]) > 0 /\ Len(todo[Gui]) >= 0 /\ Len(todo[Emu]) >= 0
  OBVIOUS
<1>2. QED
  BY <1>1 DEF Completed, Thread

LEMMA PushInv ==
  ASSUME OutBufInv, NEW t \in Thread, Push(t), start' \in StartSlot
  PROVE  OutBufInv'
<1> USE OutBufAssumption, ThreadsDiffer DEF OutBufInv, OutBufTypeOK, Slot
<1>0. todo[t] # <<>>
  BY DEF Push, PushAim, PushWrite, PushLoad, PushStore
<1>r. Completed \in Int /\ Completed < NodeSlots
  BY <1>0, RoomForPush
<1>1. CASE PushAim(t)
  BY <1>1, <1>r DEF PushAim, Completed
<1>2. CASE PushWrite(t)
  <2>1. Head(todo[t]) \in Event
    BY <1>0
  <2>3. slots' \in [Slot -> Event \cup {Unwritten}]
    BY <1>2, <2>1 DEF PushWrite
  <2>4. Completed' = Completed
    BY <1>2 DEF PushWrite, Completed
  <2>5. QED
    BY <1>2, <2>3, <2>4 DEF PushWrite
<1>3. CASE PushLoad(t)
  BY <1>3, <1>r DEF PushLoad, Completed
<1>4. CASE PushStore(t)
  <2>1. Tail(todo[t]) \in Seq(Event) /\ Len(Tail(todo[t])) = Len(todo[t]) - 1
    BY <1>0
  <2>2. todo' \in [Thread -> Seq(Event)]
    BY <1>4, <2>1 DEF PushStore
  <2>3. Completed' = Completed + 1
    <3>1. Len(todo'[t]) \in Nat /\ Len(todo[t]) = Len(todo'[t]) + 1 /\ pushes' = pushes
      BY <1>4, <2>1 DEF PushStore
    <3>2. \A s \in Thread : s # t => todo'[s] = todo[s]
      BY <1>4 DEF PushStore
    <3>3. Len(todo[Gui]) \in Nat /\ Len(todo[Emu]) \in Nat
      OBVIOUS
    <3>. pushes \in Int
      OBVIOUS
    <3>. HIDE DEF OutBufInv, OutBufTypeOK, Slot
    <3>4. CASE t = Gui
      <4>1. Len(todo'[Gui]) \in Nat /\ Len(todo[Gui]) = Len(todo'[Gui]) + 1
        BY <3>1, <3>4
      <4>2. todo'[Emu] = todo[Emu]
        BY <3>2, <3>4
      <4>3. QED
        BY <3>1, <3>3, <4>1, <4>2 DEF Completed
    <3>5. CASE t = Emu
      <4>1. Len(todo'[Emu]) \in Nat /\ Len(todo[Emu]) = Len(todo'[Emu]) + 1
        BY <3>1, <3>5
      <4>2. todo'[Gui] = todo[Gui]
        BY <3>2, <3>5
      <4>3. QED
        BY <3>1, <3>3, <4>1, <4>2 DEF Completed
    <3>6. QED
      BY <3>4, <3>5 DEF Thread
  <2>4. finish' = cursor[t] + 1 /\ finish' \in Slot /\ finish' <= Completed'
    BY <1>4, <1>r, <2>3 DEF PushStore
  <2>5. QED
    BY <1>4, <1>r, <2>2, <2>3, <2>4 DEF PushStore
<1>5. QED
  BY <1>1, <1>2, <1>3, <1>4 DEF Push

\* The pushes of the callbacks and of the keyboard controller are events.
LEMMA CallbackEvents ==
  /\ \A k \in Keys : KeyEvents(k) \in Seq(Event)
  /\ \A x, y \in Coords : MouseEvents(x, y) \in Seq(Event)
  BY DEF KeyEvents, MouseEvents, Event, Value

-----------------------------------------------------------------------------
(***************************************************************************)
(* The inductive invariant.                                                *)
(***************************************************************************)
\* A line is raised only between the two halves of chk_irq, with interrupts
\* enabled, and then the slot it came from has not been popped yet.
RaisedLineInv ==
  \A i \in Irq : irr[i] =>
    /\ phase = "raise"
    /\ intFlag
    /\ i \in Lines
    /\ start \in Slot
    /\ \A j \in Irq : irr[j] => j = i

\* The history of the pending requests matches interrupt_queue.
OriginInv ==
  /\ Len(origin) = Len(interrupt_queue)
  /\ \A k \in 1 .. Len(origin) : origin[k].second = interrupt_queue[k]

\* The mask is exactly what was delivered since the last end of interrupt.
MaskInv == \A i \in Irq : imr[i] <=> i \in unacked

\* What a guest that ends its interrupts before it enables them can rely on.
DisciplineInv ==
  EoiBeforeSti =>
    /\ intFlag => \A i \in Irq : ~imr[i]
    /\ inHandler => /\ ~intFlag
                    /\ served # <<>>
                    /\ buf = served[Len(served)].first
    /\ interrupt_queue # <<>> =>
         /\ phase \in {"raise", "exec_interrupt"}
         /\ intFlag
         /\ Len(interrupt_queue) = 1
         /\ origin[1].first = buf
         /\ \A i \in Irq : ~irr[i]

ControlTypeOK ==
  /\ phase \in Phase
  /\ intFlag \in BOOLEAN
  /\ al \in 0 .. 255
  /\ inHandler \in BOOLEAN

MachineInv ==
  /\ OutBufInv
  /\ PicTypeOK
  /\ ControlTypeOK
  /\ RaisedLineInv
  /\ OriginInv
  /\ EachSlotOnce
  /\ MaskInv
  /\ DisciplineInv

-----------------------------------------------------------------------------
(***************************************************************************)
(* Sequences.                                                              *)
(***************************************************************************)
LEMMA AppendFacts ==
  ASSUME NEW S, NEW s \in Seq(S), NEW e \in S
  PROVE  /\ Append(s, e) \in Seq(S)
         /\ Len(Append(s, e)) = Len(s) + 1
         /\ \A i \in 1 .. Len(s) : Append(s, e)[i] = s[i]
         /\ Append(s, e)[Len(s) + 1] = e
  OBVIOUS

LEMMA TailFacts ==
  ASSUME NEW S, NEW s \in Seq(S), s # <<>>
  PROVE  /\ Head(s) = s[1] /\ Head(s) \in S
         /\ Tail(s) \in Seq(S)
         /\ Len(s) \in Nat /\ Len(s) >= 1
         /\ Len(Tail(s)) = Len(s) - 1
         /\ \A i \in 1 .. Len(s) - 1 : Tail(s)[i] = s[i + 1]
  OBVIOUS

LEMMA LinesAreIrqs == Lines \subseteq Irq /\ 0 \notin Lines /\ Lines = {1, 12}
  BY DEF Lines, Irq, KeyboardIrq, MouseIrq

-----------------------------------------------------------------------------
(***************************************************************************)
(* Initial states.                                                         *)
(***************************************************************************)
LEMMA InitInv == Init => MachineInv
<1> SUFFICES ASSUME Init PROVE MachineInv
  OBVIOUS
<1>1. OutBufInv
  BY OutBufInitInv DEF Init
<1>2. PicTypeOK
  BY DEF Init, PicInit, PicTypeOK, Value
<1>3. ControlTypeOK
  <2>1. al \in 0 .. 255
    BY DEF Init
  <2>2. QED
    BY <2>1 DEF Init, ControlTypeOK, Phase
<1>4. RaisedLineInv /\ OriginInv /\ MaskInv
  BY DEF Init, PicInit, RaisedLineInv, OriginInv, MaskInv
<1>5. EachSlotOnce
  BY DEF Init, PicInit, EachSlotOnce, InSlotOrder
<1>6. DisciplineInv
  BY DEF Init, PicInit, DisciplineInv
<1>7. QED
  BY <1>1, <1>2, <1>3, <1>4, <1>5, <1>6 DEF MachineInv

-----------------------------------------------------------------------------
(***************************************************************************)
(* chk_irq.                                                                *)
(***************************************************************************)
\* What chk_irq finds at the front and takes for an event is one.
LEMMA FrontIsEvent ==
  ASSUME OutBufInv, InNode, Front.second \in Lines
  PROVE  Front \in Event
<1>1. slots[start] # Unwritten
  BY LinesAreIrqs DEF Front, Unwritten
<1>2. QED
  BY <1>1 DEF Front, InNode, OutBufInv, OutBufTypeOK

\* Steps that leave the queue alone keep its invariant.
LEMMA OutBufUnchanged ==
  ASSUME OutBufInv, UNCHANGED producerVars, start' \in StartSlot
  PROVE  OutBufInv'
  BY DEF OutBufInv, OutBufTypeOK, producerVars, Completed

LEMMA LatchInv == MachineInv /\ ChkIrqLatch => MachineInv'
<1> SUFFICES ASSUME MachineInv, ChkIrqLatch PROVE MachineInv'
  OBVIOUS
<1> USE DEF MachineInv
<1>1. /\ phase = "chk_irq" /\ phase' = "raise" /\ InNode
      /\ UNCHANGED <<producerVars, start, intFlag, al, inHandler>>
      /\ UNCHANGED <<imr, interrupt_queue, origin, served, unacked>>
  BY DEF ChkIrqLatch, Goto, Latch
<1>2. OutBufInv'
  BY <1>1, OutBufUnchanged DEF OutBufInv, OutBufTypeOK
<1>3. ControlTypeOK'
  BY <1>1 DEF ControlTypeOK, Phase
<1>4. \A i \in Irq : ~irr[i]
  BY <1>1 DEF RaisedLineInv
<1>5. /\ OriginInv'
      /\ EachSlotOnce'
      /\ MaskInv'
  BY <1>1 DEF OriginInv, EachSlotOnce, InSlotOrder, MaskInv
<1>6. CASE intFlag /\ Front.second \in Lines
  <2>1. /\ irr' = [irr EXCEPT ![Front.second] = TRUE]
        /\ buf' = Front.first
    BY <1>6 DEF ChkIrqLatch, Latch
  <2>2. Front \in Event /\ start \in Slot
    BY <1>1, <1>6, FrontIsEvent DEF InNode
  <2>3. PicTypeOK'
    BY <1>1, <2>1, <2>2 DEF PicTypeOK, Event
  <2>4. \A i \in Irq : irr'[i] => i = Front.second
    BY <1>4, <1>6, <2>1 DEF PicTypeOK
  <2>5. RaisedLineInv'
    BY <1>1, <1>6, <2>2, <2>4 DEF RaisedLineInv
  <2>6. DisciplineInv'
    BY <1>1, <1>6 DEF DisciplineInv
  <2>7. QED
    BY <1>2, <1>3, <1>5, <2>3, <2>5, <2>6
<1>7. CASE ~(intFlag /\ Front.second \in Lines)
  <2>1. UNCHANGED <<irr, buf>>
    BY <1>7 DEF ChkIrqLatch, Latch
  <2>2. PicTypeOK'
    BY <1>1, <2>1 DEF PicTypeOK
  <2>3. RaisedLineInv'
    BY <1>4, <2>1 DEF RaisedLineInv
  <2>4. DisciplineInv'
    BY <1>1, <2>1 DEF DisciplineInv
  <2>5. QED
    BY <1>2, <1>3, <1>5, <2>2, <2>3, <2>4
<1>8. QED
  BY <1>6, <1>7

LEMMA SlotsAreIntegers ==
  ASSUME PicTypeOK
  PROVE  /\ \A k \in 1 .. Len(served) : served[k].slot \in Int
         /\ \A k \in 1 .. Len(origin) : origin[k].slot \in Int
<1>1. \A r \in Origin : r.slot \in Int
  BY OutBufAssumption DEF Origin, Slot
<1>2. /\ \A k \in 1 .. Len(served) : served[k] \in Origin
      /\ \A k \in 1 .. Len(origin) : origin[k] \in Origin
  BY DEF PicTypeOK
<1>3. QED
  BY <1>1, <1>2

LEMMA RaiseInv == MachineInv /\ ChkIrqRaise => MachineInv'
<1> SUFFICES ASSUME MachineInv, ChkIrqRaise PROVE MachineInv'
  OBVIOUS
<1> USE DEF MachineInv
<1>1. PICK i \in Irq : RaiseLine(intFlag, i)
  BY DEF ChkIrqRaise
<1>2. /\ phase = "raise" /\ phase' = "raise"
      /\ UNCHANGED <<producerVars, intFlag, al, inHandler, imr, buf, served, unacked>>
  BY <1>1 DEF ChkIrqRaise, Goto, RaiseLine
<1>3. /\ interrupt_queue' = Append(interrupt_queue, i)
      /\ start' = start + 1
      /\ irr' = [irr EXCEPT ![i] = FALSE]
      /\ origin' = Append(origin, [slot |-> start, first |-> buf, second |-> i])
  BY <1>1 DEF RaiseLine, Pop
<1>4. irr[i] /\ i \in Lines /\ intFlag /\ start \in Slot /\ \A j \in Irq : irr[j] => j = i
  BY <1>1 DEF RaiseLine, Raised, RaisedLineInv
<1>5. start' \in StartSlot /\ start \in Int /\ NodeSlots \in Nat
  BY <1>3, <1>4, OutBufAssumption DEF Slot, StartSlot
<1>6. OutBufInv'
  BY <1>2, <1>5, OutBufUnchanged
<1>7. ControlTypeOK'
  BY <1>2 DEF ControlTypeOK
<1> DEFINE new == [slot |-> start, first |-> buf, second |-> i]
<1>8. new \in Origin /\ new.slot = start /\ new.first = buf /\ new.second = i
  BY <1>4, <1>5 DEF Origin, PicTypeOK
<1>9. /\ origin \in Seq(Origin) /\ origin' \in Seq(Origin)
      /\ Len(origin') = Len(origin) + 1 /\ Len(origin) \in Nat
      /\ \A k \in 1 .. Len(origin) : origin'[k] = origin[k]
      /\ origin'[Len(origin) + 1] = new
  BY <1>3, <1>8, AppendFacts DEF PicTypeOK
<1>10. /\ interrupt_queue' \in Seq(Lines)
       /\ Len(interrupt_queue') = Len(interrupt_queue) + 1 /\ Len(interrupt_queue) \in Nat
       /\ \A k \in 1 .. Len(interrupt_queue) : interrupt_queue'[k] = interrupt_queue[k]
       /\ interrupt_queue'[Len(interrupt_queue) + 1] = i
  BY <1>3, <1>4, AppendFacts DEF PicTypeOK
<1> HIDE DEF new
<1>11. \A j \in Irq : ~irr'[j]
  BY <1>3, <1>4 DEF PicTypeOK
<1>12. PicTypeOK'
  BY <1>2, <1>3, <1>9, <1>10 DEF PicTypeOK
<1>13. RaisedLineInv' /\ MaskInv'
  BY <1>2, <1>11 DEF RaisedLineInv, MaskInv
<1>14. OriginInv'
  BY <1>8, <1>9, <1>10 DEF OriginInv
<1>15. EachSlotOnce'
  <2>0. /\ \A k \in 1 .. Len(served) : served[k].slot \in Int
        /\ \A k \in 1 .. Len(origin) : origin[k].slot \in Int
    BY SlotsAreIntegers
  <2>a. \A k \in 1 .. Len(served') : served'[k].slot < start'
    <3>1. \A k \in 1 .. Len(served) : served[k].slot < start
      BY DEF EachSlotOnce
    <3>2. \A n \in Int : n < start => n < start + 1
      BY <1>5
    <3>3. QED
      BY <1>2, <1>3, <2>0, <3>1, <3>2
  <2>1. InSlotOrder(served)'
    BY <1>2 DEF EachSlotOnce, InSlotOrder
  <2>2. \A k \in 1 .. Len(origin') : origin'[k].slot < start'
    <3>1. \A k \in 1 .. Len(origin) : origin[k].slot < start + 1
      BY <1>5, <2>0 DEF EachSlotOnce
    <3>2. new.slot < start + 1
      BY <1>5, <1>8
    <3>3. QED
      BY <1>3, <1>9, <3>1, <3>2
  <2>3. InSlotOrder(origin)'
    BY <1>8, <1>9 DEF EachSlotOnce, InSlotOrder
  <2>4. \A j \in 1 .. Len(served'), k \in 1 .. Len(origin') : served'[j].slot < origin'[k].slot
    BY <1>2, <1>8, <1>9 DEF EachSlotOnce
  <2>5. QED
    BY <2>a, <2>1, <2>2, <2>3, <2>4 DEF EachSlotOnce
<1>16. DisciplineInv'
  <2>1. SUFFICES ASSUME EoiBeforeSti PROVE DisciplineInv'
    BY DEF DisciplineInv
  <2>2. interrupt_queue = <<>>
    BY <1>4, <2>1 DEF DisciplineInv
  <2>3. Len(interrupt_queue') = 1 /\ origin'[1].first = buf'
    BY <1>2, <1>8, <1>9, <1>10, <2>2 DEF OriginInv
  <2>4. QED
    BY <1>2, <1>4, <1>11, <2>1, <2>3 DEF DisciplineInv
<1>17. QED
  BY <1>6, <1>7, <1>12, <1>13, <1>14, <1>15, <1>16

\* The end of the loop: nothing is raised any more.
LEMMA DoneInv == MachineInv /\ ChkIrqDone => MachineInv'
<1> SUFFICES ASSUME MachineInv, ChkIrqDone PROVE MachineInv'
  OBVIOUS
<1> USE DEF MachineInv
<1>1. /\ phase = "raise" /\ phase' = "exec_interrupt"
      /\ UNCHANGED <<outBufVars, picVars, intFlag, al, inHandler>>
  BY DEF ChkIrqDone, Goto
<1>2. \A i \in Irq : ~irr[i]
  BY LinesAreIrqs DEF ChkIrqDone, Raised, RaisedLineInv
<1>3. OutBufInv'
  BY <1>1, OutBufUnchanged DEF outBufVars, producerVars, OutBufInv, OutBufTypeOK
<1>4. PicTypeOK' /\ OriginInv' /\ EachSlotOnce' /\ MaskInv'
  BY <1>1 DEF picVars, outBufVars, PicTypeOK, OriginInv, EachSlotOnce, InSlotOrder, MaskInv
<1>5. ControlTypeOK' /\ RaisedLineInv'
  BY <1>1, <1>2 DEF ControlTypeOK, Phase, RaisedLineInv, picVars
<1>6. DisciplineInv'
  BY <1>1 DEF DisciplineInv, picVars
<1>7. QED
  BY <1>3, <1>4, <1>5, <1>6

-----------------------------------------------------------------------------
(***************************************************************************)
(* exec_interrupt.                                                         *)
(***************************************************************************)
LEMMA InterruptInv == MachineInv /\ Interrupt => MachineInv'
<1> SUFFICES ASSUME MachineInv, Interrupt PROVE MachineInv'
  OBVIOUS
<1> USE DEF MachineInv
<1>1. /\ phase = "exec_interrupt" /\ phase' = "execute"
      /\ intFlag /\ intFlag' = FALSE /\ inHandler' = TRUE
      /\ interrupt_queue # <<>>
      /\ UNCHANGED <<producerVars, start, al, irr, buf>>
  BY DEF Interrupt, Goto, Deliverable, Deliver
<1>2. /\ imr' = [imr EXCEPT ![Head(interrupt_queue)] = TRUE]
      /\ interrupt_queue' = Tail(interrupt_queue)
      /\ served' = Append(served, Head(origin))
      /\ origin' = Tail(origin)
      /\ unacked' = unacked \cup {Head(interrupt_queue)}
  BY DEF Interrupt, Deliver
<1>3. /\ interrupt_queue \in Seq(Lines) /\ origin \in Seq(Origin) /\ served \in Seq(Origin)
  BY DEF PicTypeOK
<1>4. origin # <<>>
  BY <1>1, <1>3 DEF OriginInv
<1>5. /\ Head(interrupt_queue) = interrupt_queue[1] /\ Head(interrupt_queue) \in Lines
      /\ interrupt_queue' \in Seq(Lines)
      /\ Len(interrupt_queue) \in Nat /\ Len(interrupt_queue) >= 1
      /\ Len(interrupt_queue') = Len(interrupt_queue) - 1
      /\ \A k \in 1 .. Len(interrupt_queue) - 1 : interrupt_queue'[k] = interrupt_queue[k + 1]
  BY <1>1, <1>2, <1>3, TailFacts
<1>6. /\ Head(origin) = origin[1] /\ Head(origin) \in Origin
      /\ origin' \in Seq(Origin)
      /\ Len(origin) \in Nat /\ Len(origin) >= 1
      /\ Len(origin') = Len(origin) - 1
      /\ \A k \in 1 .. Len(origin) - 1 : origin'[k] = origin[k + 1]
  BY <1>2, <1>3, <1>4, TailFacts
<1>7. /\ served' \in Seq(Origin)
      /\ Len(served) \in Nat /\ Len(served') = Len(served) + 1
      /\ \A k \in 1 .. Len(served) : served'[k] = served[k]
      /\ served'[Len(served) + 1] = origin[1]
  BY <1>2, <1>3, <1>6, AppendFacts
<1>8. OutBufInv'
  BY <1>1, OutBufUnchanged DEF OutBufInv, OutBufTypeOK
<1>9. ControlTypeOK'
  BY <1>1 DEF ControlTypeOK, Phase
<1>10. PicTypeOK'
  <2>1. imr' \in [Irq -> BOOLEAN] /\ irr' \in [Irq -> BOOLEAN] /\ buf' \in Value
    BY <1>1, <1>2, <1>5, LinesAreIrqs DEF PicTypeOK
  <2>2. unacked' \subseteq Lines
    BY <1>2, <1>5 DEF PicTypeOK
  <2>3. QED
    BY <1>5, <1>6, <1>7, <2>1, <2>2 DEF PicTypeOK
<1>11. RaisedLineInv'
  BY <1>1 DEF RaisedLineInv
<1>12. OriginInv'
  <2>1. Len(origin') = Len(interrupt_queue') /\ Len(origin) = Len(interrupt_queue)
    BY <1>5, <1>6 DEF OriginInv
  <2>2. ASSUME NEW k \in 1 .. Len(origin') PROVE origin'[k].second = interrupt_queue'[k]
    <3>1. k \in 1 .. Len(origin) - 1 /\ k + 1 \in 1 .. Len(origin)
      BY <1>6
    <3>2. origin[k + 1].second = interrupt_queue[k + 1]
      BY <3>1 DEF OriginInv
    <3>3. origin'[k] = origin[k + 1] /\ interrupt_queue'[k] = interrupt_queue[k + 1]
      BY <1>5, <1>6, <2>1, <3>1
    <3>4. QED
      BY <3>2, <3>3
  <2>3. QED
    BY <2>1, <2>2 DEF OriginInv
<1>13. MaskInv'
  BY <1>2, <1>5, LinesAreIrqs DEF MaskInv, PicTypeOK
<1>14. EachSlotOnce'
  <2>1. InSlotOrder(served)'
    <3> SUFFICES ASSUME NEW i \in 1 .. Len(served'), NEW j \in 1 .. Len(served'), i < j
                 PROVE  served'[i].slot < served'[j].slot
      BY DEF InSlotOrder
    <3>1. i \in 1 .. Len(served) /\ served'[i] = served[i]
      BY <1>7
    <3>2. CASE j \in 1 .. Len(served)
      BY <1>7, <3>1, <3>2 DEF EachSlotOnce, InSlotOrder
    <3>3. CASE j = Len(served) + 1
      <4>1. served[i].slot < origin[1].slot
        BY <1>6, <3>1 DEF EachSlotOnce
      <4>2. QED
        BY <1>7, <3>1, <3>3, <4>1
    <3>4. QED
      BY <1>7, <3>2, <3>3
  <2>2. InSlotOrder(origin)'
    BY <1>6 DEF EachSlotOnce, InSlotOrder
  <2>3. \A j \in 1 .. Len(served'), k \in 1 .. Len(origin') : served'[j].slot < origin'[k].slot
    <3> SUFFICES ASSUME NEW j \in 1 .. Len(served'), NEW k \in 1 .. Len(origin')
                 PROVE  served'[j].slot < origin'[k].slot
      OBVIOUS
    <3>1. k + 1 \in 1 .. Len(origin) /\ 1 \in 1 .. Len(origin) /\ 1 < k + 1 /\ origin'[k] = origin[k + 1]
      BY <1>6
    <3>2. CASE j \in 1 .. Len(served)
      BY <1>7, <3>1, <3>2 DEF EachSlotOnce
    <3>3. CASE j = Len(served) + 1
      BY <1>7, <3>1, <3>3 DEF EachSlotOnce, InSlotOrder
    <3>4. QED
      BY <1>7, <3>2, <3>3
  <2>4. \A k \in 1 .. Len(served') : served'[k].slot < start'
    BY <1>1, <1>6, <1>7 DEF EachSlotOnce
  <2>5. \A k \in 1 .. Len(origin') : origin'[k].slot < start'
    BY <1>1, <1>6 DEF EachSlotOnce
  <2>6. QED
    BY <2>1, <2>2, <2>3, <2>4, <2>5 DEF EachSlotOnce
<1>15. DisciplineInv'
  <2>1. SUFFICES ASSUME EoiBeforeSti PROVE DisciplineInv'
    BY DEF DisciplineInv
  <2>2. Len(interrupt_queue) = 1 /\ origin[1].first = buf
    BY <1>1, <2>1 DEF DisciplineInv
  <2>3. interrupt_queue' = <<>>
    BY <1>5, <2>2
  <2>4. served' # <<>> /\ buf' = served'[Len(served')].first
    BY <1>1, <1>7, <2>2
  <2>5. QED
    BY <1>1, <2>1, <2>3, <2>4 DEF DisciplineInv
<1>16. QED
  BY <1>8, <1>9, <1>10, <1>11, <1>12, <1>13, <1>14, <1>15

-----------------------------------------------------------------------------
(***************************************************************************)
(* The other steps.                                                        *)
(***************************************************************************)
\* A step of the emulator thread that leaves the interrupt controller alone,
\* and moves the start cursor of out_buf forward at most.
LEMMA QuietStepInv ==
  ASSUME MachineInv, phase # "raise", EoiBeforeSti => interrupt_queue = <<>>,
         UNCHANGED picVars, OutBufInv', start' >= start, ControlTypeOK',
         intFlag' => intFlag \/ (EoiBeforeSti => \A i \in Irq : ~imr[i]),
         inHandler' => inHandler /\ (intFlag' => intFlag)
  PROVE  MachineInv'
<1> USE DEF MachineInv
<1>1. PicTypeOK' /\ OriginInv' /\ MaskInv'
  BY DEF picVars, PicTypeOK, OriginInv, MaskInv
<1>2. RaisedLineInv'
  BY DEF picVars, RaisedLineInv
<1>3. EachSlotOnce'
  <2>1. start \in Int /\ start' \in Int
    BY OutBufAssumption DEF OutBufInv, OutBufTypeOK, StartSlot
  <2>2. /\ \A k \in 1 .. Len(served) : served[k].slot \in Int
        /\ \A k \in 1 .. Len(origin) : origin[k].slot \in Int
    BY SlotsAreIntegers
  <2>3. \A n \in Int : n < start => n < start'
    BY <2>1
  <2>4. QED
    BY <2>2, <2>3 DEF picVars, EachSlotOnce, InSlotOrder
<1>4. DisciplineInv'
  BY DEF picVars, DisciplineInv
<1>5. QED
  BY <1>1, <1>2, <1>3, <1>4

\* The guest executes only when the requests, if it ends its interrupts, are
\* all delivered.
LEMMA QueueWhileExecuting ==
  ASSUME MachineInv, phase \notin {"raise", "exec_interrupt"}
  PROVE  EoiBeforeSti => interrupt_queue = <<>>
  BY DEF MachineInv, DisciplineInv

LEMMA NoInterruptInv == MachineInv /\ NoInterrupt => MachineInv'
<1> SUFFICES ASSUME MachineInv, NoInterrupt PROVE MachineInv'
  OBVIOUS
<1> USE DEF MachineInv
<1>1. /\ phase = "exec_interrupt" /\ phase' = "execute"
      /\ ~Deliverable(intFlag)
      /\ UNCHANGED <<producerVars, start, picVars, intFlag, al, inHandler>>
  BY DEF NoInterrupt, Goto, outBufVars, producerVars
<1>2. start' \in StartSlot /\ start' >= start
  BY <1>1, OutBufAssumption DEF OutBufInv, OutBufTypeOK, StartSlot
<1>3. EoiBeforeSti => interrupt_queue = <<>>
  <2>1. SUFFICES ASSUME EoiBeforeSti, interrupt_queue # <<>> PROVE FALSE
    OBVIOUS
  <2>2. intFlag /\ \A i \in Irq : ~imr[i]
    BY <2>1 DEF DisciplineInv
  <2>3. Head(interrupt_queue) \in Irq
    BY <2>1, TailFacts, LinesAreIrqs DEF PicTypeOK
  <2>4. QED
    BY <1>1, <2>1, <2>2, <2>3 DEF Deliverable
<1>4. OutBufInv'
  BY <1>1, <1>2, OutBufUnchanged
<1>5. ControlTypeOK'
  BY <1>1 DEF ControlTypeOK, Phase
<1>6. QED
  BY <1>1, <1>2, <1>3, <1>4, <1>5, QuietStepInv

\* What an instruction that touches neither the queue nor the controller
\* leaves alone.
LEMMA InstructionInv ==
  ASSUME MachineInv, phase = "execute", phase' \in Phase, UNCHANGED <<outBufVars, picVars>>,
         al' \in 0 .. 255, intFlag' \in BOOLEAN, inHandler' \in BOOLEAN,
         intFlag' => intFlag \/ (EoiBeforeSti => \A i \in Irq : ~imr[i]),
         inHandler' => inHandler /\ (intFlag' => intFlag)
  PROVE  MachineInv'
<1>1. OutBufInv /\ start \in StartSlot /\ start \in Int
  BY OutBufAssumption DEF MachineInv, OutBufInv, OutBufTypeOK, StartSlot
<1>2. OutBufInv' /\ start' >= start
  BY <1>1, OutBufUnchanged DEF outBufVars, producerVars
<1>3. ControlTypeOK'
  BY DEF ControlTypeOK
<1>4. QED
  BY <1>2, <1>3, QueueWhileExecuting, QuietStepInv

LEMMA StiInv == MachineInv /\ Sti => MachineInv'
<1> SUFFICES ASSUME MachineInv, Sti PROVE MachineInv'
  OBVIOUS
<1>1. /\ phase = "execute" /\ phase' \in Phase /\ UNCHANGED <<outBufVars, picVars>>
      /\ intFlag' = TRUE /\ inHandler' = FALSE /\ al' = al
      /\ EoiBeforeSti => \A i \in Irq : ~imr[i]
  BY DEF Sti, Execute, Goto, Phase
<1>2. al' \in 0 .. 255
  BY <1>1 DEF MachineInv, ControlTypeOK
<1>3. QED
  BY <1>1, <1>2, InstructionInv

\* cli, instructions without effect here, writes to other ports, and stopping.
LEMMA PlainInstructionInv ==
  MachineInv /\ (Cli \/ Other \/ OutOther \/ Stop) => MachineInv'
<1> SUFFICES ASSUME MachineInv, Cli \/ Other \/ OutOther \/ Stop PROVE MachineInv'
  OBVIOUS
<1>1. /\ phase = "execute" /\ phase' \in Phase /\ UNCHANGED <<outBufVars, picVars>>
      /\ intFlag' \in {intFlag, FALSE} /\ inHandler' = inHandler /\ al' = al
  BY DEF Cli, Other, OutOther, Stop, Execute, Goto, Phase
<1>2. al' \in 0 .. 255 /\ intFlag \in BOOLEAN /\ inHandler \in BOOLEAN
  BY <1>1 DEF MachineInv, ControlTypeOK
<1>3. intFlag' \in BOOLEAN /\ inHandler' \in BOOLEAN /\ (intFlag' => intFlag)
  <2>1. CASE intFlag' = intFlag
    BY <1>1, <1>2, <2>1, Zenon
  <2>2. CASE intFlag' = FALSE
    BY <1>1, <1>2, <2>2, Zenon
  <2>3. QED
    BY <1>1, <2>1, <2>2
<1>4. QED
  BY <1>1, <1>2, <1>3, InstructionInv

LEMMA InOtherInv == ASSUME NEW port \in InPorts, MachineInv, InOther(port) PROVE MachineInv'
<1>1. /\ phase = "execute" /\ phase' \in Phase /\ UNCHANGED <<outBufVars, picVars>>
      /\ intFlag' = intFlag /\ inHandler' = inHandler /\ al' \in InByte(port)
  BY DEF InOther, Execute, Goto, Phase
<1>2. InByte(port) \subseteq 0 .. 255
  BY MachineAssumption DEF InByte
<1>3. intFlag \in BOOLEAN /\ inHandler \in BOOLEAN
  BY DEF MachineInv, ControlTypeOK
<1>4. QED
  BY <1>1, <1>2, <1>3, InstructionInv

\* The byte of an event, whatever its sign.
LEMMA ByteRange == \A v \in Value : v % 256 \in 0 .. 255
  BY OutBufAssumption DEF Value, Ack

LEMMA InDataInv == MachineInv /\ InData => MachineInv'
<1> SUFFICES ASSUME MachineInv, InData PROVE MachineInv'
  OBVIOUS
<1>1. /\ phase = "execute" /\ phase' \in Phase /\ UNCHANGED <<producerVars, picVars>>
      /\ intFlag' = intFlag /\ inHandler' = inHandler /\ al' = buf % 256
  BY DEF InData, ReadData, Execute, Goto, Phase
<1>2. start \in StartSlot /\ start \in Int /\ NodeSlots \in Nat
  BY OutBufAssumption DEF MachineInv, OutBufInv, OutBufTypeOK, StartSlot
<1>3. start' = start \/ (start \in Slot /\ start' = start + 1)
  BY DEF InData, ReadData, Pop, InNode
<1>4. start' \in StartSlot /\ start' >= start
  BY <1>2, <1>3 DEF Slot, StartSlot
<1>5. OutBufInv'
  BY <1>1, <1>4, OutBufUnchanged DEF MachineInv
<1>6. ControlTypeOK'
  BY <1>1, ByteRange DEF MachineInv, ControlTypeOK, PicTypeOK
<1>7. QED
  BY <1>1, <1>4, <1>5, <1>6, QueueWhileExecuting, QuietStepInv

\* The step that leaves the node changes nothing that the invariant names.
LEMMA FollowsWildCursorInv == MachineInv /\ FollowsWildCursor => MachineInv'
<1> SUFFICES ASSUME MachineInv, FollowsWildCursor PROVE MachineInv'
  OBVIOUS
<1>1. /\ phase \in {"chk_irq", "execute"} /\ phase' = "wild"
      /\ UNCHANGED <<producerVars, start, picVars, intFlag, al, inHandler>>
  BY DEF FollowsWildCursor, outBufVars, producerVars
<1>2. start' \in StartSlot /\ start' >= start
  BY <1>1, OutBufAssumption DEF MachineInv, OutBufInv, OutBufTypeOK, StartSlot
<1>3. OutBufInv'
  BY <1>1, <1>2, OutBufUnchanged DEF MachineInv
<1>4. ControlTypeOK'
  BY <1>1 DEF MachineInv, ControlTypeOK, Phase
<1>5. QED
  BY <1>1, <1>2, <1>3, <1>4, QueueWhileExecuting, QuietStepInv

LEMMA OutEoiInv == MachineInv /\ OutEoi => MachineInv'
<1> SUFFICES ASSUME MachineInv, OutEoi PROVE MachineInv'
  OBVIOUS
<1> USE DEF MachineInv
<1>1. /\ phase = "execute" /\ phase' \in Phase
      /\ UNCHANGED <<producerVars, intFlag, al, inHandler>>
      /\ UNCHANGED <<interrupt_queue, buf, origin, served, start>>
      /\ imr' = [i \in Irq |-> imr[i] /\ i \notin Lines]
      /\ irr' = [i \in Irq |-> irr[i] /\ i \notin Lines]
      /\ unacked' = unacked \ Lines
  BY DEF OutEoi, EndOfInterrupt, EoiLines, Lines, Execute, Goto, Phase
<1>2. OutBufInv'
  BY <1>1, OutBufUnchanged DEF OutBufInv, OutBufTypeOK
<1>3. ControlTypeOK'
  BY <1>1 DEF ControlTypeOK
<1>4. PicTypeOK'
  BY <1>1 DEF PicTypeOK
<1>5. RaisedLineInv' /\ OriginInv' /\ EachSlotOnce'
  BY <1>1 DEF RaisedLineInv, OriginInv, EachSlotOnce, InSlotOrder
<1>6. MaskInv'
  BY <1>1 DEF MaskInv
<1>7. DisciplineInv'
  BY <1>1 DEF DisciplineInv
<1>8. QED
  BY <1>2, <1>3, <1>4, <1>5, <1>6, <1>7

-----------------------------------------------------------------------------
(***************************************************************************)
(* Producers.                                                              *)
(***************************************************************************)
LEMMA OutDataInv == MachineInv /\ OutData => MachineInv'
<1> SUFFICES ASSUME MachineInv, OutData PROVE MachineInv'
  OBVIOUS
<1>1. /\ phase = "execute" /\ phase' \in Phase /\ BeginPushes(Emu, AckEvents)
      /\ UNCHANGED <<start, picVars, intFlag, al, inHandler>>
  BY DEF OutData, Goto, Phase
<1>2. AckEvents \in Seq(Event)
  BY DEF AckEvents, Event, Value
<1>3. start' \in StartSlot /\ start' >= start
  BY <1>1, OutBufAssumption DEF MachineInv, OutBufInv, OutBufTypeOK, StartSlot
<1>4. OutBufInv'
  BY <1>1, <1>2, <1>3, ThreadsDiffer, BeginPushesInv DEF MachineInv
<1>5. ControlTypeOK'
  BY <1>1 DEF MachineInv, ControlTypeOK
<1>6. QED
  BY <1>1, <1>3, <1>4, <1>5, QueueWhileExecuting, QuietStepInv

LEMMA EmuPushInv == MachineInv /\ EmuPush => MachineInv'
<1> SUFFICES ASSUME MachineInv, EmuPush PROVE MachineInv'
  OBVIOUS
<1>1. /\ phase = "pushing" /\ phase' \in Phase /\ Push(Emu)
      /\ UNCHANGED <<start, picVars, intFlag, al, inHandler>>
  BY DEF EmuPush, Phase
<1>2. start' \in StartSlot /\ start' >= start
  BY <1>1, OutBufAssumption DEF MachineInv, OutBufInv, OutBufTypeOK, StartSlot
<1>3. OutBufInv'
  BY <1>1, <1>2, ThreadsDiffer, PushInv DEF MachineInv
<1>4. ControlTypeOK'
  BY <1>1 DEF MachineInv, ControlTypeOK
<1>5. QED
  BY <1>1, <1>2, <1>3, <1>4, QueueWhileExecuting, QuietStepInv

\* A step of the window thread disturbs nothing but the queue.
LEMMA GuiThreadInv == MachineInv /\ GuiThread => MachineInv'
<1> SUFFICES ASSUME MachineInv, GuiThread PROVE MachineInv'
  OBVIOUS
<1> USE DEF MachineInv
<1>1. UNCHANGED <<start, picVars, phase, intFlag, al, inHandler>>
  BY DEF GuiThread, GuiPush, GuiCallback
<1>2. start' \in StartSlot
  BY <1>1 DEF OutBufInv, OutBufTypeOK
<1>3. ASSUME GuiPush PROVE OutBufInv'
  BY <1>2, <1>3, ThreadsDiffer, PushInv DEF GuiPush
<1>4. ASSUME GuiCallback PROVE OutBufInv'
  BY <1>2, <1>4, ThreadsDiffer, CallbackEvents, BeginPushesInv
     DEF GuiCallback, KeyboardCallback, MouseCallback
<1>5. OutBufInv'
  BY <1>3, <1>4 DEF GuiThread
<1>6. PicTypeOK' /\ ControlTypeOK'
  BY <1>1 DEF picVars, PicTypeOK, ControlTypeOK
<1>7. RaisedLineInv' /\ OriginInv' /\ EachSlotOnce' /\ MaskInv'
  BY <1>1 DEF picVars, RaisedLineInv, OriginInv, EachSlotOnce, InSlotOrder, MaskInv
<1>8. DisciplineInv'
  BY <1>1 DEF picVars, DisciplineInv
<1>9. QED
  BY <1>5, <1>6, <1>7, <1>8

-----------------------------------------------------------------------------
(***************************************************************************)
(* Theorems.                                                               *)
(***************************************************************************)
LEMMA StepInv == MachineInv /\ [Next]_vars => MachineInv'
<1> SUFFICES ASSUME MachineInv, [Next]_vars PROVE MachineInv'
  OBVIOUS
<1>1. CASE EmuThread
  <2>1. CASE ChkIrqLatch
    BY <2>1, LatchInv
  <2>2. CASE ChkIrqRaise
    BY <2>2, RaiseInv
  <2>3. CASE ChkIrqDone
    BY <2>3, DoneInv
  <2>4. CASE Interrupt
    BY <2>4, InterruptInv
  <2>5. CASE NoInterrupt
    BY <2>5, NoInterruptInv
  <2>6. CASE Sti
    BY <2>6, StiInv
  <2>7. CASE Cli \/ Other \/ OutOther \/ Stop
    BY <2>7, PlainInstructionInv
  <2>8. CASE InData
    BY <2>8, InDataInv
  <2>9. CASE \E port \in InPorts : InOther(port)
    BY <2>9, InOtherInv
  <2>10. CASE OutEoi
    BY <2>10, OutEoiInv
  <2>11. CASE OutData
    BY <2>11, OutDataInv
  <2>12. CASE EmuPush
    BY <2>12, EmuPushInv
  <2>13. CASE FollowsWildCursor
    BY <2>13, FollowsWildCursorInv
  <2>14. QED
    BY <1>1, <2>1, <2>2, <2>3, <2>4, <2>5, <2>6, <2>7, <2>8, <2>9, <2>10, <2>11, <2>12, <2>13
       DEF EmuThread, In, Out
<1>2. CASE GuiThread
  BY <1>2, GuiThreadInv
<1>3. CASE UNCHANGED vars
  <2>1. OutBufInv'
    BY <1>3, OutBufUnchanged DEF MachineInv, OutBufInv, OutBufTypeOK, vars, outBufVars, producerVars
  <2>2. PicTypeOK' /\ ControlTypeOK' /\ RaisedLineInv' /\ OriginInv'
    BY <1>3 DEF MachineInv, PicTypeOK, ControlTypeOK, RaisedLineInv, OriginInv, vars, outBufVars, picVars
  <2>3. EachSlotOnce' /\ MaskInv' /\ DisciplineInv'
    BY <1>3 DEF MachineInv, EachSlotOnce, InSlotOrder, MaskInv, DisciplineInv, vars, outBufVars, picVars
  <2>4. QED
    BY <2>1, <2>2, <2>3 DEF MachineInv
<1>4. QED
  BY <1>1, <1>2, <1>3 DEF Next

\* The inductive invariant holds in every reachable state.
THEOREM Invariance == Spec => []MachineInv
  BY InitInv, StepInv, PTL DEF Spec

\* Type correctness: whatever the interleaving of the producers, every push
\* stays inside the queue's node, the start cursor goes no further than one
\* pop out of it, and requests are only on the keyboard and the mouse line,
\* whatever the memory that chk_irq looks at holds.
THEOREM TypeCorrect == Spec => []TypeOK
<1>1. MachineInv => TypeOK
  BY DEF MachineInv, OutBufInv, ControlTypeOK, TypeOK
<1>2. QED
  BY <1>1, Invariance, PTL

\* No element of out_buf raises two interrupts, and interrupts are delivered
\* in the order of the queue: for any guest, and even while two threads push
\* without a lock.
THEOREM NoDuplicateInterrupt == Spec => []EachSlotOnce
<1>1. MachineInv => EachSlotOnce
  BY DEF MachineInv
<1>2. QED
  BY <1>1, Invariance, PTL

\* A guest that ends its interrupts before it enables them never has a
\* request waiting while it executes.
THEOREM OneRequest == Spec => []OneRequestAtATime
<1>1. MachineInv => OneRequestAtATime
  <2> SUFFICES ASSUME MachineInv, EoiBeforeSti
               PROVE  /\ Len(interrupt_queue) <= 1
                      /\ phase \in {"chk_irq", "execute", "pushing", "halted"} => interrupt_queue = <<>>
    BY DEF OneRequestAtATime
  <2>1. CASE interrupt_queue = <<>>
    BY <2>1
  <2>2. CASE interrupt_queue # <<>>
    BY <2>2 DEF MachineInv, DisciplineInv
  <2>3. QED
    BY <2>1, <2>2
<1>2. QED
  BY <1>1, Invariance, PTL

\* Such a guest reads from port 0x60, before it enables interrupts again, the
\* byte of the event whose interrupt it is handling.
THEOREM HandlerReads == Spec => HandlerReadsItsByte
<1>1. MachineInv /\ [Next]_vars
        => [EoiBeforeSti /\ inHandler /\ InData => al' = served[Len(served)].first % 256]_vars
  BY DEF MachineInv, DisciplineInv, InData
<1>2. QED
  BY <1>1, Invariance, PTL DEF Spec, HandlerReadsItsByte

\* A line is never delivered twice without an end of interrupt in between, for
\* any guest.
THEOREM NotReentered == Spec => NoReentry
<1>1. ASSUME MachineInv, Next, Len(served') # Len(served)
      PROVE  served'[Len(served')].second \notin unacked
  <2>1. Interrupt
    BY <1>1 DEF Next, EmuThread, GuiThread, GuiPush, GuiCallback, ChkIrqLatch, Latch,
       ChkIrqRaise, RaiseLine, ChkIrqDone, NoInterrupt, Sti, Cli, Other, Stop, In, InData,
       ReadData, InOther, Out, OutEoi, EndOfInterrupt, OutData, OutOther, EmuPush,
       FollowsWildCursor, picVars
  <2>2. /\ interrupt_queue # <<>> /\ ~imr[Head(interrupt_queue)]
        /\ served' = Append(served, Head(origin))
    BY <2>1 DEF Interrupt, Deliverable, Deliver
  <2>3. /\ Len(interrupt_queue) >= 1 /\ Head(interrupt_queue) = interrupt_queue[1]
        /\ Head(interrupt_queue) \in Irq
    BY <1>1, <2>2, TailFacts, LinesAreIrqs DEF MachineInv, PicTypeOK
  <2>4. origin # <<>> /\ origin \in Seq(Origin) /\ served \in Seq(Origin) /\ Len(origin) = Len(interrupt_queue)
    BY <1>1, <2>3 DEF MachineInv, PicTypeOK, OriginInv
  <2>5. Head(origin) = origin[1] /\ Head(origin) \in Origin /\ origin[1].second = interrupt_queue[1]
    BY <1>1, <2>3, <2>4, TailFacts DEF MachineInv, OriginInv
  <2>6. served'[Len(served')] = Head(origin)
    BY <2>2, <2>4, <2>5, AppendFacts
  <2>7. QED
    BY <1>1, <2>2, <2>3, <2>5, <2>6 DEF MachineInv, MaskInv
<1>2. MachineInv /\ [Next]_vars
        => [Len(served') # Len(served) => served'[Len(served')].second \notin unacked]_vars
  BY <1>1
<1>3. QED
  BY <1>2, Invariance, PTL DEF Spec, NoReentry

-----------------------------------------------------------------------------
(***************************************************************************)
(* The refinement of InputChannel, when the window thread is the only      *)
(* producer and the node of the queue is fresh memory.  The records are    *)
(* the delivered interrupts followed by the pending requests.              *)
(***************************************************************************)
WindowOnly == Leftover = {} /\ KeyboardBase \notin OutPorts

\* The window's pushes: what it has written is exactly the slots below
\* Written, and the cursor it loaded is still the finish cursor.
ProducerInv ==
  /\ phase # "pushing"
  /\ todo[Emu] = <<>>
  /\ todo[Gui] = <<>> => step[Gui] = "aim"
  /\ step[Gui] \in {"write", "store"} => cursor[Gui] = finish
  /\ \A k \in Slot : k < Written => slots[k] \in Event
  /\ \A k \in Slot : k >= Written => slots[k] = Unwritten

\* Every record is the event of a written slot, and so is the raised line.
RecordInv ==
  /\ \A k \in 1 .. Len(Records) :
       Records[k].slot < Written /\ EventOf(Records[k]) = slots[Records[k].slot]
  /\ \A i \in Irq : irr[i] =>
       start < Written /\ slots[start] = [first |-> buf, second |-> i]

\* No slot is skipped before the record of an acknowledgement.  The byte of
\* the event that is being raised is not readable yet.
LossInv ==
  /\ \A k \in 1 .. Len(Records) :
       Records[k].slot = k - 1 \/ \E j \in 1 .. k - 1 : Records[j].first = Ack
  /\ start = Len(Records) \/ Acked
  /\ (\A i \in Irq : ~irr[i]) /\ buf = Ack => Acked

ChannelInv == ProducerInv /\ RecordInv /\ LossInv

LEMMA ConcatFacts ==
  ASSUME NEW S, NEW s \in Seq(S), NEW t \in Seq(S)
  PROVE  /\ s \o t \in Seq(S)
         /\ Len(s \o t) = Len(s) + Len(t)
         /\ \A k \in 1 .. Len(s) : (s \o t)[k] = s[k]
         /\ \A k \in 1 .. Len(t) : (s \o t)[Len(s) + k] = t[k]
  OBVIOUS

\* Delivering the oldest request leaves the records as they are.
LEMMA ConcatMove ==
  ASSUME NEW S, NEW s \in Seq(S), NEW t \in Seq(S), t # <<>>
  PROVE  Append(s, Head(t)) \o Tail(t) = s \o t
  OBVIOUS

LEMMA ConcatAppend ==
  ASSUME NEW S, NEW s \in Seq(S), NEW t \in Seq(S), NEW e \in S
  PROVE  s \o Append(t, e) = Append(s \o t, e)
  OBVIOUS

LEMMA FunctionIsSeq ==
  ASSUME NEW S, NEW n \in Nat, NEW f \in [1 .. n -> S]
  PROVE  f \in Seq(S) /\ Len(f) = n
  OBVIOUS

LEMMA AppendFunction ==
  ASSUME NEW S, NEW n \in Nat, NEW f \in [1 .. n -> S], NEW g \in [1 .. n + 1 -> S],
         \A k \in 1 .. n : g[k] = f[k]
  PROVE  g = Append(f, g[n + 1])
  OBVIOUS

-----------------------------------------------------------------------------
(***************************************************************************)
(* The producers' side.                                                    *)
(***************************************************************************)
\* A push that has written its event has used one of the NodeSlots slots that
\* pushes may fill.
LEMMA WrittenFacts ==
  ASSUME OutBufInv
  PROVE  /\ finish \in Nat /\ finish <= NodeSlots /\ NodeSlots \in Nat
         /\ Written \in Nat
         /\ todo[Gui] # <<>> => finish < NodeSlots
         /\ (todo[Gui] = <<>> => step[Gui] = "aim") => Written <= NodeSlots
<1>1. finish \in Nat /\ finish <= NodeSlots /\ NodeSlots \in Nat
  BY OutBufAssumption DEF OutBufInv, OutBufTypeOK, Slot
<1>2. Written \in Nat
  BY <1>1 DEF Written
<1>3. todo[Gui] # <<>> => finish < NodeSlots
  BY <1>1, RoomForPush, ThreadsDiffer DEF OutBufInv
<1>4. (todo[Gui] = <<>> => step[Gui] = "aim") => Written <= NodeSlots
  BY <1>1, <1>3 DEF Written
<1>5. QED
  BY <1>1, <1>2, <1>3, <1>4

\* What the window has written stays, and it writes one event at a time.
LEMMA WindowWrites ==
  ASSUME OutBufInv, ProducerInv, GuiThread
  PROVE  /\ ProducerInv'
         /\ \A k \in Slot : k < Written => slots'[k] = slots[k]
         /\ \/ Written' = Written
            \/ Written' = Written + 1 /\ Written \in Slot /\ slots'[Written] \in Event
<1>1. phase' = phase
  BY DEF GuiThread, GuiPush, GuiCallback
<1>2. /\ finish \in Nat /\ NodeSlots \in Nat /\ Written \in Nat
      /\ todo[Gui] # <<>> => finish < NodeSlots
  BY WrittenFacts
<1>3. /\ step \in [Thread -> {"aim", "write", "load", "store"}]
      /\ cursor \in [Thread -> Slot] /\ todo \in [Thread -> Seq(Event)]
      /\ slots \in [Slot -> Event \cup {Unwritten}]
  BY DEF OutBufInv, OutBufTypeOK
<1> USE ThreadsDiffer
<1>4. CASE GuiCallback
  <2>1. PICK events \in Seq(Event) : BeginPushes(Gui, events) /\ events # <<>>
    BY <1>4, CallbackEvents DEF GuiCallback, KeyboardCallback, MouseCallback, KeyEvents, MouseEvents
  <2>2. /\ todo[Gui] = <<>> /\ todo'[Emu] = todo[Emu] /\ UNCHANGED <<slots, finish, step, cursor>>
    BY <1>3, <2>1 DEF BeginPushes
  <2>3. Written' = Written
    BY <2>2 DEF Written
  <2>4. ProducerInv'
    BY <1>1, <2>2, <2>3 DEF ProducerInv
  <2>5. QED
    BY <2>2, <2>3, <2>4
<1>5. CASE PushAim(Gui)
  <2>1. /\ step[Gui] = "aim" /\ step'[Gui] = "write" /\ cursor'[Gui] = finish
        /\ todo[Gui] # <<>> /\ UNCHANGED <<slots, finish, todo>>
    BY <1>3, <1>5 DEF PushAim
  <2>2. Written' = Written
    BY <2>1 DEF Written
  <2>3. ProducerInv'
    BY <1>1, <2>1, <2>2 DEF ProducerInv
  <2>4. QED
    BY <2>1, <2>2, <2>3
<1>6. CASE PushWrite(Gui)
  <2>1. /\ step[Gui] = "write" /\ step'[Gui] = "load" /\ todo[Gui] # <<>>
        /\ slots' = [slots EXCEPT ![cursor[Gui]] = Head(todo[Gui])]
        /\ UNCHANGED <<finish, todo>>
    BY <1>3, <1>6 DEF PushWrite
  <2>2. cursor[Gui] = finish /\ Written = finish /\ Written' = finish + 1
    <3>1. cursor[Gui] = finish
      BY <2>1 DEF ProducerInv
    <3>2. step[Gui] \notin {"load", "store"} /\ step'[Gui] \in {"load", "store"}
      BY <2>1
    <3>3. QED
      BY <1>2, <2>1, <3>1, <3>2 DEF Written
  <2>3. Head(todo[Gui]) \in Event
    BY <1>3, <2>1
  <2>4. finish \in Slot
    BY <1>2, <2>1 DEF Slot
  <2>5. slots'[finish] \in Event /\ \A k \in Slot : k # finish => slots'[k] = slots[k]
    BY <1>3, <2>1, <2>2, <2>3, <2>4
  <2>6. ProducerInv'
    <3>1. \A k \in Slot : k < Written' => slots'[k] \in Event
      BY <1>2, <2>2, <2>5 DEF ProducerInv, Slot
    <3>2. \A k \in Slot : k >= Written' => slots'[k] = Unwritten
      BY <1>2, <2>2, <2>5 DEF ProducerInv, Slot
    <3>3. QED
      BY <1>1, <2>1, <3>1, <3>2 DEF ProducerInv
  <2>7. QED
    BY <1>2, <2>2, <2>4, <2>5, <2>6
<1>7. CASE PushLoad(Gui)
  <2>1. /\ step[Gui] = "load" /\ step'[Gui] = "store" /\ cursor'[Gui] = finish
        /\ todo[Gui] # <<>> /\ UNCHANGED <<slots, finish, todo>>
    BY <1>3, <1>7 DEF PushLoad
  <2>2. Written' = Written
    BY <2>1 DEF Written
  <2>3. ProducerInv'
    BY <1>1, <2>1, <2>2 DEF ProducerInv
  <2>4. QED
    BY <2>1, <2>2, <2>3
<1>8. CASE PushStore(Gui)
  <2>1. /\ step[Gui] = "store" /\ step'[Gui] = "aim" /\ finish' = cursor[Gui] + 1
        /\ todo'[Emu] = todo[Emu] /\ UNCHANGED slots
    BY <1>3, <1>8 DEF PushStore
  <2>2. Written' = Written
    BY <1>2, <2>1 DEF ProducerInv, Written
  <2>3. ProducerInv'
    BY <1>1, <2>1, <2>2 DEF ProducerInv
  <2>4. QED
    BY <2>1, <2>2, <2>3
<1>9. QED
  BY <1>4, <1>5, <1>6, <1>7, <1>8 DEF GuiThread, GuiPush, Push

\* A step that leaves the producers alone.
LEMMA NobodyWrites ==
  ASSUME ProducerInv, UNCHANGED producerVars, phase' # "pushing"
  PROVE  ProducerInv' /\ Written' = Written /\ slots' = slots
  BY DEF ProducerInv, producerVars, Written

\* The emulator thread never pushes.
LEMMA EmulatorDoesNotPush ==
  ASSUME WindowOnly, ProducerInv, EmuThread
  PROVE  UNCHANGED producerVars /\ phase' # "pushing"
<1>1. ~EmuPush
  BY DEF EmuPush, ProducerInv
<1>2. \A port \in OutPorts : ~IsDataPort(port)
  BY DEF WindowOnly, IsDataPort
<1>3. ASSUME NEW port \in OutPorts, Out(port) PROVE OutEoi \/ OutOther
  BY <1>2, <1>3 DEF Out
<1>4. CASE ChkIrqLatch \/ ChkIrqRaise \/ ChkIrqDone \/ Interrupt \/ NoInterrupt
  BY <1>4 DEF ChkIrqLatch, ChkIrqRaise, ChkIrqDone, Interrupt, NoInterrupt, Goto,
     outBufVars, producerVars
<1>5. CASE Sti \/ Cli \/ Other \/ Stop \/ OutEoi \/ OutOther \/ FollowsWildCursor
  BY <1>5 DEF Sti, Cli, Other, Stop, OutEoi, OutOther, FollowsWildCursor, Execute, Goto,
     outBufVars, producerVars
<1>6. CASE \E port \in InPorts : In(port)
  BY <1>6 DEF In, InData, InOther, Execute, Goto, outBufVars, producerVars
<1>7. QED
  BY <1>1, <1>3, <1>4, <1>5, <1>6 DEF EmuThread

-----------------------------------------------------------------------------
(***************************************************************************)
(* The records.                                                            *)
(***************************************************************************)
LEMMA RecordTypes ==
  ASSUME PicTypeOK
  PROVE  /\ Records \in Seq(Origin) /\ Len(Records) \in Nat
         /\ Len(Records) = Len(served) + Len(origin)
         /\ Len(served) \in Nat /\ Len(origin) \in Nat
         /\ \A k \in 1 .. Len(Records) : Records[k] \in Origin /\ Records[k].slot \in Slot
         /\ \A k \in 1 .. Len(served) : Records[k] = served[k]
         /\ \A k \in 1 .. Len(origin) : Records[Len(served) + k] = origin[k]
<1>1. served \in Seq(Origin) /\ origin \in Seq(Origin)
  BY DEF PicTypeOK
<1>2. Records \in Seq(Origin) /\ Len(Records) = Len(served) + Len(origin)
  BY <1>1, ConcatFacts DEF Records
<1>3. \A k \in 1 .. Len(Records) : Records[k] \in Origin
  BY <1>2
<1>4. \A r \in Origin : r.slot \in Slot
  BY DEF Origin
<1>5. /\ \A k \in 1 .. Len(served) : Records[k] = served[k]
      /\ \A k \in 1 .. Len(origin) : Records[Len(served) + k] = origin[k]
  BY <1>1, ConcatFacts DEF Records
<1>6. Len(served) \in Nat /\ Len(origin) \in Nat
  BY <1>1
<1>7. QED
  BY <1>2, <1>3, <1>4, <1>5, <1>6

\* What was written stays, so the records stay events of written slots.
LEMMA RecordsStay ==
  ASSUME MachineInv, RecordInv, Records' = Records,
         \A k \in Slot : k < Written => slots'[k] = slots[k],
         Written' \in Nat, Written' >= Written,
         \A i \in Irq : irr'[i] => irr[i] /\ start' = start /\ buf' = buf
  PROVE  RecordInv'
<1>1. Written \in Nat /\ \A k \in Slot : k \in Int
  BY WrittenFacts, OutBufAssumption DEF MachineInv, Slot
<1>2. ASSUME NEW k \in 1 .. Len(Records)
      PROVE  Records[k].slot < Written' /\ EventOf(Records[k]) = slots'[Records[k].slot]
  <2>1. Records[k].slot \in Slot
    BY RecordTypes DEF MachineInv
  <2>2. Records[k].slot < Written /\ EventOf(Records[k]) = slots[Records[k].slot]
    BY DEF RecordInv
  <2>3. QED
    BY <1>1, <2>1, <2>2
<1>3. ASSUME NEW i \in Irq, irr'[i]
      PROVE  start' < Written' /\ slots'[start'] = [first |-> buf', second |-> i]
  <2>1. irr[i] /\ start' = start /\ buf' = buf /\ start \in Slot
    BY <1>3 DEF MachineInv, RaisedLineInv
  <2>2. QED
    BY <1>1, <2>1 DEF RecordInv
<1>4. QED
  BY <1>2, <1>3 DEF RecordInv, EventOf

\* A step that pops nothing and raises no line loses nothing.
LEMMA NothingLost ==
  ASSUME LossInv, Records' = Records, start' = start, buf' = buf, irr' = irr
  PROVE  LossInv'
  BY DEF LossInv, Acked

\* An event that chk_irq latches is one that the window has written.
LEMMA LatchChannel ==
  ASSUME MachineInv, ChannelInv, ChkIrqLatch, Written' = Written, slots' = slots
  PROVE  RecordInv' /\ LossInv'
<1> USE DEF ChannelInv
<1>1. phase = "chk_irq" /\ Records' = Records /\ start' = start /\ InNode
  BY DEF ChkIrqLatch, Goto, Latch, Records
<1>2. \A i \in Irq : ~irr[i]
  BY <1>1 DEF MachineInv, RaisedLineInv
<1>3. CASE intFlag /\ Front.second \in Lines
  <2>1. irr' = [irr EXCEPT ![Front.second] = TRUE] /\ buf' = Front.first
    BY <1>3 DEF ChkIrqLatch, Latch
  <2>2. /\ Front \in Event /\ start \in Slot /\ start \in Int /\ Written \in Nat
        /\ irr \in [Irq -> BOOLEAN] /\ Front.second \in Irq
    BY <1>1, <1>3, FrontIsEvent, WrittenFacts, LinesAreIrqs, OutBufAssumption
       DEF MachineInv, InNode, Slot, PicTypeOK
  <2>3. start < Written
    <3>1. Front # Unwritten
      BY <1>3, LinesAreIrqs DEF Unwritten
    <3>2. QED
      BY <2>2, <3>1 DEF ProducerInv, Front
  <2>4. \A i \in Irq : irr'[i] => i = Front.second
    BY <1>2, <2>1, <2>2
  <2>5. Front = [first |-> Front.first, second |-> Front.second]
    BY <2>2 DEF Event
  <2>6. \A i \in Irq : irr'[i] => slots'[start'] = [first |-> buf', second |-> i]
    BY <1>1, <2>1, <2>4, <2>5 DEF Front
  <2>7. \A k \in 1 .. Len(Records') :
          Records'[k].slot < Written' /\ EventOf(Records'[k]) = slots'[Records'[k].slot]
    BY <1>1 DEF RecordInv
  <2>8. RecordInv'
    BY <1>1, <2>3, <2>6, <2>7 DEF RecordInv, EventOf
  <2>9. ~(\A i \in Irq : ~irr'[i])
    BY <2>1, <2>2
  <2>10. LossInv'
    BY <1>1, <2>9 DEF LossInv, Acked
  <2>11. QED
    BY <2>8, <2>10
<1>4. CASE ~(intFlag /\ Front.second \in Lines)
  <2>1. UNCHANGED <<irr, buf>>
    BY <1>4 DEF ChkIrqLatch, Latch
  <2>2. RecordInv'
    BY <1>1, <2>1 DEF RecordInv, EventOf
  <2>3. QED
    BY <1>1, <2>1, <2>2, NothingLost
<1>5. QED
  BY <1>3, <1>4

\* A raised line appends the record of the slot it pops.
LEMMA RaiseChannel ==
  ASSUME MachineInv, ChannelInv, ChkIrqRaise, Written' = Written, slots' = slots
  PROVE  RecordInv' /\ LossInv'
<1> USE DEF ChannelInv
<1>1. PICK i \in Irq : RaiseLine(intFlag, i)
  BY DEF ChkIrqRaise
<1> DEFINE new == [slot |-> start, first |-> buf, second |-> i]
<1>2. /\ irr[i] /\ i \in Lines /\ \A j \in Irq : irr[j] => j = i
      /\ irr' = [irr EXCEPT ![i] = FALSE] /\ start' = start + 1
      /\ buf' = buf /\ served' = served /\ origin' = Append(origin, new)
  BY <1>1 DEF RaiseLine, Raised, Pop, MachineInv, RaisedLineInv
<1>3. /\ start \in Slot /\ start \in Int /\ Written \in Nat
      /\ irr \in [Irq -> BOOLEAN] /\ buf \in Value
      /\ served \in Seq(Origin) /\ origin \in Seq(Origin)
  BY <1>2, WrittenFacts, OutBufAssumption DEF MachineInv, RaisedLineInv, Slot, PicTypeOK
<1>4. new \in Origin /\ new.slot = start /\ new.first = buf /\ new.second = i
  BY <1>2, <1>3 DEF Origin
<1> HIDE DEF new
<1> DEFINE n == Len(Records)
<1>5. /\ Records' = Append(Records, new)
      /\ n \in Nat /\ Len(Records') = n + 1 /\ Records'[n + 1] = new
      /\ \A k \in 1 .. n : Records'[k] = Records[k]
  <2>1. Records' = Append(Records, new)
    BY <1>2, <1>3, <1>4, ConcatAppend DEF Records
  <2>2. Records \in Seq(Origin)
    BY RecordTypes DEF MachineInv
  <2>3. QED
    BY <1>4, <2>1, <2>2, AppendFacts
<1>6. \A j \in Irq : ~irr'[j]
  BY <1>2, <1>3
<1> HIDE DEF n
<1>7. start < Written /\ slots[start] = EventOf(new)
  BY <1>2, <1>4 DEF RecordInv, EventOf
<1>8. RecordInv'
  <2>1. \A k \in 1 .. n : Records[k].slot < Written /\ EventOf(Records[k]) = slots[Records[k].slot]
    BY DEF RecordInv, n
  <2>2. ASSUME NEW k \in 1 .. n + 1
        PROVE  Records'[k].slot < Written' /\ EventOf(Records'[k]) = slots'[Records'[k].slot]
    <3>1. CASE k = n + 1
      BY <1>4, <1>5, <1>7, <3>1
    <3>2. CASE k \in 1 .. n
      BY <1>5, <2>1, <3>2
    <3>3. QED
      BY <1>5, <3>1, <3>2
  <2>3. QED
    BY <1>5, <1>6, <2>2 DEF RecordInv, EventOf
<1>9. Acked => Acked'
  BY <1>5 DEF Acked, n
<1>10. \A k \in 1 .. n + 1 :
         Records'[k].slot = k - 1 \/ \E j \in 1 .. k - 1 : Records'[j].first = Ack
  <2>1. \A k \in 1 .. n :
          Records[k].slot = k - 1 \/ \E j \in 1 .. k - 1 : Records[j].first = Ack
    BY DEF LossInv, n
  <2>2. \A k \in 1 .. n :
          Records'[k].slot = k - 1 \/ \E j \in 1 .. k - 1 : Records'[j].first = Ack
    BY <1>5, <2>1
  <2>3. start = n \/ \E j \in 1 .. n : Records[j].first = Ack
    BY DEF LossInv, Acked, n
  <2>4. new.slot = n \/ \E j \in 1 .. n : Records'[j].first = Ack
    BY <1>4, <1>5, <2>3
  <2>5. QED
    BY <1>5, <2>2, <2>4
<1>11. start' = Len(Records') \/ Acked'
  BY <1>2, <1>5, <1>9 DEF LossInv, n
<1>12. buf' = Ack => Acked'
  BY <1>2, <1>4, <1>5 DEF Acked
<1>13. LossInv'
  BY <1>5, <1>10, <1>11, <1>12 DEF LossInv
<1>14. QED
  BY <1>8, <1>13

\* Delivery moves the oldest request's record across.
LEMMA DeliverFacts ==
  ASSUME MachineInv, Interrupt
  PROVE  /\ origin # <<>>
         /\ served' = Append(served, Head(origin)) /\ origin' = Tail(origin)
         /\ UNCHANGED <<irr, buf, start>>
         /\ Records' = Records
<1>1. /\ interrupt_queue # <<>> /\ UNCHANGED <<irr, buf, start>>
      /\ served' = Append(served, Head(origin)) /\ origin' = Tail(origin)
  BY DEF Interrupt, Deliverable, Deliver
<1>2. /\ interrupt_queue \in Seq(Lines) /\ served \in Seq(Origin) /\ origin \in Seq(Origin)
      /\ Len(origin) = Len(interrupt_queue)
  BY DEF MachineInv, PicTypeOK, OriginInv
<1>3. origin # <<>>
  BY <1>1, <1>2
<1>4. Records' = Records
  BY <1>1, <1>2, <1>3, ConcatMove DEF Records
<1>5. QED
  BY <1>1, <1>3, <1>4

\* Reading port 0x60 may skip a slot, but only after an acknowledgement.
LEMMA ReadChannel ==
  ASSUME MachineInv, ChannelInv, InData, Written' = Written, slots' = slots
  PROVE  RecordInv' /\ LossInv'
<1> USE DEF ChannelInv
<1>1. /\ phase = "execute" /\ UNCHANGED <<irr, buf, served, origin>>
      /\ start' = start \/ buf = Ack
  BY DEF InData, Execute, Goto, ReadData, PopsAgain, picVars
<1>2. Records' = Records
  BY <1>1 DEF Records
<1>3. \A i \in Irq : ~irr[i]
  BY <1>1 DEF MachineInv, RaisedLineInv
<1>4. RecordInv'
  BY <1>1, <1>2, <1>3 DEF RecordInv, EventOf
<1>5. CASE start' = start
  BY <1>1, <1>2, <1>4, <1>5, NothingLost
<1>6. CASE buf = Ack
  <2>1. Acked
    BY <1>3, <1>6 DEF LossInv
  <2>2. QED
    BY <1>1, <1>2, <1>4, <2>1 DEF LossInv, Acked
<1>7. QED
  BY <1>1, <1>5, <1>6

\* End of interrupt finds no line raised.
LEMMA EoiChannel ==
  ASSUME MachineInv, ChannelInv, OutEoi, Written' = Written, slots' = slots
  PROVE  RecordInv' /\ LossInv'
<1> USE DEF ChannelInv
<1>1. /\ phase = "execute" /\ UNCHANGED <<buf, served, origin, start>>
      /\ irr' = [i \in Irq |-> irr[i] /\ i \notin EoiLines]
  BY DEF OutEoi, Execute, Goto, EndOfInterrupt
<1>2. Records' = Records
  BY <1>1 DEF Records
<1>3. (\A i \in Irq : ~irr[i]) /\ (\A i \in Irq : ~irr'[i])
  BY <1>1 DEF MachineInv, RaisedLineInv
<1>4. RecordInv'
  BY <1>1, <1>2, <1>3 DEF RecordInv, EventOf
<1>5. LossInv'
  BY <1>1, <1>2, <1>3 DEF LossInv, Acked
<1>6. QED
  BY <1>4, <1>5

-----------------------------------------------------------------------------
(***************************************************************************)
(* The invariant of the channel.                                           *)
(***************************************************************************)
LEMMA ChannelInit == WindowOnly /\ Init => ChannelInv
<1> SUFFICES ASSUME WindowOnly, Init PROVE ChannelInv
  OBVIOUS
<1> USE ThreadsDiffer
<1>1. finish = 0 /\ Written = 0
  BY DEF Init, OutBufInit, Written
<1>2. slots \in [Slot -> {Unwritten}] /\ \A k \in Slot : k \in Nat
  BY OutBufAssumption DEF Init, OutBufInit, WindowOnly, Slot
<1>3. ProducerInv
  BY <1>1, <1>2 DEF Init, OutBufInit, ProducerInv
<1>4. Records = <<>> /\ Len(Records) = 0
  BY DEF Init, PicInit, Records
<1>5. \A i \in Irq : ~irr[i]
  BY DEF Init, PicInit
<1>6. RecordInv
  BY <1>4, <1>5 DEF RecordInv
<1>7. start = 0 /\ buf # Ack
  BY DEF Init, OutBufInit, PicInit, Ack
<1>8. LossInv
  BY <1>4, <1>7 DEF LossInv
<1>9. QED
  BY <1>3, <1>6, <1>8 DEF ChannelInv

LEMMA ChannelStep ==
  WindowOnly /\ MachineInv /\ ChannelInv /\ [Next]_vars => ChannelInv'
<1> SUFFICES ASSUME WindowOnly, MachineInv, ChannelInv, [Next]_vars PROVE ChannelInv'
  OBVIOUS
<1>0. Written \in Nat
  BY WrittenFacts DEF MachineInv
<1>1. CASE EmuThread
  <2>1. ProducerInv' /\ Written' = Written /\ slots' = slots
    BY <1>1, EmulatorDoesNotPush, NobodyWrites DEF ChannelInv
  <2>2. CASE UNCHANGED <<irr, buf, start>> /\ Records' = Records
    <3>1. LossInv'
      BY <2>2, NothingLost DEF ChannelInv
    <3>2. RecordInv'
      BY <1>0, <2>1, <2>2, RecordsStay DEF ChannelInv
    <3>3. QED
      BY <2>1, <3>1, <3>2 DEF ChannelInv
  <2>3. CASE ChkIrqLatch
    BY <2>1, <2>3, LatchChannel DEF ChannelInv
  <2>4. CASE ChkIrqRaise
    BY <2>1, <2>4, RaiseChannel DEF ChannelInv
  <2>5. CASE Interrupt
    BY <2>2, <2>5, DeliverFacts
  <2>6. CASE InData
    BY <2>1, <2>6, ReadChannel DEF ChannelInv
  <2>7. CASE OutEoi
    BY <2>1, <2>7, EoiChannel DEF ChannelInv
  <2>8. CASE ChkIrqDone \/ NoInterrupt \/ Sti \/ Cli \/ Other \/ Stop \/ OutOther
             \/ FollowsWildCursor
             \/ \E port \in InPorts : InOther(port)
    BY <2>2, <2>8 DEF ChkIrqDone, NoInterrupt, Sti, Cli, Other, Stop, OutOther, InOther,
       FollowsWildCursor, outBufVars, picVars, Records
  <2>9. ~EmuPush /\ ~\E port \in OutPorts : IsDataPort(port)
    BY DEF EmuPush, ChannelInv, ProducerInv, WindowOnly, IsDataPort
  <2>10. QED
    BY <1>1, <2>3, <2>4, <2>5, <2>6, <2>7, <2>8, <2>9 DEF EmuThread, In, Out
<1>2. CASE GuiThread
  <2>1. UNCHANGED <<irr, buf, start>> /\ Records' = Records
    BY <1>2 DEF GuiThread, GuiPush, GuiCallback, picVars, Records
  <2>2. /\ ProducerInv' /\ \A k \in Slot : k < Written => slots'[k] = slots[k]
        /\ Written' \in Nat /\ Written' >= Written
    BY <1>0, <1>2, WindowWrites DEF MachineInv, ChannelInv
  <2>3. RecordInv' /\ LossInv'
    BY <2>1, <2>2, RecordsStay, NothingLost DEF ChannelInv
  <2>4. QED
    BY <2>2, <2>3 DEF ChannelInv
<1>3. CASE UNCHANGED vars
  <2>1. UNCHANGED <<producerVars, phase, start, irr, buf>> /\ Records' = Records
    BY <1>3 DEF vars, outBufVars, producerVars, picVars, Records
  <2>2. ProducerInv' /\ Written' = Written /\ slots' = slots
    BY <2>1, NobodyWrites DEF ChannelInv, ProducerInv
  <2>3. RecordInv' /\ LossInv'
    BY <1>0, <2>1, <2>2, RecordsStay, NothingLost DEF ChannelInv
  <2>4. QED
    BY <2>2, <2>3 DEF ChannelInv
<1>4. QED
  BY <1>1, <1>2, <1>3 DEF Next

-----------------------------------------------------------------------------
(***************************************************************************)
(* Every step is a step of the channel or none.                            *)
(***************************************************************************)
LEMMA SentFacts ==
  ASSUME MachineInv, ProducerInv
  PROVE  /\ Written \in Nat /\ Written <= NodeSlots
         /\ SentEvents \in [1 .. Written -> Event]
         /\ SentEvents \in Seq(Event) /\ Len(SentEvents) = Written
<1>1. Written \in Nat /\ Written <= NodeSlots /\ NodeSlots \in Nat
  BY WrittenFacts DEF MachineInv, ProducerInv
<1>2. \A i \in 1 .. Written : slots[i - 1] \in Event
  BY <1>1 DEF ProducerInv, Slot
<1>3. SentEvents \in [1 .. Written -> Event]
  BY <1>2 DEF SentEvents
<1>4. QED
  BY <1>1, <1>3, FunctionIsSeq

\* What is sent does not change when nothing is written.
LEMMA SentStays ==
  ASSUME MachineInv, ProducerInv, Written' = Written,
         \A k \in Slot : k < Written => slots'[k] = slots[k]
  PROVE  SentEvents' = SentEvents
<1>1. Written \in Nat /\ Written <= NodeSlots /\ NodeSlots \in Nat
  BY WrittenFacts DEF MachineInv, ProducerInv
<1>2. \A i \in 1 .. Written : slots'[i - 1] = slots[i - 1]
  BY <1>1 DEF Slot
<1>3. QED
  BY <1>2 DEF SentEvents

\* The window's store into a slot is the sending of its event.
LEMMA WindowSends ==
  ASSUME MachineInv, ChannelInv, GuiThread
  PROVE  Channel!Send \/ UNCHANGED Channel!channelVars
<1>1. UNCHANGED <<served, LastGot, GotEvents>>
  BY DEF GuiThread, GuiPush, GuiCallback, picVars, LastGot, GotEvents, EventOf
<1>2. /\ ProducerInv'
      /\ \A k \in Slot : k < Written => slots'[k] = slots[k]
      /\ \/ Written' = Written
         \/ Written' = Written + 1 /\ Written \in Slot /\ slots'[Written] \in Event
  BY WindowWrites DEF MachineInv, ChannelInv
<1>3. CASE Written' = Written
  BY <1>1, <1>2, <1>3, SentStays DEF ChannelInv, Channel!channelVars
<1>4. CASE Written' = Written + 1 /\ slots'[Written] \in Event
  <2>1. /\ Written \in Nat /\ SentEvents \in [1 .. Written -> Event]
        /\ Written <= NodeSlots /\ NodeSlots \in Nat
    BY SentFacts, WrittenFacts DEF ChannelInv, MachineInv
  <2>2. \A i \in 1 .. Written + 1 : slots'[i - 1] \in Event
    <3>1. \A i \in 1 .. Written : slots'[i - 1] = slots[i - 1] /\ slots[i - 1] \in Event
      BY <1>2, <2>1 DEF ChannelInv, ProducerInv, Slot
    <3>2. \A i \in 1 .. Written + 1 : i \in 1 .. Written \/ i - 1 = Written
      BY <2>1
    <3>3. QED
      BY <1>4, <3>1, <3>2
  <2>3. SentEvents' \in [1 .. Written + 1 -> Event]
    BY <1>4, <2>2 DEF SentEvents
  <2>4. \A i \in 1 .. Written : SentEvents'[i] = SentEvents[i]
    BY <1>2, <1>4, <2>1 DEF SentEvents, Slot
  <2>5. SentEvents' = Append(SentEvents, SentEvents'[Written + 1])
    BY <2>1, <2>3, <2>4, AppendFunction
  <2>6. SentEvents'[Written + 1] \in Event
    BY <2>1, <2>3
  <2>7. QED
    BY <1>1, <2>5, <2>6 DEF Channel!Send
<1>5. QED
  BY <1>2, <1>3, <1>4

LEMMA EventOfOrigin == \A r \in Origin : EventOf(r) \in Event
  BY DEF EventOf, Origin, Event, Lines

\* The delivery of an interrupt is the delivery of the event in its slot.
LEMMA InterruptDelivers ==
  ASSUME MachineInv, ChannelInv, Interrupt, SentEvents' = SentEvents
  PROVE  Channel!Deliver
<1> DEFINE m == Len(served)
           head == Head(origin)
           n == head.slot + 1
<1>1. /\ origin # <<>> /\ served' = Append(served, head) /\ Records' = Records
      /\ origin' = Tail(origin)
  BY DeliverFacts
<1>2. /\ Records \in Seq(Origin) /\ Len(Records) = m + Len(origin)
      /\ m \in Nat /\ Len(origin) \in Nat
      /\ \A k \in 1 .. Len(Records) : Records[k] \in Origin /\ Records[k].slot \in Slot
      /\ \A k \in 1 .. m : Records[k] = served[k]
      /\ \A k \in 1 .. Len(origin) : Records[m + k] = origin[k]
  BY RecordTypes DEF MachineInv
<1>3. /\ served \in Seq(Origin) /\ head \in Origin /\ head = origin[1] /\ Len(origin) >= 1
  BY <1>1, TailFacts DEF MachineInv, PicTypeOK
<1>4. /\ Len(served') = m + 1 /\ served'[m + 1] = head
      /\ \A k \in 1 .. m : served'[k] = served[k]
  BY <1>1, <1>3, AppendFacts
<1> HIDE DEF head
<1>5. m + 1 \in 1 .. Len(Records) /\ Records[m + 1] = head /\ head.slot \in Slot
  BY <1>2, <1>3
<1>6. /\ Written \in Nat /\ Written <= NodeSlots
      /\ SentEvents \in Seq(Event) /\ Len(SentEvents) = Written
  BY SentFacts DEF ChannelInv
<1>7. head.slot \in Nat /\ head.slot < Written /\ EventOf(head) = slots[head.slot]
  BY <1>5, OutBufAssumption DEF ChannelInv, RecordInv, Slot
<1>8. n \in 1 .. Written /\ SentEvents[n] = EventOf(head)
  BY <1>6, <1>7 DEF SentEvents
<1>9. LastGot' = n
  BY <1>2, <1>4 DEF LastGot
<1>g. GotEvents \in [1 .. m -> Event]
  <2>1. \A k \in 1 .. m : EventOf(served[k]) \in Event
    BY <1>3, EventOfOrigin
  <2>2. QED
    BY <2>1 DEF GotEvents
<1>10. GotEvents' = Append(GotEvents, SentEvents[n])
  <2>1. GotEvents' \in [1 .. m + 1 -> Event]
    <3>1. served' \in Seq(Origin)
      BY <1>1, <1>3
    <3>2. \A k \in 1 .. m + 1 : EventOf(served'[k]) \in Event
      BY <1>4, <3>1, EventOfOrigin
    <3>3. GotEvents' = [k \in 1 .. m + 1 |-> EventOf(served'[k])]
      BY <1>4 DEF GotEvents, EventOf
    <3>4. QED
      BY <3>2, <3>3
  <2>2. \A k \in 1 .. m : GotEvents'[k] = GotEvents[k]
    BY <1>2, <1>4 DEF GotEvents
  <2>3. GotEvents'[m + 1] = EventOf(head)
    BY <1>2, <1>4 DEF GotEvents, EventOf
  <2>4. QED
    BY <1>2, <1>8, <1>g, <2>1, <2>2, <2>3, AppendFunction
<1>11. LastGot \in Int /\ LastGot + 1 <= n
  <2>1. CASE m = 0
    BY <1>3, <1>7, <2>1 DEF LastGot
  <2>2. CASE m # 0
    <3>1. /\ LastGot = served[m].slot + 1
          /\ served[m].slot \in Int /\ served[m].slot < origin[1].slot
      BY <1>2, <1>3, <2>2, SlotsAreIntegers DEF LastGot, MachineInv, EachSlotOnce
    <3>2. QED
      BY <1>3, <1>7, <3>1
  <2>3. QED
    BY <2>1, <2>2
<1>12. Channel!MayLose \/ n = LastGot + 1
  <2>1. CASE \E j \in 1 .. m : Records[j].first = Ack
    <3>1. PICK j \in 1 .. m : served[j].first = Ack
      BY <1>2, <2>1
    <3>2. /\ GotEvents[j] = EventOf(served[j]) /\ Len(GotEvents) = m
          /\ EventOf(served[j]) \in Event
      <4>1. Len(GotEvents) = m
        BY <1>2, <1>g, FunctionIsSeq
      <4>2. QED
        BY <1>3, <1>g, <4>1, EventOfOrigin DEF GotEvents
    <3>3. GotEvents[j] \in LooksLikeAck
      BY <3>1, <3>2 DEF LooksLikeAck, EventOf
    <3>4. QED
      BY <3>2, <3>3 DEF Channel!MayLose
  <2>2. CASE ~\E j \in 1 .. m : Records[j].first = Ack
    <3>1. head.slot = m
      BY <1>2, <1>5, <2>2 DEF ChannelInv, LossInv
    <3>2. CASE m = 0
      BY <1>3, <2>2, <3>1, <3>2 DEF LastGot
    <3>3. CASE m # 0
      <4>1. Records[m].slot = m - 1
        <5>1. m \in 1 .. Len(Records) /\ \A j \in 1 .. m - 1 : j \in 1 .. m
          BY <1>2, <3>3
        <5>2. Records[m].slot = m - 1 \/ \E j \in 1 .. m - 1 : Records[j].first = Ack
          BY <5>1 DEF ChannelInv, LossInv
        <5>3. QED
          BY <2>2, <5>1, <5>2
      <4>2. LastGot = m
        BY <1>2, <1>3, <3>3, <4>1 DEF LastGot
      <4>3. QED
        BY <3>1, <4>2
    <3>4. QED
      BY <3>2, <3>3
  <2>3. QED
    BY <2>1, <2>2
<1>13. n \in LastGot + 1 .. Len(SentEvents)
  BY <1>6, <1>8, <1>11
<1>14. QED
  BY <1>9, <1>10, <1>12, <1>13 DEF Channel!Deliver

LEMMA ChannelStarts == WindowOnly /\ Init => Channel!Init
<1> SUFFICES ASSUME WindowOnly, Init PROVE Channel!Init
  OBVIOUS
<1>1. Written = 0
  BY ThreadsDiffer DEF Init, OutBufInit, Written
<1>2. served = <<>>
  BY DEF Init, PicInit
<1>3. SentEvents = <<>> /\ GotEvents = <<>> /\ LastGot = 0
  BY <1>1, <1>2 DEF SentEvents, GotEvents, LastGot
<1>4. QED
  BY <1>3 DEF Channel!Init

LEMMA ChannelNext ==
  WindowOnly /\ MachineInv /\ ChannelInv /\ [Next]_vars => [Channel!Next]_Channel!channelVars
<1> SUFFICES ASSUME WindowOnly, MachineInv, ChannelInv, [Next]_vars
             PROVE  Channel!Next \/ UNCHANGED Channel!channelVars
  OBVIOUS
<1>1. CASE GuiThread
  BY <1>1, WindowSends DEF Channel!Next
<1>2. CASE EmuThread
  <2>1. Written' = Written /\ slots' = slots
    BY <1>2, EmulatorDoesNotPush, NobodyWrites DEF ChannelInv
  <2>2. SentEvents' = SentEvents
    BY <2>1, SentStays DEF ChannelInv
  <2>3. CASE Interrupt
    BY <2>2, <2>3, InterruptDelivers DEF Channel!Next
  <2>4. CASE ~Interrupt
    <3>1. served' = served
      BY <1>2, <2>4 DEF EmuThread, ChkIrqLatch, Latch, ChkIrqRaise, RaiseLine, ChkIrqDone,
         NoInterrupt, Sti, Cli, Other, Stop, In, InData, ReadData, InOther, Out, OutEoi,
         EndOfInterrupt, OutData, OutOther, EmuPush,
         FollowsWildCursor, picVars
    <3>2. QED
      BY <2>2, <3>1 DEF Channel!channelVars, GotEvents, LastGot, EventOf
  <2>5. QED
    BY <2>3, <2>4
<1>3. CASE UNCHANGED vars
  BY <1>3 DEF vars, outBufVars, picVars, Channel!channelVars, SentEvents, GotEvents, LastGot,
     Written, EventOf
<1>4. QED
  BY <1>1, <1>2, <1>3 DEF Next

\* The input path implements the channel: when only the window pushes, and
\* into fresh memory, the guest gets the events of the user in their order,
\* none twice and none invented, and none is lost before an event that looks
\* like an acknowledgement has been delivered.  For any guest that does not
\* write port 0x60, any input and any number of slots.
THEOREM InputChannelRefined ==
  ASSUME WindowOnly
  PROVE  Spec => InputIsChannel
<1>1. Init => Channel!Init
  BY ChannelStarts
<1>2. Init => ChannelInv
  BY ChannelInit
<1>3. MachineInv /\ ChannelInv /\ [Next]_vars => ChannelInv'
  BY ChannelStep
<1>4. MachineInv /\ ChannelInv /\ [Next]_vars => [Channel!Next]_Channel!channelVars
  BY ChannelNext
<1>5. QED
  BY <1>1, <1>2, <1>3, <1>4, Invariance, PTL DEF Spec, InputIsChannel, Channel!Spec

\* chk_irq and in8 pop without asking, but when only the window pushes, and
\* into fresh memory, they pop nothing that has not been written before an
\* event that looks like an acknowledgement has raised a request: as long as
\* no slot is skipped, the start cursor is one past the last record's slot.
THEOREM EmptyQueueKept ==
  ASSUME WindowOnly
  PROVE  Spec => []EmptyQueueNotPopped
<1>1. MachineInv /\ ChannelInv => EmptyQueueNotPopped
  <2> SUFFICES ASSUME MachineInv, ChannelInv, ~Acked PROVE start <= Written
    BY DEF EmptyQueueNotPopped
  <2>1. start = Len(Records) /\ Len(Records) \in Nat /\ Written \in Nat
    BY RecordTypes, WrittenFacts DEF MachineInv, ChannelInv, LossInv
  <2>2. CASE Len(Records) = 0
    BY <2>1, <2>2
  <2>3. CASE Len(Records) # 0
    <3> DEFINE n == Len(Records)
    <3>1. n \in 1 .. n
      BY <2>1, <2>3
    <3>2. Records[n].slot < Written
      BY <3>1 DEF ChannelInv, RecordInv
    <3>3. Records[n].slot = n - 1
      <4>1. ~\E j \in 1 .. n - 1 : Records[j].first = Ack
        BY <2>1 DEF Acked
      <4>2. QED
        BY <3>1, <4>1 DEF ChannelInv, LossInv
    <3>4. QED
      BY <2>1, <3>2, <3>3
  <2>4. QED
    BY <2>2, <2>3
<1>2. Init => ChannelInv
  BY ChannelInit
<1>3. MachineInv /\ ChannelInv /\ [Next]_vars => ChannelInv'
  BY ChannelStep
<1>4. QED
  BY <1>1, <1>2, <1>3, Invariance, PTL DEF Spec
=============================================================================
