------------------------------ MODULE Machine ------------------------------
(***************************************************************************)
(* Input and interrupts of the emulator running HariboteOS (osType 0):     *)
(* the window thread pushes input into out_buf, and the emulator thread    *)
(* repeats the main loop of main.cpp                                       *)
(*                                                                         *)
(*   chk_irq, exec_interrupt, fetch and execute one guest instruction.     *)
(*                                                                         *)
(* The guest program is not part of the repository: it is any sequence of  *)
(* the instructions Instrs.  Of the processor the module keeps what the    *)
(* interrupt path reads: the IF flag and, for port reads, AL.  EIP, the    *)
(* stack and the words that delivery pushes are in CpuStack.               *)
(***************************************************************************)
EXTENDS Pic, PortIO

CONSTANTS
  Instrs,        \* the kinds of instruction the guest executes
  InPorts,       \* the ports it reads
  OutPorts,      \* the ports it writes
  Undefined,     \* bytes PIC::in8, which lacks a return, may yield
  EoiBeforeSti   \* TRUE: the guest enables interrupts only after it has
                 \* written end of interrupt for every delivered line

ASSUME MachineAssumption ==
  /\ Instrs \subseteq {"sti", "cli", "in", "out", "other", "stop"}
  /\ InPorts \subseteq Port
  /\ OutPorts \subseteq Port
  /\ Undefined \subseteq 0 .. 255
  /\ EoiBeforeSti \in BOOLEAN

VARIABLES
  phase,     \* where the main loop is
  intFlag,   \* eflags.IF
  al,        \* the register AL, once the guest has read a port
  inHandler     \* history: the guest is in the handler of the last interrupt
             \* and has not enabled interrupts since it was delivered

vars == <<outBufVars, picVars, phase, intFlag, al, inHandler>>

Phase == {"chk_irq", "raise", "exec_interrupt", "execute", "pushing", "halted", "wild"}

\* Neither the constructor of Emulator nor main gives eflags.IF a value.
Init ==
  /\ OutBufInit
  /\ PicInit
  /\ phase = "chk_irq"
  /\ intFlag \in BOOLEAN
  /\ al = 0
  /\ inHandler = FALSE

Goto(from, to) == phase = from /\ phase' = to

-----------------------------------------------------------------------------
(***************************************************************************)
(* The emulator thread before it executes an instruction.                  *)
(***************************************************************************)
ChkIrqLatch ==
  /\ Goto("chk_irq", "raise")
  /\ InNode
  /\ Latch(intFlag)
  /\ UNCHANGED <<producerVars, intFlag, al, inHandler>>

ChkIrqRaise ==
  /\ Goto("raise", "raise")
  /\ \E i \in Irq : RaiseLine(intFlag, i)
  /\ UNCHANGED <<producerVars, intFlag, al, inHandler>>

ChkIrqDone ==
  /\ Goto("raise", "exec_interrupt")
  /\ Raised(intFlag) = {}
  /\ UNCHANGED <<outBufVars, picVars, intFlag, al, inHandler>>

Interrupt ==
  /\ Goto("exec_interrupt", "execute")
  /\ Deliverable(intFlag)
  /\ Deliver
  /\ intFlag' = FALSE
  /\ inHandler' = TRUE
  /\ UNCHANGED <<producerVars, al>>

NoInterrupt ==
  /\ Goto("exec_interrupt", "execute")
  /\ ~Deliverable(intFlag)
  /\ UNCHANGED <<outBufVars, picVars, intFlag, al, inHandler>>

-----------------------------------------------------------------------------
(***************************************************************************)
(* Guest instructions.                                                     *)
(***************************************************************************)
Execute(instr) == instr \in Instrs /\ Goto("execute", "chk_irq")

Sti ==
  /\ Execute("sti")
  /\ EoiBeforeSti => \A i \in Irq : ~imr[i]
  /\ intFlag' = TRUE
  /\ inHandler' = FALSE
  /\ UNCHANGED <<outBufVars, picVars, al>>

Cli ==
  /\ Execute("cli")
  /\ intFlag' = FALSE
  /\ UNCHANGED <<outBufVars, picVars, al, inHandler>>

\* The ports whose handler does something: 0x20 of the PIC, and 0x60 of the
\* keyboard controller.
IsCommandPort(port) == port = PicBase /\ Route(port) = PicBase
IsDataPort(port) == port = KeyboardBase /\ Route(port) = KeyboardBase

\* in al,dx with the data port in dx.
InData ==
  /\ Execute("in")
  /\ PopsAgain => InNode
  /\ ReadData
  /\ al' = buf % 256
  /\ UNCHANGED <<producerVars, intFlag, inHandler>>

\* in al,dx with any other port: 0xff from the other ports of the keyboard
\* controller, any byte from the PIC, 0 where there is no device.
InByte(port) ==
  CASE Route(port) = KeyboardBase -> {255}
    [] Route(port) = PicBase      -> Undefined
    [] OTHER                      -> {0}

InOther(port) ==
  /\ Execute("in")
  /\ al' \in InByte(port)
  /\ UNCHANGED <<outBufVars, picVars, intFlag, inHandler>>

In(port) == IF IsDataPort(port) THEN InData ELSE InOther(port)

\* out dx,al to the command port of the PIC.
OutEoi ==
  /\ Execute("out")
  /\ EndOfInterrupt
  /\ UNCHANGED <<producerVars, intFlag, al, inHandler>>

\* out dx,al to the data port of the keyboard controller: the emulator
\* thread becomes a producer of out_buf until its push is complete.
OutData ==
  /\ "out" \in Instrs
  /\ Goto("execute", "pushing")
  /\ BeginPushes(Emu, AckEvents)
  /\ UNCHANGED <<start, picVars, intFlag, al, inHandler>>

\* out dx,al to any other port has no effect.
OutOther ==
  /\ Execute("out")
  /\ UNCHANGED <<outBufVars, picVars, intFlag, al, inHandler>>

Out(port) ==
  \/ IsCommandPort(port) /\ OutEoi
  \/ IsDataPort(port) /\ OutData
  \/ ~IsCommandPort(port) /\ ~IsDataPort(port) /\ OutOther

\* Every other instruction leaves this state alone.  That includes popfd and
\* iret: they assign eflags.reg32, which does not share storage with IF.
Other ==
  /\ Execute("other")
  /\ UNCHANGED <<outBufVars, picVars, intFlag, al, inHandler>>

\* An opcode without a handler, or a jump to 0 or beyond the memory.
Stop ==
  /\ "stop" \in Instrs
  /\ Goto("execute", "halted")
  /\ UNCHANGED <<outBufVars, picVars, intFlag, al, inHandler>>

\* The queue has been popped out of its node, and chk_irq looks at its front,
\* or an acknowledgement that is read pops it once more: the program follows a
\* pointer that was never set.  Nothing is said of what comes after.
FollowsWildCursor ==
  /\ ~InNode
  /\ \/ phase = "chk_irq"
     \/ /\ phase = "execute" /\ "in" \in Instrs /\ PopsAgain
        /\ \E port \in InPorts : IsDataPort(port)
  /\ phase' = "wild"
  /\ UNCHANGED <<outBufVars, picVars, intFlag, al, inHandler>>

-----------------------------------------------------------------------------
(***************************************************************************)
(* Threads.                                                                *)
(***************************************************************************)
EmuPush ==
  /\ phase = "pushing"
  /\ Push(Emu)
  /\ phase' = IF todo'[Emu] = <<>> THEN "chk_irq" ELSE "pushing"
  /\ UNCHANGED <<start, picVars, intFlag, al, inHandler>>

EmuThread ==
  \/ ChkIrqLatch \/ ChkIrqRaise \/ ChkIrqDone
  \/ Interrupt \/ NoInterrupt
  \/ Sti \/ Cli \/ Other \/ Stop
  \/ \E port \in InPorts : In(port)
  \/ \E port \in OutPorts : Out(port)
  \/ EmuPush
  \/ FollowsWildCursor

GuiPush ==
  /\ phase # "wild"
  /\ Push(Gui)
  /\ UNCHANGED <<start, picVars, phase, intFlag, al, inHandler>>

GuiCallback ==
  /\ phase # "wild"
  /\ KeyboardCallback \/ MouseCallback
  /\ UNCHANGED <<start, picVars, phase, intFlag, al, inHandler>>

GuiThread == GuiPush \/ GuiCallback

Next == EmuThread \/ GuiThread

Spec == Init /\ [][Next]_vars

\* Both threads are scheduled: the main loop never blocks, and a callback that
\* has begun completes.  Whether the user provides input is up to the user.
ThreadFairness == WF_vars(EmuThread) /\ WF_vars(GuiPush)

\* The guest, again and again, ends its interrupts and enables new ones.
GuestFairness == SF_vars(OutEoi) /\ SF_vars(Sti)

FairSpec == Spec /\ ThreadFairness /\ GuestFairness

-----------------------------------------------------------------------------
(***************************************************************************)
(* Properties.                                                             *)
(***************************************************************************)
\* Every variable keeps its type: requests are only ever on the keyboard and
\* the mouse line, pushes stay inside the node, and the start cursor goes no
\* further than one pop out of it (GUI.cpp, PIC.cpp, keyboard.cpp).
TypeOK ==
  /\ OutBufTypeOK
  /\ PicTypeOK
  /\ phase \in Phase
  /\ intFlag \in BOOLEAN
  /\ al \in 0 .. 255
  /\ inHandler \in BOOLEAN

InSlotOrder(records) ==
  \A i, j \in 1 .. Len(records) : i < j => records[i].slot < records[j].slot

\* No element of out_buf raises two interrupts and none overtakes another:
\* the interrupts delivered and the requests pending come from ever later
\* slots, all of them popped (chk_irq pops once per raised line).
EachSlotOnce ==
  /\ InSlotOrder(served)
  /\ InSlotOrder(origin)
  /\ \A i \in 1 .. Len(served), j \in 1 .. Len(origin) : served[i].slot < origin[j].slot
  /\ \A i \in 1 .. Len(served) : served[i].slot < start
  /\ \A j \in 1 .. Len(origin) : origin[j].slot < start

\* A guest that enables interrupts only after end of interrupt never has more
\* than one request pending, and never executes an instruction while one is:
\* the single byte buf is not overwritten under a pending request.
OneRequestAtATime ==
  EoiBeforeSti =>
    /\ Len(interrupt_queue) <= 1
    /\ phase \in {"chk_irq", "execute", "pushing", "halted"} => interrupt_queue = <<>>

\* The byte that such a guest reads from port 0x60 before it enables
\* interrupts again is the byte of the event whose interrupt it is handling,
\* whatever arrives, and however the producers interleave, in the meantime.
HandlerReadsItsByte ==
  [][EoiBeforeSti /\ inHandler /\ InData
       => al' = served[Len(served)].first % 256]_vars

\* A line is never delivered again before the guest has written end of
\* interrupt, even when the guest enables interrupts in the handler.
NoReentry ==
  [][Len(served') # Len(served) => served'[Len(served')].second \notin unacked]_vars

\* With a guest that keeps ending and enabling interrupts, every event that
\* has been pushed is eventually delivered.
EveryEventServed ==
  \A n \in 1 .. NodeSlots : (finish >= n) ~> (Len(served) >= n)

-----------------------------------------------------------------------------
(***************************************************************************)
(* The refinement of InputChannel: what the window has written into        *)
(* out_buf against what has been delivered.                                *)
(***************************************************************************)
\* The event that a delivered interrupt answers.
EventOf(record) == [first |-> record.first, second |-> record.second]

\* What the window has written into out_buf, when it is the only producer.
SentEvents == [i \in 1 .. Written |-> slots[i - 1]]
GotEvents == [i \in 1 .. Len(served) |-> EventOf(served[i])]
LastGot == IF served = <<>> THEN 0 ELSE served[Len(served)].slot + 1

\* What keyboard::in8 takes for an acknowledgement.
LooksLikeAck == {e \in Event : e.first = Ack}

Channel == INSTANCE InputChannel WITH
  Spoiling <- LooksLikeAck, sent <- SentEvents, got <- GotEvents, last <- LastGot

\* The input path is a channel that repeats, reorders and invents nothing, and
\* loses nothing before a mouse coordinate of 250 has been delivered, as long
\* as only the window thread pushes and the queue's memory is fresh (out_buf,
\* chk_irq, exec_interrupt, keyboard::in8).
InputIsChannel == Channel!Spec

\* The events of the delivered interrupts and of the pending requests.
Records == served \o origin
Acked == \E j \in 1 .. Len(Records) : Records[j].first = Ack

\* chk_irq and in8 do not ask whether out_buf is empty, but under the same
\* conditions they never pop an empty queue, and so never leave its node,
\* before an event that looks like an acknowledgement has raised a request.
EmptyQueueNotPopped == start <= Written \/ Acked
=============================================================================
