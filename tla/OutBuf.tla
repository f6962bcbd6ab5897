------------------------------- MODULE OutBuf -------------------------------
(***************************************************************************)
(* The queue out_buf through which the window thread hands keyboard and    *)
(* mouse input to the emulator thread (GUI.cpp).  It is a plain            *)
(* std::queue<std::pair<int,int>> shared by two threads without a lock.    *)
(*                                                                         *)
(* std::queue is a libstdc++ deque; the program is built without           *)
(* optimisation (Makefile, CFLAGS), so a push is the four memory accesses  *)
(* of deque::emplace_back, and threads interleave between them:            *)
(*   aim    load _M_finish._M_cur, the slot to construct in                *)
(*   write  store the pair into that slot                                  *)
(*   load   load _M_finish._M_cur again                                    *)
(*   store  store the loaded cursor plus one                               *)
(* front() and pop() look at _M_start._M_cur only: neither of them tests   *)
(* whether the queue is empty, and a queue that is popped often enough     *)
(* leaves its node.                                                        *)
(***************************************************************************)
EXTENDS Integers, Sequences

CONSTANTS
  NodeSlots,   \* the deque node has one slot more; a behaviour pushes no more
               \* elements than this, so that none needs another node (a bound)
  Keys,        \* first components a key press may push (key - '0')
  Coords,      \* mouse coordinates a motion event may push
  Leftover     \* events an unwritten slot may still hold: {} when the node
               \* is fresh memory, not {} when the heap recycled an old node

Gui == "gui"         \* the thread of GUI::ThreadProc
Emu == "emu"         \* the thread of main
Thread == {Gui, Emu}

KeyboardIrq == 1
MouseIrq == 12
Ack == 250           \* 0xfa, the answer of the keyboard controller

Value == Keys \cup Coords \cup {0, Ack}
Event == [first : Value, second : {KeyboardIrq, MouseIrq}]

\* What a slot of zeroed memory reads as: its second component is no line.
Unwritten == [first |-> 0, second |-> 0]

Slot == 0 .. NodeSlots

\* Popping the last slot frees the node, and the start cursor then comes from
\* an entry of the deque's map that was never set: it is outside.
StartSlot == 0 .. NodeSlots + 1

ASSUME OutBufAssumption ==
  /\ NodeSlots \in Nat
  /\ Keys \subseteq Int
  /\ Coords \subseteq Int
  /\ Leftover \subseteq Event

VARIABLES
  slots,    \* the memory of the deque node
  start,    \* _M_start._M_cur, as a slot number, or NodeSlots + 1 when outside
  finish,   \* _M_finish._M_cur
  todo,     \* per thread, the pushes the running callback has still to make
  step,     \* per thread, the next access of the push at the head of todo
  cursor,   \* per thread, the value of _M_finish._M_cur it loaded last
  pushes    \* pushes begun so far: only bounds the model

outBufVars == <<slots, start, finish, todo, step, cursor, pushes>>
producerVars == <<slots, finish, todo, step, cursor, pushes>>

OutBufInit ==
  /\ slots \in [Slot -> {Unwritten} \cup Leftover]
  /\ start = 0
  /\ finish = 0
  /\ todo = [t \in Thread |-> <<>>]
  /\ step = [t \in Thread |-> "aim"]
  /\ cursor = [t \in Thread |-> 0]
  /\ pushes = 0

-----------------------------------------------------------------------------
(***************************************************************************)
(* Producers.  A callback, or the keyboard controller, pushes the events   *)
(* of a list one after the other.                                          *)
(***************************************************************************)
BeginPushes(t, events) ==
  /\ todo[t] = <<>>
  /\ pushes + Len(events) <= NodeSlots
  /\ todo' = [todo EXCEPT ![t] = events]
  /\ pushes' = pushes + Len(events)
  /\ UNCHANGED <<slots, finish, step, cursor>>

PushAim(t) ==
  /\ todo[t] # <<>> /\ step[t] = "aim"
  /\ cursor' = [cursor EXCEPT ![t] = finish]
  /\ step' = [step EXCEPT ![t] = "write"]
  /\ UNCHANGED <<slots, finish, todo, pushes>>

PushWrite(t) ==
  /\ todo[t] # <<>> /\ step[t] = "write"
  /\ slots' = [slots EXCEPT ![cursor[t]] = Head(todo[t])]
  /\ step' = [step EXCEPT ![t] = "load"]
  /\ UNCHANGED <<finish, todo, cursor, pushes>>

PushLoad(t) ==
  /\ todo[t] # <<>> /\ step[t] = "load"
  /\ cursor' = [cursor EXCEPT ![t] = finish]
  /\ step' = [step EXCEPT ![t] = "store"]
  /\ UNCHANGED <<slots, finish, todo, pushes>>

PushStore(t) ==
  /\ todo[t] # <<>> /\ step[t] = "store"
  /\ finish' = cursor[t] + 1
  /\ todo' = [todo EXCEPT ![t] = Tail(@)]
  /\ step' = [step EXCEPT ![t] = "aim"]
  /\ UNCHANGED <<slots, cursor, pushes>>

Push(t) == PushAim(t) \/ PushWrite(t) \/ PushLoad(t) \/ PushStore(t)

\* keyboard_callback: one event on the keyboard line.
KeyEvents(k) == <<[first |-> k, second |-> KeyboardIrq]>>

\* mouse_callback: three events, the buttons (always 0) and the two coordinates.
MouseEvents(x, y) ==
  <<[first |-> 0, second |-> MouseIrq],
    [first |-> x, second |-> MouseIrq],
    [first |-> y, second |-> MouseIrq]>>

KeyboardCallback == \E k \in Keys : BeginPushes(Gui, KeyEvents(k))

MouseCallback == \E x, y \in Coords : BeginPushes(Gui, MouseEvents(x, y))

-----------------------------------------------------------------------------
(***************************************************************************)
(* The consumer.                                                           *)
(***************************************************************************)
InNode == start \in Slot

Front == slots[start]

\* out_buf.pop(): the start cursor moves on whatever the finish cursor says.
Pop == start' = start + 1

\* The slots that the producers have filled, when only the window thread
\* pushes: a slot counts from the moment the pair is in it.
Written == finish + (IF step[Gui] \in {"load", "store"} THEN 1 ELSE 0)

OutBufTypeOK ==
  /\ slots \in [Slot -> Event \cup {Unwritten}]
  /\ start \in StartSlot
  /\ finish \in Slot
  /\ todo \in [Thread -> Seq(Event)]
  /\ step \in [Thread -> {"aim", "write", "load", "store"}]
  /\ cursor \in [Thread -> Slot]
  /\ pushes \in Slot
=============================================================================
