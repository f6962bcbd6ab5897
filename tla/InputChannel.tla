---------------------------- MODULE InputChannel ----------------------------
(***************************************************************************)
(* What the input path promises: a channel from the window to the guest.   *)
(* The user's events are sent one by one, and each interrupt delivers one  *)
(* of them, in the order in which they were sent.  None is skipped before  *)
(* an event of Spoiling has been delivered; after that some may be lost.   *)
(***************************************************************************)
EXTENDS Naturals, Sequences

CONSTANTS
  Event,     \* what can be sent
  Spoiling   \* the events after which the channel may lose others

VARIABLES
  sent,      \* the events sent so far
  got,       \* the events delivered so far
  last       \* the position in sent of the event delivered last, 0 at first

channelVars == <<sent, got, last>>

MayLose == \E i \in 1 .. Len(got) : got[i] \in Spoiling

Init == sent = <<>> /\ got = <<>> /\ last = 0

Send ==
  /\ \E e \in Event : sent' = Append(sent, e)
  /\ UNCHANGED <<got, last>>

Deliver ==
  /\ \E n \in last + 1 .. Len(sent) :
       /\ MayLose \/ n = last + 1
       /\ got' = Append(got, sent[n])
       /\ last' = n
  /\ UNCHANGED sent

Next == Send \/ Deliver

Spec == Init /\ [][Next]_channelVars
=============================================================================
