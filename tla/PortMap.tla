------------------------------ MODULE PortMap ------------------------------
(***************************************************************************)
(* The registration of devices (Emulator.cpp, set_portio): any sequence of *)
(* calls, over a few addresses and lengths, and the routing of every port  *)
(* after each of them.                                                     *)
(***************************************************************************)
EXTENDS PortIO

CONSTANTS
  Addrs,     \* addresses passed to set_portio
  Lengths,   \* lengths passed to it
  Probed     \* ports whose routing is examined

\* Away from 0, which get_portio_base returns for no device, and from the
\* end, where the probes below a port wrap.
ASSUME PortMapAssumption ==
  /\ Addrs \subseteq 2 .. Ports - 9
  /\ Lengths \subseteq Nat
  /\ Probed \subseteq Port

VARIABLE portMap

Init == portMap = <<>>

Register == \E addr \in Addrs, len \in Lengths : portMap' = SetPortIO(portMap, addr, len)

Next == Register

Spec == Init /\ [][Next]_portMap

-----------------------------------------------------------------------------
TypeOK ==
  /\ DOMAIN portMap \subseteq 2 .. Ports - 10
  /\ \A b \in DOMAIN portMap : b % 2 = 0 /\ portMap[b] \in Nat

PortsOf(b) == b .. b + portMap[b] - 1

\* No base lies in the range of another device, so that no two ranges meet.
Separate == \A b, c \in DOMAIN portMap : b # c => b \notin PortsOf(c)

\* The longest range whose every port the probes below it reach.
Reach == 10

\* While ranges are separate, whatever the order of the calls, no port is
\* routed to a device that does not own it, and a port within reach of its
\* base is routed to its device (get_portio_base: the nearest base decides).
RoutedToOwner ==
  Separate =>
    \A p \in Probed, b \in DOMAIN portMap :
      /\ p \in PortsOf(b) => GetPortIOBase(portMap, p) \in {b, 0}
      /\ p \in PortsOf(b) /\ p < b + Reach => GetPortIOBase(portMap, p) = b
      /\ GetPortIOBase(portMap, p) = b => p \in PortsOf(b)
=============================================================================
