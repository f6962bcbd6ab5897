------------------------------- MODULE PortIO -------------------------------
(***************************************************************************)
(* How the emulator finds the device behind an I/O port (Emulator.cpp).    *)
(* port_io_map is a function from the even base port of each registered    *)
(* device to the length of its range.                                      *)
(***************************************************************************)
EXTENDS Integers, FiniteSetsExt

Ports == 65536    \* values of a uint16_t
Port == 0 .. Ports - 1

\* Mutant: one probe too few.
ProbesMutant == 0 .. 3

\* Even bases tried below a port.
Probes == 0 .. 4

\* Mutant: an odd address is registered as it is.
SetPortIOMutant(map, addr, len) ==
  [b \in DOMAIN map \cup {addr} |-> IF b = addr THEN len ELSE map[b]]

\* set_portio: the base loses its lowest bit, a second call overwrites.
SetPortIO(map, addr, len) ==
  LET base == addr - (addr % 2)
  IN  [b \in DOMAIN map \cup {base} |-> IF b = base THEN len ELSE map[b]]

\* The i-th base get_portio_base tries; uint16_t arithmetic.
Candidate(addr, i) == (addr - (addr % 2) - 2 * i) % Ports

\* get_portio_base: the nearest registered base decides, 0 means no device.
GetPortIOBase(map, addr) ==
  LET hits == {i \in Probes : Candidate(addr, i) \in DOMAIN map}
      base == Candidate(addr, Min(hits))
  IN  IF hits # {} /\ addr < base + map[base] THEN base ELSE 0

PicBase == 32         \* 0x20
KeyboardBase == 96    \* 0x60

\* The three set_portio calls of main.
HaribotePorts ==
  SetPortIO(SetPortIO(SetPortIO(<<>>, PicBase, 2), KeyboardBase, 1), KeyboardBase, 12)

Route(port) == GetPortIOBase(HaribotePorts, port)
=============================================================================
