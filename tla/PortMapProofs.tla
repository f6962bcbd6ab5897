--------------------------- MODULE PortMapProofs ---------------------------
(***************************************************************************)
(* Ports are routed to their owner, after any registrations, for devices   *)
(* at any address away from the ends and with ranges of any length.        *)
(***************************************************************************)
EXTENDS PortMap, TLAPS

LEMMA Count == Ports \in Nat /\ Ports > 100 /\ \E h \in Nat : Ports = 2 * h
<1>1. 65536 = 2 * 32768 /\ 32768 \in Nat
  OBVIOUS
<1>2. QED
  BY <1>1 DEF Ports

LEMMA Remainder ==
  ASSUME NEW d \in Nat \ {0}, NEW q \in Int, NEW r \in 0 .. d - 1, NEW a \in Int, a = q * d + r
  PROVE  a % d = r
  OBVIOUS

LEMMA InRange == ASSUME NEW a \in 0 .. Ports - 1 PROVE a % Ports = a
<1>1. a = 0 * Ports + a /\ 0 \in Int /\ a \in Int /\ Ports \in Nat \ {0}
  BY Count
<1>2. QED
  BY ONLY <1>1, Remainder, a \in 0 .. Ports - 1

\* The nearest of the bases tried exists and is one of them.
LEMMA Nearest ==
  ASSUME NEW hits \in SUBSET Probes, hits # {}
  PROVE  Min(hits) \in hits /\ \A i \in hits : Min(hits) <= i
<1>1. \E x \in hits : \A y \in hits : x <= y
  <2>1. \A y \in hits : y \in {0, 1, 2, 3, 4}
    BY DEF Probes
  <2>2. CASE 0 \in hits
    BY <2>1, <2>2
  <2>3. CASE 0 \notin hits /\ 1 \in hits
    BY <2>1, <2>3
  <2>4. CASE {0, 1} \cap hits = {} /\ 2 \in hits
    BY <2>1, <2>4
  <2>5. CASE {0, 1, 2} \cap hits = {} /\ 3 \in hits
    BY <2>1, <2>5
  <2>6. CASE {0, 1, 2, 3} \cap hits = {}
    <3>1. \A y \in hits : y = 4
      BY <2>1, <2>6
    <3>2. QED
      BY <3>1
  <2>7. QED
    BY <2>2, <2>3, <2>4, <2>5, <2>6
<1>2. QED
  BY <1>1 DEF Min

\* A base that is tried lies at or below the port: probes that wrap meet no
\* device.
LEMMA Below ==
  ASSUME TypeOK, NEW p \in Port, NEW i \in Probes, Candidate(p, i) \in DOMAIN portMap
  PROVE  Candidate(p, i) = p - (p % 2) - 2 * i /\ Candidate(p, i) <= p
<1> DEFINE c == p - (p % 2) - 2 * i
<1>1. p \in 0 .. Ports - 1 /\ p % 2 \in 0 .. 1 /\ i \in 0 .. 4 /\ c \in Int /\ c <= p
  BY DEF Port, Probes
<1>2. c % Ports \in 2 .. Ports - 10
  BY DEF TypeOK, Candidate
<1> HIDE DEF c
<1>3. CASE c < 0
  <2>1. c % Ports = c + Ports /\ c >= -9
    <3>1. c >= -9
      BY <1>1 DEF c
    <3>2. c + Ports \in 0 .. Ports - 1 /\ c = (-1) * Ports + (c + Ports)
      BY <1>1, <1>3, <3>1, Count
    <3>3. c % Ports = c + Ports
      <4>1. Ports \in Nat \ {0} /\ c \in Int /\ -1 \in Int
        BY <1>1, Count
      <4>2. QED
        BY ONLY <3>2, <4>1, Remainder
    <3>4. QED
      BY <3>1, <3>3
  <2>2. QED
    BY <1>1, <1>2, <2>1, Count
<1>4. CASE c >= 0
  <2>0. c \in 0 .. Ports - 1
    BY <1>1, <1>4, Count
  <2>1. c % Ports = c
    BY ONLY <2>0, InRange
  <2>2. QED
    BY <1>1, <2>1 DEF Candidate, c
<1>5. QED
  BY <1>1, <1>3, <1>4

LEMMA RegisterType == TypeOK /\ Register => TypeOK'
<1> SUFFICES ASSUME TypeOK, NEW addr \in Addrs, NEW len \in Lengths,
                    portMap' = SetPortIO(portMap, addr, len)
             PROVE  TypeOK'
  BY DEF Register
<1> DEFINE base == addr - (addr % 2)
<1>1. base \in 2 .. Ports - 10 /\ base % 2 = 0
  <2>1. addr \in 2 .. Ports - 9
    BY PortMapAssumption
  <2>2. PICK k \in Int, bit \in 0 .. 1 : addr = 2 * k + bit /\ addr % 2 = bit
    <3>1. addr \in Int /\ addr = 2 * (addr \div 2) + (addr % 2) /\ addr % 2 \in 0 .. 1 /\ addr \div 2 \in Int
      BY <2>1, Count
    <3>2. QED
      BY <3>1
  <2>3. base = 2 * k
    BY <2>2
  <2>4. k >= 1 /\ 2 * k <= Ports - 10
    BY <2>1, <2>2, Count
  <2>5. base \in 2 .. Ports - 10 /\ base % 2 = 0
    BY <2>3, <2>4, Count
  <2>6. QED
    BY <2>5
<1>2. len \in Nat
  BY PortMapAssumption
<1> HIDE DEF base
<1>3. portMap' = [b \in DOMAIN portMap \cup {base} |-> IF b = base THEN len ELSE portMap[b]]
  BY DEF SetPortIO, base
<1>4. QED
  BY <1>1, <1>2, <1>3 DEF TypeOK

\* Registered bases are even and lengths are numbers (set_portio).
THEOREM TypeCorrect == Spec => []TypeOK
<1>1. Init => TypeOK
  BY DEF Init, TypeOK
<1>2. TypeOK /\ [Next]_portMap => TypeOK'
  <2>1. TypeOK /\ UNCHANGED portMap => TypeOK'
    BY DEF TypeOK
  <2>2. QED
    BY <2>1, RegisterType DEF Next
<1>3. QED
  BY <1>1, <1>2, PTL DEF Spec

\* Two separate ranges have no port in common.
LEMMA Disjoint ==
  ASSUME TypeOK, Separate, NEW b \in DOMAIN portMap, NEW c \in DOMAIN portMap,
         NEW p \in Port, p \in PortsOf(b), p \in PortsOf(c)
  PROVE  b = c
<1>1. b \in Int /\ c \in Int /\ portMap[b] \in Int /\ portMap[c] \in Int /\ p \in Int
  BY DEF TypeOK, Port
<1>2. b # c => b \notin PortsOf(c) /\ c \notin PortsOf(b)
  BY DEF Separate
<1>3. QED
  BY <1>1, <1>2 DEF PortsOf

\* get_portio_base finds no device but the owner of a port, and finds it when
\* the port is within reach of the five probes.
THEOREM OwnersOnly == Spec => []RoutedToOwner
<1>1. TypeOK => RoutedToOwner
  <2> SUFFICES ASSUME TypeOK, Separate, NEW p \in Port, NEW b \in DOMAIN portMap
               PROVE  /\ p \in PortsOf(b) => GetPortIOBase(portMap, p) \in {b, 0}
                      /\ p \in PortsOf(b) /\ p < b + Reach => GetPortIOBase(portMap, p) = b
                      /\ GetPortIOBase(portMap, p) = b => p \in PortsOf(b)
    BY PortMapAssumption DEF RoutedToOwner
  <2> DEFINE hits == {i \in Probes : Candidate(p, i) \in DOMAIN portMap}
             base == Candidate(p, Min(hits))
  <2>0. GetPortIOBase(portMap, p) = IF hits # {} /\ p < base + portMap[base] THEN base ELSE 0
    BY DEF GetPortIOBase
  <2>1. b \in 2 .. Ports - 10 /\ b % 2 = 0 /\ portMap[b] \in Nat /\ p \in 0 .. Ports - 1 /\ p % 2 \in 0 .. 1
    BY DEF TypeOK, Port
  <2>2. ASSUME hits # {}
        PROVE  /\ base \in DOMAIN portMap /\ base <= p /\ base \in Int /\ portMap[base] \in Nat
               /\ \A i \in hits : Candidate(p, i) <= base
    <3>1. Min(hits) \in hits /\ \A i \in hits : Min(hits) <= i
      BY <2>2, Nearest
    <3>2. \A i \in hits : i \in Probes /\ Candidate(p, i) = p - (p % 2) - 2 * i /\ Candidate(p, i) <= p
      BY Below
    <3>3. base \in DOMAIN portMap /\ base <= p
      BY <3>1, <3>2
    <3>4. base \in Int /\ portMap[base] \in Nat
      BY <3>3 DEF TypeOK
    <3>5. ASSUME NEW i \in hits PROVE Candidate(p, i) <= base
      <4> DEFINE m == Min(hits)
      <4>1. m \in hits /\ m <= i /\ m \in Int /\ i \in Int
        BY <3>1, <3>2 DEF Probes
      <4>2. Candidate(p, m) = p - (p % 2) - 2 * m /\ Candidate(p, i) = p - (p % 2) - 2 * i
        BY <3>2, <4>1
      <4> HIDE DEF m, hits
      <4>3. p - (p % 2) - 2 * i <= p - (p % 2) - 2 * m
        BY <2>1, <4>1
      <4>4. QED
        BY <4>2, <4>3 DEF m
    <3>6. QED
      BY <3>3, <3>4, <3>5
  <2>3. ASSUME p \in PortsOf(b), p < b + Reach PROVE \E i \in hits : Candidate(p, i) = b
    <3> DEFINE i == (p - (p % 2) - b) \div 2
    <3>1. p >= b /\ p < b + 10
      BY <2>1, <2>3 DEF PortsOf, Reach
    <3>2. i \in 0 .. 4 /\ p - (p % 2) - 2 * i = b
      BY <2>1, <3>1
    <3> HIDE DEF i
    <3>3. Candidate(p, i) = b
      <4>1. b % Ports = b
        BY <2>1, Count, InRange
      <4>2. QED
        BY <3>2, <4>1 DEF Candidate
    <3>4. QED
      BY <3>2, <3>3 DEF Probes
  <2> HIDE DEF hits, base
  <2>4. ASSUME p \in PortsOf(b), hits # {}, p < base + portMap[base] PROVE base = b
    <3>1. p \in PortsOf(base)
      BY <2>1, <2>2, <2>4 DEF PortsOf
    <3>2. QED
      BY <2>2, <2>4, <3>1, Disjoint
  <2>5. ASSUME p \in PortsOf(b), p < b + Reach PROVE hits # {} /\ base = b /\ p < base + portMap[base]
    <3>1. hits # {} /\ b <= base /\ base <= p
      BY <2>2, <2>3, <2>5
    <3>2. base \in PortsOf(b)
      BY <2>1, <2>2, <2>5, <3>1 DEF PortsOf
    <3>3. base = b
      BY <2>2, <3>1, <3>2 DEF Separate
    <3>4. QED
      BY <2>1, <2>5, <3>1, <3>3 DEF PortsOf
  <2>6. ASSUME GetPortIOBase(portMap, p) = b PROVE p \in PortsOf(b)
    <3>1. hits # {} /\ p < base + portMap[base] /\ base = b
      BY <2>0, <2>1, <2>6
    <3>2. QED
      BY <2>1, <2>2, <3>1 DEF PortsOf
  <2>7. QED
    BY <2>0, <2>4, <2>5, <2>6
<1>2. QED
  BY <1>1, TypeCorrect, PTL
=============================================================================
