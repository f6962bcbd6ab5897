\* Devices around ports 0x5c .. 0x66, short and long ranges, an empty one.
SPECIFICATION Spec
CONSTANTS
  Addrs = {92, 93, 96, 98, 102}
  Lengths = {0, 1, 2, 5, 12}
  Probed <- ProbedPorts
INVARIANTS TypeOK RoutedToOwner
