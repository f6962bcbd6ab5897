\* A guest that keeps ending and enabling interrupts.
SPECIFICATION FairSpec
CONSTANTS
  NodeSlots = 4
  Keys = {1}
  Coords = {3}
  Leftover = {}
  Instrs = {"sti", "cli", "in", "out", "other"}
  InPorts = {96}
  OutPorts = {32, 33}
  Undefined = {0, 97}
  EoiBeforeSti = TRUE
PROPERTIES EveryEventServed
CHECK_DEADLOCK FALSE
