\* Two producers without a lock, recycled queue memory, acknowledgements.
SPECIFICATION Spec
CONSTANTS
  NodeSlots = 4
  Keys = {1}
  Coords = {3}
  Leftover <- StaleKey
  Instrs = {"sti", "cli", "in", "out", "other"}
  InPorts = {96}
  OutPorts = {32, 96}
  Undefined = {0, 97}
  EoiBeforeSti = TRUE
INVARIANTS TypeOK EachSlotOnce OneRequestAtATime
PROPERTIES HandlerReadsItsByte
CHECK_DEADLOCK FALSE
