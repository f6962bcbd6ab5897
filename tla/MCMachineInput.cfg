\* Keyboard and mouse input, coordinates that look like an acknowledgement, any guest that does not write port 0x60.
SPECIFICATION Spec
CONSTANTS
  NodeSlots = 4
  Keys = {1, 2}
  Coords = {3, 250}
  Leftover = {}
  Instrs = {"sti", "cli", "in", "out", "other", "stop"}
  InPorts = {32, 96, 100, 160}
  OutPorts = {32, 33}
  Undefined = {0, 97}
  EoiBeforeSti = FALSE
INVARIANTS EmptyQueueNotPopped
PROPERTIES InputIsChannel NoReentry
CHECK_DEADLOCK FALSE
