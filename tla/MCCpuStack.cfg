\* Calls, frames, registers saved and restored, interrupted anywhere.
SPECIFICATION Spec
CONSTANTS
  Words = 24
  SegWords = 4
  Size = 14
  Edge = {5}
  Boot <- StartOnly
  Fill = {0}
  Instrs = {"push", "pop", "pushad", "popad", "pushfd", "popfd", "move", "store", "jump", "iret", "cli", "sti", "call", "ret", "leave"}
  Code = {1}
  Operands = {"ebp", "ss", "esp"}
  Moves <- FrameMoves
  Loads <- SomeLoads
  Stores <- SomeStores
  Steps = 4
INVARIANTS TypeOK Intact
PROPERTIES PopsRestore IretResumes
CHECK_DEADLOCK FALSE
