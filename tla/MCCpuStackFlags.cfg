\* pushfd and popfd round a critical section.
SPECIFICATION Spec
CONSTANTS
  Words = 24
  SegWords = 4
  Size = 14
  Edge = {5}
  Boot <- StartOnly
  Fill = {0}
  Instrs = {"pushfd", "popfd", "cli", "sti"}
  Code = {1}
  Operands = {}
  Moves <- None
  Loads <- None
  Stores <- None
  Steps = 3
PROPERTY PopfdRestoresIF
CHECK_DEADLOCK FALSE
