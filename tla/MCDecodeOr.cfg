SPECIFICATION Spec
CONSTANTS
  Radix = 4
  MemorySize = 40
  CsBase = 8
  WordBits = 8
  Logic <- MCLogic
  Programs <- OrPrograms
  Boot <- MCBoot
  Fill <- MCFill
  Stale <- MCStale
CHECK_DEADLOCK FALSE
PROPERTY
  OrAsTested
