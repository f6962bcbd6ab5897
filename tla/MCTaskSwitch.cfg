\* Three tasks, two code segments, two local tables.
SPECIFICATION Spec
CONSTANTS
  A = A
  B = B
  C = C
  NoBase = NoBase
  Base <- ThreeBases
  Gdt <- ThreeTasks
  Selectors <- JumpsWithThree
  Address = {1}
  Stack = {1}
  Data = {1}
  Ldt = {1, 2}
  FlagBits = {FALSE}
  NT = {FALSE, TRUE}
INVARIANTS TypeOK LinksBack LdtOfTask
PROPERTY OwnContext
CHECK_DEADLOCK FALSE
