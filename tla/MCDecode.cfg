SPECIFICATION Spec
CONSTANTS
  Radix = 4
  MemorySize = 40
  CsBase = 8
  WordBits = 8
  Logic <- MCLogic
  Programs <- MCPrograms
  Boot <- MCBoot
  Fill <- MCFill
  Stale <- MCStale
CHECK_DEADLOCK FALSE
INVARIANTS
  TypeOK
  AddressAsWritten
PROPERTIES
  FollowsListing
  DoesWhatItSays
