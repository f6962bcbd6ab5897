SPECIFICATION Spec
CONSTANTS
  Half = 2
  Factor = 4
  Bits = 2
INVARIANT ZeroFlagOfResult
