\* A file of five blocks whose numbers wrap around, two premature time-outs.
SPECIFICATION Spec
CONSTANTS
  Blocks = 5
  BlkMod = 4
  Tries = 3
  MaxEarly = 2
INVARIANTS
  StoresPrefix
  InStep
PROPERTIES
  Ends
CHECK_DEADLOCK FALSE
