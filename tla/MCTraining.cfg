SPECIFICATION LiveSpec
CONSTANTS
  NThreads = 3
  Inputs <- Any
  OldOutput <- Leftover
INVARIANTS
  TypeOK
  Blocks
  Complete
PROPERTIES
  Ends
CHECK_DEADLOCK FALSE
