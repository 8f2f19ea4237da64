SPECIFICATION Spec
CONSTANTS
  Directions <- MCDirections
  Points <- MCPoints
  DbRows <- MCDbRows
  Callers <- BothCallers
INVARIANTS
  TypeOK
  SumExact
  Quota
  LargestFirst
CHECK_DEADLOCK FALSE
