SPECIFICATION Spec
CONSTANTS
  Directions <- MCDirections
  Points <- MCPoints
  DbRows <- MCDbRows
  Callers <- BothCallers
INVARIANTS
  MostPoints
CHECK_DEADLOCK FALSE
