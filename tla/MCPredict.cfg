SPECIFICATION Spec
CONSTANTS
  Requests <- MCRequests
  Callers <- MCCallers
  Classes <- MCClasses
  ClassPoints = 7
  Owns <- MCOwns
  Top <- MCTop
  Hp <- MCHp
  Guard <- MCGuard
  Poise <- MCPoise
  Fp <- MCFp
  Breaks <- MCBreaks
  Scores = {0, 1}
INVARIANTS
  TypeOK
  BestAtEach
  SpendsLevel
  NumBuildsBest
  RowsMonotone
PROPERTIES
  ClassesLevel
  ClassesSettle
CHECK_DEADLOCK FALSE
