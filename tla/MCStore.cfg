SPECIFICATION Spec
CONSTANTS
  w1 = w1
  w2 = w2
  Weapons = {w1, w2}
  Calls <- ProgramCalls
  MaxStats = 15
  Step = 5
  Lines = 3
  Absent = Absent
INVARIANTS
  TypeOK
  LengthTells
  AllSaved
PROPERTIES
  FinishedStays
