SPECIFICATION Spec
CONSTANTS
  Weapons <- MCWeapons
  Motions <- MCMotions
  Top = 3
  Most = 4
  Unit = 1
  MotionUnit = 1
  Defense = 8
INVARIANTS
  TypeOK
PROPERTIES
  NeverLowers
CHECK_DEADLOCK FALSE
