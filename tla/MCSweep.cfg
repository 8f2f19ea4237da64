SPECIFICATION Spec
CONSTANTS
  Threads = {t1, t2}
  Cap = 2
  Lower <- LowerFour
  StartStats = 5
  MaxStats = 10
  Step = 5
  Evaluate <- CutDamage
  RawDamage <- CutDamage
  Leftover <- MCLeftover
INVARIANTS
  BestBacked
PROPERTIES
  SweepSpec
  Termination
