SPECIFICATION Spec
CONSTANTS
  Threads = {t1, t2, t3}
  Cap = 2
  Lower <- LowerThree
  StartStats = 5
  MaxStats = 9
  Step = 2
  Evaluate <- CutDamage
  RawDamage <- CutDamage
  Leftover <- MCLeftover
SYMMETRY Symmetry
INVARIANTS
  TypeOK
  Covered
  Disjoint
  Exact
PROPERTIES
  BestRises
