SPECIFICATION Spec
CONSTANTS
  main = main
  t1 = t1
  t2 = t2
  k1 = k1
  k2 = k2
  Procs = {main, t1, t2}
  Main = main
  Keys = {k1, k2}
  Endurance <- MCEndurance
  MaxStat = 5
  WarmLevel = 3
  Levels = {1, 3, 5, 6}
SYMMETRY Symmetry
INVARIANTS
  TypeOK
  Provenance
  Pinned
  Reproducible
