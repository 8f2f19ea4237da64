SPECIFICATION Spec
CONSTANTS
  main = main
  t1 = t1
  t2 = t2
  k1 = k1
  k2 = k2
  Procs = {main, t1, t2}
  Main = main
  Keys = {k1, k2}
  Endurance <- MCEndurance
  MaxStat = 4
  WarmLevel = 2
  Levels = {3}
SYMMETRY Symmetry
INVARIANTS
  OwnCombinations
