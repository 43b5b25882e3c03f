SPECIFICATION Spec
CONSTANTS
  t1 = t1
  t2 = t2
  Trees <- TwoTrees
  Pool = 13
  Schedule <- TwoYears
  DaysPerYear = 1
  Runs = {r1, r2}
  Exclusive = FALSE
  Single = {0}
  Observations <- Earning
  LastDay = 2
SYMMETRY Symmetry
INVARIANTS
  NeverOverdrawn
  AuditsClean
  CurrentIsComplete
