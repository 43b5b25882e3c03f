SPECIFICATION FairSpec
CONSTANTS
  t1 = t1
  t2 = t2
  Trees <- TwoTrees
  Pool = 13
  Schedule <- TwoYears
  DaysPerYear = 1
  Runs = {r1}
  Exclusive = TRUE
  Single = {0}
  Observations <- Observed
  LastDay = 2
INVARIANTS
  DowntimeIsOwn
PROPERTIES
  AllSettled
