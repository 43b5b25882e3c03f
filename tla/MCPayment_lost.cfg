\* The wallet takes a spend and its answer is lost.
CONSTANTS
  d1 = d1
  d2 = d2
  Unknown = Unknown
  Procs = {p1}
  Cycles <- OneDay
  Wallets = {1, 2}
  Allocated <- OneDayOwed
  Caps = {2}
  MaxPerCycle = 10
  MinPayout = 1
  Fee = 0
  MaxAttempts = 3
  InitialBalance = 6
  FaultKinds = {"lost"}
  MaxFaults = 1
  Exclusive = TRUE
SPECIFICATION Spec
INVARIANTS AtMostOnce
