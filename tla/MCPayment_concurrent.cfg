\* Two payers at once over one day, refusals and lost answers fewer than a run
\* has attempts, and coins enough to pay twice.
CONSTANTS
  d1 = d1
  d2 = d2
  Unknown = Unknown
  Procs = {p1, p2}
  Cycles <- OneDay
  Wallets = {1, 2}
  Allocated <- OneDayOwed
  Caps = {2}
  MaxPerCycle = 10
  MinPayout = 1
  Fee = 0
  MaxAttempts = 3
  InitialBalance = 9
  FaultKinds = {"reject", "lost"}
  MaxFaults = 2
  Exclusive = FALSE
SPECIFICATION FairSpec
INVARIANTS
  SpendLeavesTrace
PROPERTIES
  EventuallyPaid
