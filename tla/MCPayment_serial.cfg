\* One payer at a time; any fault but a lost answer.  The balance covers one
\* of the two days only, and a wallet is capped below what it is owed or not.
CONSTANTS
  d1 = d1
  d2 = d2
  Unknown = Unknown
  Procs = {p1}
  Cycles <- TwoDays
  Wallets = {1, 2}
  Allocated <- TwoDaysOwed
  Caps = {1, 2}
  MaxPerCycle = 10
  MinPayout = 1
  Fee = 0
  MaxAttempts = 3
  InitialBalance = 4
  FaultKinds = {"reject", "unknown", "crash", "nobalance"}
  MaxFaults = 4
  Exclusive = TRUE
SPECIFICATION Spec
INVARIANTS AtMostOnce PaidMeansSent AuditTellsTruth
PROPERTIES PaysOut
