\* Two processes, each a command or a scheduler; the balance covers one cycle
\* and a half.
CONSTANTS
  Unknown = Unknown
  Free = Free
  Orphan = Orphan
  NoWallet = NoWallet
  Never = Never
  Procs = {p1, p2}
  Cycles = {1, 2}
  Wallets = {1, 2}
  Fleet <- MCFleet
  Allocated <- MCAllocated
  Samples <- MCSamples
  Budget = 5
  Period = 4
  StaleAfter = 3
  MinUptime = 0
  Caps = {2}
  MaxPerCycle = 5
  MinPayout = 1
  Fee = 0
  MaxAttempts = 2
  InitialBalance = 6
  FaultKinds = {"reject", "unknown", "crash", "nobalance"}
  MaxFaults = 2
  Exclusive = FALSE
SPECIFICATION FairSpec
INVARIANTS SpendingIsRecorded OneInDoubt SharesAreFair
PROPERTIES CyclesEnd
