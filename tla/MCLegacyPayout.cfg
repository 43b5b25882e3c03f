\* Two Trees with two seasons each, wallets that change (one of them is not an
\* address), any one fault, and an operator who keeps at it.
CONSTANTS
  t1 = t1
  t2 = t2
  w1 = w1
  w2 = w2
  bad = bad
  NoHours = NoHours
  NoWallet = NoWallet
  NoRow = NoRow
  Trees = {t1, t2}
  Seasons = {1, 2}
  Wallets = {w1, w2, bad}
  ValidWallets = {w1, w2}
  Attested <- MCAttested
  DailyRate = 4
  FaultKinds = {"crash", "refused", "lost", "unread", "nonode"}
  MaxFaults = 1
SPECIFICATION FairSpec
INVARIANTS OncePerPair RowsAccount
PROPERTIES HarvestedInTheEnd
