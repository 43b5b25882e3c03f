SPECIFICATION FairSpec
CONSTANTS
  NoRow = NoRow
  Unbound = Unbound
  Trees = {c1, u1}
  Coded = {c1}
  Wired = {u1}
  Released = {u1}
  Wallets = {a, b}
  MaxCrashes = 1
  MaxDeletes = 1
INVARIANTS
  TablesAgree
PROPERTIES
  NoSilentTransfer
  ComesIntoService
