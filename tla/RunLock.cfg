SPECIFICATION FairLockSpec
CONSTANTS
  Nobody = Nobody
  Contenders = {p1, p2, p3}
  Windows = TRUE
  Breaks = TRUE
  PidReuse = TRUE
  MaxCrashes = 2
INVARIANTS
  SingleHolder
  HolderIsNamed
PROPERTIES
  StaleIsBroken
