SPECIFICATION VerifierSpec
CONSTANTS
  None = None
  Device = Device
  Signer = Signer
  HoursPerSeason = 2
  MinReadings = 2
  ClaimDepth = 12
  LastHour = 2
  MaxPending = 2
  MaxFaults = 0
  PublishLookback = 1
  MaxLookbackSeasons = 45
  WritePlaceholders = FALSE
  StartHour = 1
  Readings <- MCReadings
  FirstPage <- MCFirstPage
  HonestStores <- MCHonestStores
  WrongStores <- MCWrongStores
PROPERTIES
  ValidIsCurrent
  ValidIsEarned
  ValidIsBacked
  HonestIsValid
  TreesAreExact
