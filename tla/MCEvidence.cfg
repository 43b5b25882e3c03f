SPECIFICATION FairSpec
CONSTANTS
  None = None
  Device = Device
  Signer = Signer
  HoursPerSeason = 2
  MinReadings = 1
  ClaimDepth = 12
  LastHour = 3
  MaxPending = 2
  MaxFaults = 1
  PublishLookback = 2
  MaxLookbackSeasons = 45
  WritePlaceholders = FALSE
  StartHour = 1
  Readings <- MCReadings
  FirstPage <- MCFirstPage
INVARIANTS
  WatermarkBacked
  ClaimsBacked
PROPERTIES
  ImplementsEvidence
  SealsAll
  EvidenceComplete
  OracleInformed
