SPECIFICATION SaveSpec
CONSTANTS
  MaxKey = 5
  RequestKeys <- MCRequests
  Weights <- MCWeights
  Unit = 3
  MaxLines = 1
  Day = 1
  save_frequence = 0
  MaxClock = 1
  MaxCrashes = 2
  MaxRequests = 2
  MaxSaves = 2
INVARIANTS
  DamageBounded
  RoundTrip
