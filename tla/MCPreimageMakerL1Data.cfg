CONSTANTS
  Distance = 1
  MaxConcurrency = 2
  InitialClaimed = 0
  MaxL1 = 2
  SafeL2 <- MCSafeL2
  Ttl = 2
  MaxClock = 4
  MaxFaults = 0
SPECIFICATION MakerSpec
INVARIANTS
  ListedHasL1Data
