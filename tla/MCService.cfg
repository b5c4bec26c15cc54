CONSTANTS
  Distance = 1
  InitialClaimed = 1
  L1Blocks = {1}
  SafeL2 <- MCSafeL2
  MaxL2 = 4
  Devnet = TRUE
  Ttl = 3
  UpsertTime = 1
  MaxClock = 3
  MaxFaults = 1
SPECIFICATION FairSpec
INVARIANTS
  TypeOK
PROPERTIES
  NothingMissed
  GoneOnlyIfOld
  ReaderCatchesUp
