CONSTANTS
  Distance = 1
  MaxConcurrency = 2
  InitialClaimed = 0
  MaxL1 = 2
  SafeL2 <- MCSafeL2
  Ttl = 2
  MaxClock = 4
  MaxFaults = 2
SPECIFICATION MakerSpec
INVARIANTS
  MakerTypeOK
  FreshChain
  StoresNewKeys
PROPERTIES
  OldHeadsOnly
  DelistsOldest
  ImplementsStore
