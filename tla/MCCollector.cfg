CONSTANTS
  Distance = 2
  MaxConcurrency = 3
  InitialClaimed = 1
  MaxL1 = 3
  SafeL2 <- MCSafeL2
  MaxFaults = 4
SPECIFICATION FairSpec
INVARIANTS
  TypeOK
  HeadCoversClaims
  NoOverlap
PROPERTIES
  ImplementsChain
  ImplementsPicker
  Progress
