CONSTANTS
  Distance = 2
  MaxConcurrency = 2
  InitialClaimed = 1
  MaxL1 = 3
  SafeL2 <- MCSafeL2
  MaxFaults = 2
SPECIFICATION Spec
INVARIANTS
  RunningBounded
