CONSTANTS
  m1 = m1
  m2 = m2
  junk = junk
  Metadata <- MCMetadata
  NoMetadata = NoMetadata
  Strays <- MCStrays
  Ttl = 2
  MaxClock = 4
  MaxFaults = 2
SPECIFICATION Spec
INVARIANTS
  NoDirtyMetadata
