CONSTANTS
  h1 = h1
  h2 = h2
  Heads <- MCHeads
  NoHead = NoHead
  Ttl = 2
  MaxClock = 3
  MaxFaults = 1
SPECIFICATION FairSpec
INVARIANTS
  TypeOK
  NoTornFile
PROPERTIES
  ExpiredIsPurged
