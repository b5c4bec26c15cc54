CONSTANTS
  SlotsPerEpoch = 2
  EpochsPerPeriod = 3
  Validators = 3
  Participations <- MCParticipations
  MaxDelay = 5
  MaxSlot = 18
  MaxFaults = 1
SPECIFICATION Spec
INVARIANTS
  TypeOK
  SavedPairFits
  OneBoundary
PROPERTIES
  ImplementsPicker
