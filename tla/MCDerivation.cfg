CONSTANTS
  Ranges <- MCRanges
  Heads = {1, 2}
  Data = {d1, d2, d3}
  Devnet = TRUE
SPECIFICATION FairSpec
INVARIANTS
  TypeOK
  Replayable
PROPERTIES
  TaskEnds
