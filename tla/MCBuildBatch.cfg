CONSTANTS
  Modulus = 16
  Concurrencies <- MCConcurrencies
SPECIFICATION Spec
INVARIANTS
  TypeOK
  ReturnsBatch
  NeverBeyondFinalized
\* The function returns: the loop has no step after that.
CHECK_DEADLOCK FALSE
