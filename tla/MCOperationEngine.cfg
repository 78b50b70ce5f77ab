SPECIFICATION FairSpec
CONSTANTS
  N = 3
  Idempotent <- FirstIdempotent
  MaxFaults = 3
CHECK_DEADLOCK FALSE
INVARIANTS
  RolledBackRestores
  JournalledBeforeEffect
  NonIdempotentOnce
  RollbackInReverse
PROPERTIES
  ResolvesOrWedged
  IsTransaction
