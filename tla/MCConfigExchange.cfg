SPECIFICATION ExchangeSpec
CONSTANTS
  MaxEdits = 2
  MaxCalls = 2
  MaxFaults = 3
CHECK_DEADLOCK FALSE
INVARIANTS
  EditKeptUnlessRaced
PROPERTIES
  IsCompareAndSwap
