SPECIFICATION Spec
CONSTANTS
  Peers = {p1}
  Specs <- TwoSpecs
  Actors = {a1}
  Callers = {c1}
  Boot = Boot
  Nobody = Nobody
  Types <- EveryType
  MaxOps = 2
  MaxEdits = 0
  MaxToggles = 0
  MaxFaults = 3
CHECK_DEADLOCK FALSE
INVARIANTS
  HostChangeJournalled
  StartsFromRecord
  FileAgrees
  RuntimeAgrees
PROPERTY IsLedger
