SPECIFICATION FairSpec
CONSTANTS
  Peers = {p1}
  Specs <- OneSpec
  Actors = {a1}
  Callers = {c1, c2}
  Boot = Boot
  Nobody = Nobody
  Types <- FileChecked
  MaxOps = 1
  MaxEdits = 1
  MaxToggles = 1
  MaxFaults = 1
CHECK_DEADLOCK FALSE
INVARIANT AccountedOnce
PROPERTIES
  LockIsGranted
  AgentServes
