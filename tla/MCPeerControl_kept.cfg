SPECIFICATION Spec
CONSTANTS
  Peers = {p1}
  Specs <- OneSpec
  Actors = {a1}
  Callers = {c1}
  Boot = Boot
  Nobody = Nobody
  Types <- FileChecked
  MaxOps = 1
  MaxEdits = 0
  MaxToggles = 0
  MaxFaults = 3
CHECK_DEADLOCK FALSE
INVARIANT CompletedIsKept
