SPECIFICATION FairSpec
CONSTANTS
  p1 = p1
  p2 = p2
  h1 = h1
  h2 = h2
  sub = sub
  n1 = n1
  n2 = n2
  Actors = {a1, a2}
  Peers = {p1, p2}
  Prefixes = {h1, h2, sub}
  Nets = {n1, n2}
  Contains <- NetContains
  Files <- SomeFiles
  Devices <- SomeDevices
  MaxOps = 2
  MaxEdits = 1
  MaxFaults = 2
CHECK_DEADLOCK FALSE
INVARIANTS
  ObservedIsUntouched
  AdoptedIsComplete
  NoOrphanSecret
PROPERTIES
  ResolvedBeforeServing
  AgentServes
