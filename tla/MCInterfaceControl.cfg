SPECIFICATION FairSpec
CONSTANTS
  Names = {n1}
  Forwarding = {n1}
  Nft = {n1}
  AutoStart = {n1}
  MaxOps = 2
  MaxEdits = 1
  MaxFaults = 2
CHECK_DEADLOCK FALSE
INVARIANTS
  NothingLeft
  LiveIsComplete
PROPERTIES
  ForeignKeptUnlessRaced
  AgentServes
