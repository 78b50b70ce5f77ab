SPECIFICATION Spec
CONSTANTS
  Names = {n1, n2}
  Forwarding = {n1, n2}
  Nft = {}
  AutoStart = {}
  MaxOps = 3
  MaxEdits = 0
  MaxFaults = 1
CHECK_DEADLOCK FALSE
INVARIANT ForwardingKept
