SPECIFICATION Spec
CONSTANTS
  a1 = a1
  a2 = a2
  p1 = p1
  p2 = p2
  Actors = {a1, a2}
  Peers = {p1, p2}
  Pools <- TwoPools
  CreateRequests <- Creates
  UpdateRequests <- Updates
  Adopted <- Imports
  MaxScan = 4
  None = None
SYMMETRY Symmetric
CHECK_DEADLOCK FALSE
INVARIANTS
  RowsMatchPeers
  PreviewedAddressHolds
PROPERTIES
  OverlapOnlyByEnable
