SPECIFICATION FairSpec
CONSTANTS
  Artifacts = {a1, a2}
  NoArtifact = NoArtifact
  Requests = {r1, r2}
  TTL = 1
  MaxTime = 1
  MaxFaults = 2
INVARIANTS HandedOutOnce CiphertextFollowsRow SuccessErases
PROPERTY ClaimIsSettled
CHECK_DEADLOCK FALSE
