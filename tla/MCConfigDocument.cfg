SPECIFICATION Spec
CONSTANTS
  p1 = p1
  p2 = p2
  a = a
  b = b
  e = e
  k = k
  s = s
  t = t
  Peers = {p1, p2}
  Cidrs = {a, b}
  Endpoints = {e}
  Keepalives = {k, Off}
  Secrets = {s}
  Off = Off
  Keep = Keep
  Absent = Absent
  Garbled = Garbled
  Texts = {t}
  Files <- ManagedFiles
  Patches <- SmallPatches
  NewPeers <- AllNew
  MaxLines = 11
VIEW LinesAndArchive
CHECK_DEADLOCK FALSE
PROPERTIES
  StaysSafe
  MeaningKept
  LinesKept
