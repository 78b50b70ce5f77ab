SPECIFICATION Spec
CONSTANTS
  w1 = w1
  w2 = w2
  s1 = s1
  s2 = s2
  r1 = r1
  r2 = r2
  Passwords = {w1, w2}
  Tokens = {t1, t2}
  Sessions = {s1, s2}
  Requests = {r1, r2}
  Attempts = 3
  LockFor = 2
  IdleFor = 1
  SessionFor = 2
  ReauthFor = 1
  TokenFor = 1
  ReadFor = 1
  MaxLost = 1
  None = None
SYMMETRY Symmetric
VIEW Relevant
INVARIANTS
  KnowsPassword
  GuessesBounded
PROPERTIES
  LockOnlyOutrun
  SensitiveIsConfirmed
