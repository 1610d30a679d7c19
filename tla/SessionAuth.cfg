\* One account, two keys, two sessions, two requests at a time.
SPECIFICATION AuthFairSpec
CONSTANTS
  k1 = k1
  k2 = k2
  s1 = s1
  s2 = s2
  r1 = r1
  r2 = r2
  Keys = {k1, k2}
  BirthKey = k1
  NoOwner = NoOwner
  NoSession = NoSession
  Sessions = {s1, s2}
  Requests = {r1, r2}
  Life = 1
  MaxAhead = 0
  MaxBlock = 2
  MaxClock = 2
INVARIANTS
  GrantIsCurrent
PROPERTIES
  RevokedStaysOut
  OwnerGetsIn
CHECK_DEADLOCK FALSE
