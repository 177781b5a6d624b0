\* A device revoked and an identity moved while requests are under way; one device speaks the first protocol.
SPECIFICATION Spec
CONSTANTS
  d1 = d1
  d2 = d2
  s1 = s1
  s2 = s2
  s3 = s3
  NoDevice = nobody
  Devices = {d1, d2}
  Sessions = {s1, s2}
  Owner <- OwnSession
  Old = {s2}
  Ops <- GovernOps
  TTL = 1
  Window = 1
  Skew = 3
  MaxFence = 2
  MaxLive = 1
  MaxRetained = 2
  MaxClock = 2
  MaxRequests = 2
  MaxPings = 1
INVARIANTS RevokedRunsOut
PROPERTIES RevokedStays FrozenStands
CHECK_DEADLOCK FALSE
