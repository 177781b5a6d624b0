\* Two devices take, renew and release one cell through late and repeated requests.
SPECIFICATION Spec
CONSTANTS
  d1 = d1
  d2 = d2
  s1 = s1
  s2 = s2
  s3 = s3
  NoDevice = nobody
  Devices = {d1, d2}
  Sessions = {s1, s2, s3}
  Owner <- TwoOnOne
  Old = {}
  Ops <- LeaseOps
  TTL = 1
  Window = 1
  Skew = 3
  MaxFence = 3
  MaxLive = 3
  MaxRetained = 3
  MaxClock = 2
  MaxRequests = 2
  MaxPings = 0
INVARIANTS DirectoryTypeOK AnswersAgree
PROPERTIES FencedCellSpec
CHECK_DEADLOCK FALSE
