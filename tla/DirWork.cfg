\* Two assignments of one cell, a worker whose process is replaced, claims retried.
SPECIFICATION Spec
CONSTANTS
  NoDevice = nobody
  Workers = {w1}
  Person = person
  Assigns = {a, b}
  NoAssign = none
  TTL = 1
  Window = 1
  CertUntil = 9
  Leaving = {w1}
  Restarting = {w1}
  MaxFence = 3
  MaxClock = 2
  MaxIncarnation = 2
  MaxRevision = 2
  MaxBeats = 1
  MaxVersions = 2
  MaxTries = 2
SYMMETRY Symmetric
INVARIANTS WorkTypeOK OneOpenAttempt ClaimOnce SavedClaimIsCurrent FinishedUnderItsClaim
PROPERTIES FencedByProcess
CHECK_DEADLOCK FALSE
