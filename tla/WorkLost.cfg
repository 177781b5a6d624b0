\* One take after the late retry, and the turn is nowhere.
SPECIFICATION Spec
CONSTANTS
  NoDevice = nobody
  TTL = 1
  Devices = {a, b}
  Origin = a
  Main = main
  Branches = {x, y}
  MaxTurns = 3
  MaxFaults = 1
INVARIANTS NoWorkLost
\* The bounds run out and every window is closed.
VIEW Fenceless
CHECK_DEADLOCK FALSE
