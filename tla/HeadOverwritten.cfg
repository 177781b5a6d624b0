\* A first publish whose answer is lost may be tried again too late.
SPECIFICATION Spec
CONSTANTS
  NoDevice = nobody
  TTL = 1
  Devices = {a, b}
  Origin = a
  Main = main
  Branches = {x, y}
  MaxTurns = 3
  MaxFaults = 1
PROPERTIES NothingOverwritten
\* The bounds run out and every window is closed.
VIEW Fenceless
CHECK_DEADLOCK FALSE
