\* Two devices, takes, lost answers, a crash.
SPECIFICATION Spec
CONSTANTS
  NoDevice = nobody
  TTL = 1
  Devices = {a, b}
  Origin = a
  Main = main
  Branches = {x, y}
  MaxTurns = 3
  MaxFaults = 1
INVARIANTS HandoffTypeOK WorkIsKept HeadsAreStored NothingForgotten
PROPERTIES HeadsMoveUp CleanQuit
\* The bounds run out and every window is closed.
VIEW Fenceless
CHECK_DEADLOCK FALSE
