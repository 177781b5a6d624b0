\* Work, its review checks, fixes for what a check finds, and parents that park.
SPECIFICATION FairRunSpec
CONSTANTS
  Ids = {a, b, c, d, e, f, g}
  Root = root
  Agents = {a, b, c, d, e, f, g}
  Conflict <- NoConflict
  None = none
  Runtime = runtime
  MaxEdges = 1
  MaxBatch = 1
  FreshIds = TRUE
  EdgeKinds = {"hard", "suggests"}
  Pausable = {}
  Removable = {}
  Exacting = {c, e, g}
  Results = {TRUE}
  Slots = 0
  MaxWakes = 2
  ReviewRound = TRUE
  Planned = {a}
  DepKinds = {"free"}
  World = {"park", "finding", "stop"}
  Cancellable = {}
INVARIANTS ReviewedBeforeDone
PROPERTIES RootIntegrates  RunEnds
