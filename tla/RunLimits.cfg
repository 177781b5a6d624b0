\* Limits, the wall, a stop, cancels and a delete of the plan; one slot, and a parent that splits again after its wake.
SPECIFICATION RunSpec
CONSTANTS
  Ids = {a, b, c}
  Root = root
  Agents = {a, b, c}
  Conflict <- NoConflict
  None = none
  Runtime = runtime
  MaxEdges = 1
  MaxBatch = 1
  FreshIds = TRUE
  EdgeKinds = {"hard", "suggests"}
  Pausable = {}
  Removable = {root}
  Exacting = {}
  Results = {TRUE}
  Slots = 1
  MaxWakes = 1
  ReviewRound = FALSE
  Planned = {a, b, c}
  DepKinds = {"free", "hard"}
  World = {"limit", "cancelled", "deadline"}
  Cancellable = {a, b, c}
SYMMETRY Alike
INVARIANTS RunTypeOK EndingWritten
