\* The closed forms against the loops of the code.
SPECIFICATION LoopSpec
CONSTANTS
  Ids = {a, b, c}
  Root = root
  Agents = {w}
  Serial = {a, b}
  Conflict <- SerialPairs
  None = none
  Runtime = runtime
  MaxEdges = 1
  MaxBatch = 1
  FreshIds = TRUE
  EdgeKinds = {"hard"}
  Pausable = {a, b, c}
  Removable = {}
  Exacting = {}
  Results = {TRUE}
SYMMETRY Symmetric
INVARIANTS ClosedFormsAreTheLoops ConflictsKeptApart
\* A plan may come to rest: ended, or deleted.
CHECK_DEADLOCK FALSE
