\* Three tasks, hard dependencies: every shape of graph they can make.
SPECIFICATION PlanSpec
CONSTANTS
  Ids = {a, b, c}
  Root = root
  Agents = {w}
  Serial = {}
  Conflict <- SerialPairs
  None = none
  Runtime = runtime
  MaxEdges = 1
  MaxBatch = 1
  FreshIds = TRUE
  EdgeKinds = {"hard"}
  Pausable = {}
  Removable = {}
  Exacting = {}
  Results = {TRUE}
SYMMETRY Symmetric
INVARIANTS Loadable ReadyMeansDepsDone
PROPERTIES NothingOpensUnderDone
\* A plan may come to rest: ended, or deleted.
CHECK_DEADLOCK FALSE
