\* Two agents over one plan; batches; rows archived and deleted under running work.
SPECIFICATION PlanSpec
CONSTANTS
  Ids = {a, b}
  Root = root
  Agents = {w, v}
  Serial = {}
  Conflict <- SerialPairs
  None = none
  Runtime = runtime
  MaxEdges = 1
  MaxBatch = 2
  FreshIds = TRUE
  EdgeKinds = {"hard"}
  Pausable = {a, b}
  Removable = {a, b, root}
  Exacting = {}
  Results = {TRUE}
SYMMETRY Symmetric
INVARIANTS TypeOK Loadable ParkedNotFinished
PROPERTIES EndingsStand ClaimNotStolen HeldClosesByItsWorker
\* A plan may come to rest: ended, or deleted.
CHECK_DEADLOCK FALSE
