\* Two slots, limits, failing and parking workers; the process dies anywhere and another takes the plan up.
SPECIFICATION FairRunSpec
CONSTANTS
  Ids = {a, b}
  Root = root
  Agents = {a, b}
  Conflict <- NoConflict
  None = none
  Runtime = runtime
  MaxEdges = 1
  MaxBatch = 1
  FreshIds = TRUE
  EdgeKinds = {"hard", "suggests"}
  Pausable = {}
  Removable = {}
  Exacting = {b}
  Results = {TRUE}
  Slots = 2
  MaxWakes = 1
  ReviewRound = FALSE
  Planned = {a, b}
  DepKinds = {"free", "suggests"}
  World = {"park", "crash", "error", "limit"}
  Cancellable = {}
INVARIANTS NoWorkerOutlivesRun LimitEndsWork DoneMeansDone
PROPERTIES ParentsIntegrate TakenOverRunEnds
