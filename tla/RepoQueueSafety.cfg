CONSTANTS
  Repos = {r1}
  PRs = {p1, p2}
  Commits = {c1, c2}
  Deliveries = {d1, d2, d3}
  QueueSize = 2
  HasTimeout = TRUE
  EnsuresHooks = FALSE
  None = None
SPECIFICATION Spec
SYMMETRY Symmetry
INVARIANT LiveCheckIsLatest
INVARIANT SkippedHasSuccessor
INVARIANT OneCheckPerRepo
INVARIANT CancelAllReachesChecks
INVARIANT CleanShutdownLosesNothing
PROPERTY EachPRQueue
