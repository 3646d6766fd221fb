CONSTANTS
  Repos = {r1}
  PRs = {p1}
  Commits = {c1}
  Deliveries = {d1, d2, d3}
  QueueSize = 1
  HasTimeout = FALSE
  EnsuresHooks = TRUE
  None = None
SPECIFICATION FairSpec
PROPERTY AcceptedIsSettled
PROPERTY ShutdownTerminates
