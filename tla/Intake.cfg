CONSTANTS
  MaxCommit = 2
  MaxRetries = 1
  MaxResolves = 1
  ListCap = 2
  MaxStarts = 2
  Settings <- MCSettings
CHECK_DEADLOCK FALSE
SPECIFICATION FairSpec
INVARIANT ArchiveIsOfCommit
INVARIANT FilesAreComplete
INVARIANT NoticeFitsFailure
INVARIANT WebhookOnce
PROPERTY RequestAnswered
