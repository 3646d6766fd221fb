CONSTANTS
  Callers = {c1, c2, c3}
  MaxAttempts = 2
  None = None
SPECIFICATION FairSpec
CHECK_DEADLOCK FALSE
INVARIANT RefCountIsHolders
INVARIANT OneDownload
INVARIANT CancelledLeaderCostsOneAttempt
PROPERTY CallsReturn
