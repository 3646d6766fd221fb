CONSTANTS
  Apps <- MCApps
  Names <- MCNames
  NameOf <- MCNameOf
  Affected <- MCAffected
  Effects <- MCEffects
  OtherChecks = {}
  StickyNames = {"d"}
  MaxConcurrentChecks = 1
  MaxQueueSize = 1
  AIReviewMax = 0
  Panics = FALSE
  None = None
SPECIFICATION FairSpec
CHECK_DEADLOCK FALSE
PROPERTY CheckEnds
