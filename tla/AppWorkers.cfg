CONSTANTS
  Apps <- MCApps
  Names <- MCNames
  NameOf <- MCNameOf
  Affected <- MCAffected
  Effects <- MCEffects
  OtherChecks = {}
  StickyNames = {"d"}
  MaxConcurrentChecks = 1
  MaxQueueSize = 5
  AIReviewMax = 1
  Panics = TRUE
  None = None
SPECIFICATION FairSpec
INVARIANT ReportComplete
INVARIANT ClosedAfterLastSend
INVARIANT EveryAppChecked
PROPERTY CheckEnds
