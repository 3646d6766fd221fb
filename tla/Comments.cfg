CONSTANTS
  MaxLength = 700
  Identifier = 4
  Footer = 40
  AppHeader = 45
  Settings <- MCSettings
  Earlier <- MCEarlier
  MaxRetries = 3
  MaxCopies = 2
SPECIFICATION FairSpec
CHECK_DEADLOCK FALSE
INVARIANT CommentsRender
INVARIANT NothingLost
INVARIANT TidiesReports
INVARIANT ReviewOnce
PROPERTY Delivered
PROPERTY RunEnds
