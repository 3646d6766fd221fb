CONSTANTS
  MaxCommit = 3
  Settings <- MCSettings
CHECK_DEADLOCK FALSE
SPECIFICATION FairSpec
INVARIANT OnlyHeadReported
PROPERTY NewerReportSurvives
PROPERTY SupersededIsSilent
PROPERTY HeadIsSettled
