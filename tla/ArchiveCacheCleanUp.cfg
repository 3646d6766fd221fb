CONSTANTS
  Callers = {c1, c2}
  MaxAttempts = 3
  None = None
SPECIFICATION Spec
CHECK_DEADLOCK FALSE
PROPERTY ArchiveInUseStays
