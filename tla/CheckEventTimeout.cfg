CONSTANTS
  MaxCommit = 1
  Settings <- MCTimeout
CHECK_DEADLOCK FALSE
SPECIFICATION Spec
INVARIANT HeadNotPending
