CONSTANTS
  Checks = {"c1", "c2"}
  Loc = "loc"
  Urls <- MCUrls
  Branches <- MCBranches
  DefaultBranch = "main"
  Wants <- MCWants
  OwnKeys <- MCOwnKeys
  LocKey <- MCLocKey
  TempDirs = {t1, t2, t3, t4, t5, t6, t7, t8}
  Managers = {TRUE, FALSE}
  MaxRestarts = 1
  MaxFaults = 1
  None = None
SPECIFICATION FairSpec
INVARIANT CachedIsOnDisk
INVARIANT OwnTreeStays
 
PROPERTY GetRepoReturns
