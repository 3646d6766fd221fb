CONSTANTS
  a1 = a1
  a2 = a2
  b1 = b1
  AppKeys <- MCAppKeys
  AppNameOf <- MCAppNameOf
  AppSpecs <- MCAppSpecs
  SetNames = {"s", "t"}
  SetSpecs <- MCSetSpecs
  GitRepos = {"r1", "r2"}
  PRs <- MCPRs
  OtherFiles <- MCOtherFiles
  AppsOfSet <- MCAppsOfSet
  SegmentSuffixes <- MCSegmentPairs
  SegmentPrefixes = {}
  MaxEvents = 3
  None = None
SPECIFICATION Spec
SYMMETRY Namespaces
CHECK_DEADLOCK FALSE
INVARIANT MatchComplete
INVARIANT MatchPrecise
INVARIANT GeneratedIsQueued
INVARIANT ListMatchesFindings
INVARIANT DirectoryMatchesCluster
