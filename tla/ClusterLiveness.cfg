SPECIFICATION MCFairSpec
CONSTANTS
  Node = {n1, n2}
  NoNode = NoNode
  DryRun = {n2}
  CooldownOn = TRUE
  Policy <- OneFallback
  MaxLockTries = 1
  MaxFlips = 1
  MaxFaults = 0
PROPERTIES
  DueNodesReboot
  RecordsFollowHealth
