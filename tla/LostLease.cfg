SPECIFICATION MCSpec
CONSTANTS
  Node = {n1, n2}
  NoNode = NoNode
  DryRun = {}
  CooldownOn = FALSE
  Policy <- NoPolicy
  MaxLockTries = 2
  MaxFlips = 0
  MaxFaults = 1
PROPERTY CommandsUnderTheLock
