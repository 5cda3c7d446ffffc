SPECIFICATION MCSpec
CONSTANTS
  Node = {n1, n2}
  NoNode = NoNode
  DryRun = {}
  CooldownOn = TRUE
  Policy <- NoPolicy
  MaxLockTries = 2
  MaxFlips = 1
  MaxFaults = 1
SYMMETRY Symmetry
INVARIANTS
  TypeOK
  LeaseHeldOnlyUnderLock
  RebootsOnFreshChecks
  LockedSectionExclusive
PROPERTIES
  OnlyTheHolderReboots
  LockIsFreed
