SPECIFICATION Spec
CONSTANTS
  Limit = 64
  Second = 5
  MinSec = 2
  MaxSec = 12
  ErrorMin = 1
  ErrorMax = 3
  Command = {"run", "dry-run", "once", "status", "skip-lock"}
  CooldownOn = TRUE
  MaxLockTries = 5
  ExitCodes = {}
  StartLimitBurst = 2
  MaxFailures = 3
INVARIANTS
  TypeOK
  OneScriptAtATime
  ExitKeepsNoLease
  OnlyReadyPassesEndTheDaemon
  TrialsLeaveNoTrace
  ErrorDelaysDouble
  LockWaitsStayInBounds
  VerdictsAreComplete
PROPERTIES
  StopEndsTheProcess
  LockIsGivenUp
