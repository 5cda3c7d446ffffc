SPECIFICATION Spec
CONSTANTS
  Limit = 64
  Second = 5
  MinSec = 2
  MaxSec = 12
  ErrorMin = 1
  ErrorMax = 3
  Command = {"run"}
  CooldownOn = TRUE
  MaxLockTries = 1
  ExitCodes = {}
  StartLimitBurst = 2
  MaxFailures = 3
PROPERTIES
  HealthScriptsEnd
