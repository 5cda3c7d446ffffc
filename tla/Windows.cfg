SPECIFICATION MCSpec
CONSTANTS
  DaysPerWeek = 3
  DayLen = 3
INVARIANTS
  DecisionIsMeant
