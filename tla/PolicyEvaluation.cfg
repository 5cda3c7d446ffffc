SPECIFICATION Spec
CONSTANTS
  Node = {n1, n2, n3}
  Percents = {0, 34, 50, 67, 100}
  MaxAbsolute = 4
INVARIANTS
  CountsAgreeWithSets
PROPERTIES
  HealthyReportsNeverBlock
