CONSTANTS
  MaxId = 3
  MaxTime = 2
  Limit = {1, 2}
  None = None
SPECIFICATION Spec
INVARIANTS
  PagesFit
  StatsAgree
