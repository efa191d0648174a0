SPECIFICATION Spec
CONSTANTS
  Mine <- TwoMine
  Others <- OneOther
  Capacity = 1
  PageSize = 1
  MaxReplays = 1
  MaxPages = 1
  MaxBreaks = 1
INVARIANTS
  OnlyKnownGaps
PROPERTIES
  Shown
CHECK_DEADLOCK FALSE
