SPECIFICATION Spec
CONSTANTS
  None = None
  c1 = c1
  c2 = c2
  rollout = rollout
  shared = shared
  Collectors <- OneCollector
  Names <- OneName
  Kind <- AllSnapshots
  Session <- OneSession
  MaxLines <- TwoLines
  Revocable <- Nobody
  Slots = 2
  MaxAttempts = 1
  Limited = TRUE
  PausesRefill = TRUE
  BatchLimit = 2
  MaxFaults = 0
PROPERTIES
  Delivered
CHECK_DEADLOCK FALSE
