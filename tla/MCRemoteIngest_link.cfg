SPECIFICATION Spec
CONSTANTS
  None = None
  c1 = c1
  c2 = c2
  rollout = rollout
  shared = shared
  Collectors <- TwoCollectors
  Names <- OneName
  Kind <- AllCodex
  Session <- OneSession
  MaxLines <- TwoAndOne
  Revocable <- OnlySecond
  Slots = 2
  MaxAttempts = 1
  Limited = TRUE
  PausesRefill = TRUE
  BatchLimit = 1
  MaxFaults = 1
INVARIANTS
  TypeOK
  CursorOwn
  ResumeCovered
  RevokedRefused
PROPERTIES
  OriginStable
  LedgerSpec
  Delivered
CHECK_DEADLOCK FALSE
