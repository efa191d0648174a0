SPECIFICATION Spec
CONSTANTS
  None = None
  s1 = s1
  s2 = s2
  s3 = s3
  g1 = g1
  g2 = g2
  g3 = g3
  gu = gu
  r1 = r1
  r2 = r2
  Sessions <- TwoSessions
  Globals <- TwoSeeds
  Family <- MCFamily
  Seed <- MCSeed
  Requests <- OneRequest
  Operations <- Rejecting
  AsksAt = 1
  MaxEvents = 3
  MaxFaults = 0
CHECK_DEADLOCK FALSE
PROPERTIES EventuallyDecided
