SPECIFICATION Spec
CONSTANTS
  None = None
  Part = Part
  d1 = d1
  d2 = d2
  p1 = p1
  p2 = p2
  scan = scan
  c1 = c1
  Daemons <- TwoDaemons
  Pids <- TwoPids
  Tasks <- OneTask
  Contents <- OneContent
  MaxStarts = 3
INVARIANTS
  TypeOK
  TokenShared
  RowBacked
PROPERTIES
  BlobsStored
CHECK_DEADLOCK FALSE
