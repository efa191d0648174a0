SPECIFICATION Spec
CONSTANTS
  p1 = p1
  p2 = p2
  meta = meta
  item = item
  junk = junk
  None = None
  Meta = meta
  Paths <- MCOnePath
  Plain <- MCPlain
  Malformed <- MCMalformed
  WriterOps <- AppendOnly
  MaxLines = 3
  MaxInodes = 1
  MaxEdits = 0
  MaxFaults = 2
  MaxVersion = 2
INVARIANTS
  TypeOK
  CursorBacked
  RowAuthentic
  ReplayIdempotent
PROPERTIES
  CursorNeverBack
  Ingested
CHECK_DEADLOCK FALSE
