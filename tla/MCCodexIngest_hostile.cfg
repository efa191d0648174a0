SPECIFICATION Spec
CONSTANTS
  p1 = p1
  p2 = p2
  meta = meta
  item = item
  junk = junk
  None = None
  Meta = meta
  Paths <- MCPaths
  Plain <- MCPlain
  Malformed <- MCNoMalformed
  WriterOps <- EveryWrite
  MaxLines = 2
  MaxInodes = 2
  MaxEdits = 1
  MaxFaults = 1
  MaxVersion = 2
INVARIANTS
  BlobBacked
  EvidenceMatches
PROPERTIES
  LedgerSpec
CHECK_DEADLOCK FALSE
