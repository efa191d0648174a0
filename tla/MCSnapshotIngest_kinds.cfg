SPECIFICATION Spec
CONSTANTS
  None = None
  Empty = Empty
  a = a
  b = b
  t1 = t1
  t2 = t2
  titled = titled
  retitled = retitled
  Kinds <- AllKinds
  Texts <- TwoTexts
  NewFirst <- OnlyB
  Undated <- OnlyB
  Abouts <- TwoTitles
  Threads <- TwoThreads
  Gaps = FALSE
  MaxItems = 2
  MaxWrites = 3
  MaxVersion = 2
  MaxFaults = 1
INVARIANTS
  SkipSound
  OneEvent
PROPERTIES
  Imported
  LedgerSpec
CHECK_DEADLOCK FALSE
