SPECIFICATION Spec
CONSTANTS
  None = None
  s1 = s1
  s2 = s2
  post = post
  h1 = h1
  h2 = h2
  id1 = id1
  Sessions <- TwoSessions
  FieldOf <- TwoFields
  Suggestions <- NoSuggestion
  Outranked <- OnlyS2
  Requests <- OneRequest
  Hosts <- TwoHosts
  Ids <- OneId
  Budget = 1
  MaxEvents = 2
  MaxActs = 2
INVARIANTS
  RemovedStayOut
  ProvenanceCounted
  RecordHonest

  
CHECK_DEADLOCK FALSE
