SPECIFICATION Spec
CONSTANTS
  None = None
  Malformed = Malformed
  HOME = HOME
  BASE = BASE
  Variables <- TwoVariables
  Holds <- Texts
  Bases <- ThreeBases
  Options <- Edited
  FileStates <- AllFiles
  MaxSettings = 4
INVARIANTS
  ConsentGiven
  Blamed
  Shadowed
