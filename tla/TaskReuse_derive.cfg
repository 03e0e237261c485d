SPECIFICATION Spec
CONSTANTS
  Session = {s1, s2}
  NoTask = NoTask
  MaxId = 7
  Calls = 3
  Library <- Libraries
  Request <- Requests
INVARIANTS
  ClonesAreFaithful
  ArchiveIsWhole
PROPERTIES
  ReuseStepsAreSound
CHECK_DEADLOCK FALSE
