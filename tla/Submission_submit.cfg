SPECIFICATION Spec
CONSTANTS
  Session = {s1, s2}
  Key = {k1, k2}
  NoTask = NoTask
  a = a
  b = b
  c = c
  GivenId = {101, 102}
  MaxId = 12
  Calls = 4
  Definition <- Definitions
  Selection <- Selections
  Library <- Libraries
SYMMETRY Symmetry
INVARIANTS
  ReceiptsHold
  GraphsAreAcyclic
  RetriesAreSound
CHECK_DEADLOCK FALSE
