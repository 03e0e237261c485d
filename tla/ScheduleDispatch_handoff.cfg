SPECIFICATION Spec
CONSTANTS
  n1 = n1
  n2 = n2
  r1 = r1
  NoCap = NoCap
  Node <- TwoNodes
  Request <- OneRequest
  Months <- HalfYear
  FirstWeekday = 4
  Ticks = 3
  Expression <- NoExpression
  Once = FALSE
  Cap = 2
  MaxTime = 1
  MaxLease = 2
SYMMETRY Symmetry
INVARIANTS
  CountInv
PROPERTIES
  DisabledStays
CHECK_DEADLOCK FALSE
