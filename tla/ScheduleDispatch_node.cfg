SPECIFICATION FairSpec
CONSTANTS
  n1 = n1
  n2 = n2
  r1 = r1
  NoCap = NoCap
  Node <- OneNode
  Request <- NoRequest
  Months <- HalfYear
  FirstWeekday = 4
  Ticks = 3
  Expression <- Expressions
  Once = FALSE
  Cap = 2
  MaxTime = 3
  MaxLease = 3
INVARIANTS
  SlotsAreOccurrences
PROPERTIES
  OccurrencesRun
  ScheduleAdvances
CHECK_DEADLOCK FALSE
