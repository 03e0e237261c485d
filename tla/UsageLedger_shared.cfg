SPECIFICATION Spec
CONSTANTS
  i1 = i1
  i2 = i2
  t1 = t1
  t2 = t2
  NoUsage = NoUsage
  Invocation <- Two
  Task <- Tasks
  TaskOf <- TwoTasks
  Leased <- FirstLeased
  Limit <- Limits
  Amount <- Amounts
INVARIANTS
  AccountsAddUp
PROPERTIES
  
  ReceiptIsFinal
  ReservationsAdvance
CHECK_DEADLOCK FALSE
