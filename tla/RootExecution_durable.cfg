SPECIFICATION Spec
CONSTANTS
  root = root
  child = child
  kept = kept
  d1 = d1
  d2 = d2
  w1 = w1
  l1 = l1
  l2 = l2
  Task <- Tree
  Root <- TreeRoot
  Frozen <- NoFrozen
  Enrolled = FALSE
  Dispatcher <- OneDispatcher
  Worker <- OneWorker
  Local <- NoProc
  MaxToken = 2
INVARIANTS
  OwnershipInv
  RecoveryIsSafe
PROPERTIES
  ImplementsSingleRun
CHECK_DEADLOCK FALSE
