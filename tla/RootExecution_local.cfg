SPECIFICATION Spec
CONSTANTS
  root = root
  child = child
  kept = kept
  d1 = d1
  d2 = d2
  w1 = w1
  l1 = l1
  l2 = l2
  Task <- RetriedTree
  Root <- TreeRoot
  Frozen <- KeptFrozen
  Enrolled = TRUE
  Dispatcher <- OneDispatcher
  Worker <- NoProc
  Local <- TwoLocals
  MaxToken = 3
SYMMETRY LocalSymmetry
INVARIANTS
  InProcessInv
  RecoveryIsSafe
PROPERTIES
  ImplementsSingleRun
CHECK_DEADLOCK FALSE
