SPECIFICATION FairSpec
CONSTANTS
  root = root
  a = a
  b = b
  c = c
  NoTask = NoTask
  Task <- Tree
  Root <- TreeRoot
  Graph <- Trees
INVARIANTS
  DispatchedInOrder
  
PROPERTIES
  WalkEnds
CHECK_DEADLOCK FALSE
