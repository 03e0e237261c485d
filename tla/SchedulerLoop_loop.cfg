SPECIFICATION FairLoopSpec
CONSTANTS
  a = a
  b = b
  c = c
  Task <- Three
  MaxConcurrent = 1
  MaxStarts = 2
INVARIANTS
  LoopInv
PROPERTIES
  CallsTakeEffect
  LongestDueIsFired
CHECK_DEADLOCK FALSE
