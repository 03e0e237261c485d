SPECIFICATION FairCallsSpec
CONSTANTS
  c1 = c1
  c2 = c2
  Call <- Two
  MaxAttempts <- Attempts
  Strategy <- Exponential
  Policy <- Downgrading
  Budget <- Budgets
  Resumable <- Resuming
  Faults <- Faulty
  Cancellable <- Resuming
  ChainLength = 2
  Threshold = 2
  HalfOpenMax = 1
  BackoffBase = 4
  BackoffMax = 4
  MaxProgress = 2
  MaxDispatches <- Dispatches
INVARIANTS
  CallsInv
  RetriesAreSafe
PROPERTIES
  ClosedByItsProbe
  CheckpointsAdvance
  NothingIsStuck
CHECK_DEADLOCK FALSE
