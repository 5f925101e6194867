SPECIFICATION FairSpec
CONSTANTS
  r1 = r1
  r2 = r2
  Tasks <- TwoRuns
  Detached <- Second
  Sandboxed = {}
  Resuming <- Second
  Cap = 2
  Deadline = TRUE
  Cancellable <- First
  Impatient = {}
  StoreFails = FALSE
  MayShutDown = TRUE
PROPERTIES ShutdownProceeds NoSlotPinned CancelledRunReturns
CHECK_DEADLOCK FALSE
