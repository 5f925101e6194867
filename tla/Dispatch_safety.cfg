SPECIFICATION Spec
CONSTANTS
  r1 = r1
  r2 = r2
  Tasks <- TwoRuns
  Detached <- Second
  Sandboxed <- First
  Resuming <- TwoRuns
  Cap = 1
  Deadline = FALSE
  Cancellable <- TwoRuns
  Impatient <- First
  StoreFails = TRUE
  MayShutDown = TRUE
INVARIANTS RunsAccounted WireMatchesTable NoOrphanAfterDrain DetachedDrained
PROPERTIES CancelWins
CHECK_DEADLOCK FALSE
