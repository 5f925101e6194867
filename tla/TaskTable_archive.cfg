SPECIFICATION Spec
CONSTANTS
  t1 = t1
  t2 = t2
  t3 = t3
  t4 = t4
  s1 = s1
  s2 = s2
  Tasks <- ThreeTasks
  Sessions <- TwoSessions
  SessionOf <- OwnThree
  Limit = 2
  MaxTerminal = 1
  TTL = 1
  CancelQueued = FALSE
  WriteOutcomes = {TRUE, FALSE}
  MaxClock = 3
  MaxCrashes = 1
INVARIANTS MemoryMatchesDisk NoPhantomLiveTask
PROPERTIES ReportedEndIsFinal ImplementsLifecycle
CHECK_DEADLOCK FALSE
