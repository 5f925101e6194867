SPECIFICATION Spec
CONSTANTS
  t1 = t1
  t2 = t2
  t3 = t3
  t4 = t4
  s1 = s1
  s2 = s2
  Tasks <- ThreeTasks
  Sessions <- TwoSessions
  SessionOf <- OwnThree
  Limit = 2
  MaxTerminal = 1
  TTL = 0
  CancelQueued = TRUE
  WriteOutcomes = {TRUE}
  MaxClock = 1
  MaxCrashes = 0
PROPERTIES ReportedEndIsFinal
CHECK_DEADLOCK FALSE
