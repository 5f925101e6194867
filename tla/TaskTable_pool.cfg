SPECIFICATION Spec
CONSTANTS
  t1 = t1
  t2 = t2
  t3 = t3
  t4 = t4
  s1 = s1
  s2 = s2
  Tasks <- FourTasks
  Sessions <- TwoSessions
  SessionOf <- OwnFour
  Limit = 2
  MaxTerminal = 1
  TTL = 0
  CancelQueued = TRUE
  WriteOutcomes = {TRUE, FALSE}
  MaxClock = 1
  MaxCrashes = 2
SYMMETRY SymFour
INVARIANTS TableBounded
PROPERTIES PinnedEvidenceKept
CHECK_DEADLOCK FALSE
