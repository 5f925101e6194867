SPECIFICATION FairSpec
CONSTANTS
  u = u
  v = v
  th1 = th1
  th2 = th2
  NoTurn = NoTurn
  Turns <- TwoTurns
  Threads <- TwoThreads
  ThreadOf <- Apart
  EventsCap = 1
  InboxCap = 1
  PipeCap = 1
  Frames <- ThreeFrames
  Abandonable = {}
  MayDie = TRUE
PROPERTIES CompletionReachesPump DrainTerminates
CHECK_DEADLOCK FALSE
