SPECIFICATION Spec
CONSTANTS
  u = u
  v = v
  th1 = th1
  th2 = th2
  NoTurn = NoTurn
  Turns <- TwoTurns
  Threads <- TwoThreads
  ThreadOf <- Apart
  EventsCap = 1
  InboxCap = 1
  PipeCap = 1
  Frames <- TwoFrames
  Abandonable <- OneTurn
  MayDie = TRUE
INVARIANTS OwnDelivery CompleteOrMarked RouteHoldsLive
CHECK_DEADLOCK FALSE
