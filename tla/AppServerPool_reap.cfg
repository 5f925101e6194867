SPECIFICATION FairSpec
CONSTANTS
  r1 = r1
  r2 = r2
  i1 = i1
  i2 = i2
  None = None
  Reader = Reader
  Runs <- TwoRuns
  Instances <- TwoInstances
  Impatient <- First
  Resuming <- Second
  Asking <- OneInstance
  ModeOf <- Modes
  Answers <- SomeAnswers
  MayShutDown = TRUE
INVARIANTS InstancesSound RecycleNeverSevers TurnsConfined
PROPERTIES CallsEndWithChild DetachedReaped
CHECK_DEADLOCK FALSE
