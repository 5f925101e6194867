SPECIFICATION FairSpec
CONSTANTS
  b1 = b1
  b2 = b2
  b3 = b3
  c1 = c1
  c2 = c2
  None = None
  Dead = Dead
  Legacy = Legacy
  Brokers <- TwoBrokers
  Clients <- OneClient
  MaxFaults = 1
INVARIANTS PIDFileSound FilesOutlivedOnlyByCrash
PROPERTIES IdleCutsOnlyLateTasks QuietBrokerLeaves
CHECK_DEADLOCK FALSE
