SPECIFICATION StreamFairSpec
CONSTANTS
  RingSize = 2
  MaxEvents = 3
  Sizes <- SomeSizes
  SmallSize = 1
  MaxMessageSize = 10
  ChunkPayload = 8
  Envelope = 1
  Digits <- SomeDigits
  PipeCap = 2
  MaxFaults = 1
INVARIANTS ReplayExact StreamFaithful ChunksAgree
PROPERTIES CallEnds
CHECK_DEADLOCK FALSE
