SPECIFICATION FairSpec
CONSTANTS
  DatasetSize = 2
  TargetDataSize = 1
  MaxConcurrent = 1
  QueueCapacity = 2
  FanOut = FALSE
  MaxRollouts = 2
  MaxCrashes = 1
  MaxSurplus = 2
INVARIANTS
  OneOwner
  NoAbortedShipped
  QueueDoesNotAge
PROPERTIES
  RolloutEnds
  KeepsContract
