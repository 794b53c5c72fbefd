SPECIFICATION FairSpec
CONSTANTS
  NumInstances = 2
  GroupSize = 2
  BatchSize = 1
  NumProcess = 2
  NumRepeats = 2
  MaxFetches = 2
  MaxFaults = 1
  Faults <- MCFaults
CHECK_DEADLOCK FALSE
INVARIANT
  BatchesWhole
PROPERTY
  FetchEnds
