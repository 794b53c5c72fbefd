SPECIFICATION FairSpec
CONSTANTS
  DatasetSize = 3
  TargetDataSize = 2
  OverSamplingBatchSize = 2
  Concurrency = 1
  MaxResponseLen = 1
  PartialRollout = FALSE
  MaskOffpolicy = FALSE
  GroupRm = TRUE
  MaxRollouts = 2
  MaxFiltered = 1
  SampleIds = {s1}
  s1 = s1
INVARIANTS
  Accounting
  QuietBetweenRollouts
PROPERTIES
  KeepsContract
  RolloutEnds
