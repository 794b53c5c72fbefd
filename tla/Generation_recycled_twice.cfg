SPECIFICATION Spec
CONSTANTS
  DatasetSize = 1
  TargetDataSize = 1
  OverSamplingBatchSize = 2
  Concurrency = 2
  MaxResponseLen = 2
  PartialRollout = TRUE
  MaskOffpolicy = TRUE
  GroupRm = FALSE
  MaxRollouts = 3
  MaxFiltered = 1
  SampleIds = {s1}
  s1 = s1
INVARIANTS
  TypeOK
  EpochCoverage
  OneOwner
  OffPolicyRecorded
  BacklogBounded
