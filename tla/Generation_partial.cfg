SPECIFICATION Spec
CONSTANTS
  DatasetSize = 3
  TargetDataSize = 1
  OverSamplingBatchSize = 2
  Concurrency = 2
  MaxResponseLen = 1
  PartialRollout = TRUE
  MaskOffpolicy = TRUE
  GroupRm = TRUE
  MaxRollouts = 2
  MaxFiltered = 0
  SampleIds = {s1, s2}
  s1 = s1
  s2 = s2
SYMMETRY SampleSymmetry
INVARIANTS
  DataFinal
  UnfinishedRecycled
