SPECIFICATION FairSpec
CONSTANTS
  Engines = {e1, e2}
  e1 = e1
  e2 = e2
  Ranks = {0, 1}
  Dense <- MCDense
  Experts <- MCExperts
  Subpasses = 2
  Elements = {0, 1}
  Base <- MCBase
  Trained <- MCTrained
  ElementSize = 2
  ByteLimit = 24
  MaxShort = 1
  Settings <- MCSettings
  MaxSyncs = 2
  MaxRestarts = 1
INVARIANTS
  InSync
PROPERTIES
  SyncEnds
