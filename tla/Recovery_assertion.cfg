SPECIFICATION Spec
CONSTANTS
  NumEngines = 2
  NodesPerEngine = 1
  Ranks = {0, 1}
  Offload = FALSE
  MaxRollouts = 2
  MaxCrashes = 1
INVARIANTS
  RecoverCounts
