SPECIFICATION FairSpec
CONSTANTS
  NumEngines = 2
  NodesPerEngine = 2
  Ranks = {0, 1}
  Offload = TRUE
  MaxRollouts = 2
  MaxCrashes = 1
INVARIANTS
  ServesCurrentWeights
  Residency
  RanksAgree
PROPERTIES
  CrashIsFound
