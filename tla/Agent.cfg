SPECIFICATION FairSpec
CONSTANTS
  MaxRequests = 3
  Outputs <- MCOutputs
  MaxContext = 12
CHECK_DEADLOCK FALSE
INVARIANTS
  SegmentsFaithful
  DrainedWhole
  OneConversation
PROPERTY
  FinishReturns
