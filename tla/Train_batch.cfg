SPECIFICATION Spec
CONSTANTS
  Rollouts <- MCRollouts
  GaeChunk = 2
  Kl <- MCKl
  Value <- MCValue
INVARIANTS
  ScheduleSound
  LogProbsAligned
  TokensOnce
  GroupsWeighEqually
  AdvantagesAligned
  WhiteningJoined
