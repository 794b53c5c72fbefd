SPECIFICATION Spec
CONSTANTS
  Rollouts <- ShortRollouts
  GaeChunk = 2
  Kl <- MCKl
  Value <- MCValue
INVARIANTS
  AdvantagesAligned
