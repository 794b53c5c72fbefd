------------------------ MODULE MCRolloutGeneration ------------------------
(* Model checking of RolloutGeneration: the positions of a group are      *)
(* interchangeable, because no property and no step orders them.          *)
EXTENDS RolloutGeneration, TLC

SampleSymmetry == Permutations(SampleIds)
=============================================================================
