------------------------- MODULE MCEngineRecovery -------------------------
(* Model checking of EngineRecovery.  The monitor visits the engines in    *)
(* order and rank 0 is special, so no symmetry is used.                    *)
EXTENDS EngineRecovery
=============================================================================
