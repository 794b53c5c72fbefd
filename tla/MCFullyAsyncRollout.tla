------------------------ MODULE MCFullyAsyncRollout ------------------------
(* Model checking of FullyAsyncRollout.  The order of group ids decides     *)
(* what a rollout keeps, so no symmetry is used.                           *)
EXTENDS FullyAsyncRollout
=============================================================================
