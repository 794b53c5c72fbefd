--------------------------- MODULE MCRolloutBuffer ---------------------------
(* RolloutBuffer for TLC. *)
EXTENDS RolloutBuffer

\* What the system is to survive.
MCFaults == {"blank", "crash", "post", "poll_reply"}
=============================================================================
