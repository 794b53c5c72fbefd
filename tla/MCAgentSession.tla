--------------------------- MODULE MCAgentSession ---------------------------
(* AgentSession for TLC. *)
EXTENDS AgentSession

\* An answer of two tokens that comes back with another last token, and one of a single
\* token that comes back as it was, or not at all when the user asks something new.
MCOutputs == {<<2, "changed">>, <<1, "thinks">>}
=============================================================================
