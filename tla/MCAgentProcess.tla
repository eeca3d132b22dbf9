--------------------------- MODULE MCAgentProcess ---------------------------
(* An agent with a budget of a few slices and two tools.                     *)
EXTENDS AgentProcess

MCTools == {"t1", "t2"}
=============================================================================
