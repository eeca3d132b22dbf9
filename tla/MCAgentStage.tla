----------------------------- MODULE MCAgentStage -----------------------------
(* Two rows, in one pool or in both, with one cloud worker or two.            *)
EXTENDS AgentStage

Kind(a, l, n) == [adapter |-> a, local |-> l, names |-> n]

\* Every adapter in both pools, and Vibe rows with and without a model.
MCKinds == {Kind(a, l, FALSE) : a \in Adapters, l \in BOOLEAN}
             \cup {Kind("vibe", FALSE, TRUE), Kind("vibe", TRUE, TRUE)}
\* The rows whose output is parsed.
MCParsedKinds == {Kind("codex", FALSE, FALSE), Kind("claude", FALSE, FALSE)}
=============================================================================
