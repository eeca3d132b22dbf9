--------------------------- MODULE MCLocalRuntime ---------------------------
(* Suites of local rows: managed and external, one and two endpoints.        *)
EXTENDS LocalRuntime

Local(n, ad, m, a, i, u, man, s) ==
  [name |-> n, adapter |-> ad, model |-> m, managed |-> man, alias |-> a, instance |-> i,
   served |-> s, url |-> u]
Managed(n, ad, a, i, u)  == Local(n, ad, "m", a, i, u, TRUE, "qwen")
External(n, ad, m, s, u) == Local(n, ad, m, "", "", u, FALSE, s)

\* Two models on the first port, one on the second, two rows with one profile, a
\* managed row without an alias, two gateways with one profile, one of them down,
\* a row that names an unset variable, a Codex row whose model is a variable, an
\* adapter that does not go through the proxy, an external row with the profile of a
\* managed one, and two rows with one name; a server of the user is
\* in the place of the suite's.
Pool == {Managed("m1", "codex", "a", "", "8080"), Managed("m2", "opencode", "a", "local", "8080"),
         Managed("m3", "codex", "b", "local", "8080"), Managed("m4", "opencode", "b", "fast", "8081"),
         Managed("m5", "claude", "", "", "8080"), External("e1", "opencode", "$M", "ext", "9000"),
         External("e2", "codex", "m", "ext", "9001"), External("e3", "opencode", "m", "$", "9000"),
         External("e4", "codex", "$M", "ext", "9000"),
         [Managed("e5", "codex", "a", "", "8080") EXCEPT !.managed = FALSE],
         [Managed("m1", "codex", "a", "", "8080") EXCEPT !.adapter = "opencode"]}

\* Every suite of one or two of these rows in every order, and of three of those that
\* switch forth and back between servers.
Distinct(n, P) == {s \in [1..n -> P] : \A i, j \in DOMAIN s : s[i] = s[j] => i = j}
Switching     == {r \in Pool : r.name \in {"m1", "m3", "m4", "e2"}}
MCPoolSuites  == Distinct(1, Pool) \cup Distinct(2, Pool) \cup Distinct(3, Switching)
MCPoolUser == [u \in {"8080", "9000", "9001"} |-> IF u = "8080" THEN "qwen" ELSE "ext"]
=============================================================================
