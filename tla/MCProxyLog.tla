----------------------------- MODULE MCProxyLog -----------------------------
(* Three requests over two stages; the requests are interchangeable.         *)
EXTENDS ProxyLog, TLC
CONSTANTS r1, r2, r3
MCRequests == {r1, r2, r3}
MCSymmetry == Permutations(MCRequests)
=============================================================================
