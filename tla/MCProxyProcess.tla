--------------------------- MODULE MCProxyProcess ---------------------------
(* Two models, two attempts, three proxies at a time, over any number of suite runs.      *)
EXTENDS ProxyProcess
=============================================================================
