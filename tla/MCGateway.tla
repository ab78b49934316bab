------------------------------- MODULE MCGateway -------------------------------
\* Two processes, two requests in flight, one key and one address that mints it.
EXTENDS Gateway, TLC

CONSTANTS n1, n2, r1, r2, k1, ip

LimitDef == (k1 :> 1) @@ (ip :> 1)
Symmetric == Permutations({n1, n2}) \cup Permutations({r1, r2})
============================================================================
