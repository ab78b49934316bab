--------------------------- MODULE MCScraperNode ---------------------------
(* ScraperNode for TLC: two jobs on one domain with one slot, a proxy list *)
(* with an entry Playwright cannot take, a sweep at every second release.  *)
EXTENDS ScraperNode, TLC

CONSTANTS j1, j2, d1

TwoProxies == <<"plain", "odd">>
Page(status, challenge) == [status |-> status, challenge |-> challenge, body |-> TRUE]
Pages == {Page(200, FALSE), Page(200, TRUE)}
AnyJob == Permutations(Jobs)
============================================================================
