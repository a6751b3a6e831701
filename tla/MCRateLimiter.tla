--------------------------- MODULE MCRateLimiter ---------------------------
(***************************************************************************)
(* Instances of the facade: policies that differ in limit and window, and  *)
(* one limiter object more than the map and the threads can hold.          *)
(***************************************************************************)
EXTENDS RateLimiter, TLC

CONSTANTS t1, t2, k1, k2, k3

TwoConfigs == {<<1, 60>>, <<2, 90>>}
FiveObjects == {"o1", "o2", "o3", "o4", "o5"}

\* Keys and threads are interchangeable: nothing orders them
Interchangeable == Permutations({k1, k2, k3}) \cup Permutations({t1, t2})
=============================================================================
