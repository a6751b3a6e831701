---------------------------- MODULE MCMiddleware ----------------------------
(***************************************************************************)
(* Instances of the middleware: one path of each kind, two of them limited *)
(* (an ordinary one and an excluded one that is configured), on a map that *)
(* holds one limiter.                                                      *)
(***************************************************************************)
EXTENDS Middleware, TLC

CONSTANTS q1, q2

AllPaths == {"/api/test", "/metrics", "/docs", "/admin"}
TwoKeys == {"/api/test", "/metrics"} \X {"client"}
TwoConfigs == {<<1, 60>>, <<2, 60>>}
ThreeObjects == {"o1", "o2", "o3"}

\* Up to the identities of limiter objects, and without recency, history that no
\* property of this instance reads
Contents(o) == IF o = None THEN Blank ELSE heap[o]
View ==
    <<config, lock, backend, request, spent, cached, metricVars, charged,
      [i \in DOMAIN limiters |-> <<limiters[i].key, limiters[i].age, Contents(limiters[i].obj)>>],
      [thread[Loop] EXCEPT !.obj = <<Contents(@), @ \in {e.obj : e \in Range(limiters)}>>]>>

\* Requests are interchangeable
Interchangeable == Permutations(Requests)
=============================================================================
