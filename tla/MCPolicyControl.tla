-------------------------- MODULE MCPolicyControl --------------------------
(***************************************************************************)
(* Instances of PolicyControl: a body that creates a policy, a partial     *)
(* update that disables it, and bodies that must be refused.               *)
(***************************************************************************)
EXTENDS PolicyControl, TLC

CONSTANTS w1, w2, t1, t2

SomeBodies ==
    {[limit |-> 1, window |-> 1],
     [enabled |-> FALSE],
     [limit |-> 0, window |-> 1],
     [limit |-> 1, window |-> 1, burst |-> 1]}

Fallback == [limit |-> 5, window |-> 60]
NoStatic == << >>
StaticLimit == "/a" :> [limit |-> 2, window |-> 60]

\* Two threads of one worker
OneWorker == (t1 :> w1) @@ (t2 :> w1)
\* One thread in each of two workers
TwoWorkers == (t1 :> w1) @@ (t2 :> w2)
=============================================================================
