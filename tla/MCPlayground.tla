---------------------------- MODULE MCPlayground ----------------------------
(***************************************************************************)
(* Instances of the playground.                                            *)
(***************************************************************************)
EXTENDS Playground, TLC

CONSTANTS t1, t2, s1, s2, s3

\* One session with state in three Redis keys, the others in process
OneOnRedis ==
    [s \in {s1, s2, s3} |->
        IF s = s1 THEN <<"leaky_bucket", "redis">> ELSE <<"fixed_window", "memory">>]
AllInProcess == [s \in {s1, s2, s3} |-> <<"fixed_window", "memory">>]
FixedOnRedis == [s \in {s1} |-> <<"fixed_window", "redis">>]

\* A session that nobody can reach any more is as good as what its deletion left behind
Reachable(s) == s \in sessions \/ \E t \in Threads : s \in {thread[t].s, thread[t].own}
Visible ==
    <<sessions, lock, order, scan, thread, released, sent, doomed,
      [s \in Sessions |-> IF Reachable(s) THEN <<session[s], keys[s]>> ELSE <<session[s].made>>]>>

\* Nothing tells threads or the sessions in process apart
Interchangeable == Permutations({t1, t2}) \cup Permutations({s2, s3})
=============================================================================
