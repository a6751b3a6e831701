------------------------- MODULE RedisSlidingWindow -------------------------
(***************************************************************************)
(* app/algorithms/redis_sliding_window.py: a sorted set of admission       *)
(* times.  Members carry a sequence number whose key always expires with   *)
(* the set, so two admissions at the same instant are two members.         *)
(***************************************************************************)
EXTENDS RedisKeys

CONSTANT Margin   \* the 5 seconds the set outlives the window, in ticks

VARIABLE stamps   \* the scores of the sorted set, in order

vars == <<now, limit, window, log, reply, expires, cached, stamps>>

\* ZREMRANGEBYSCORE key 0 now-window at time t removes the first j members
ExpiredTooMany(j, t) ==
    /\ \A i \in 1..j : stamps[i] <= t - Period + 1
    /\ j < Len(stamps) => stamps[j + 1] > t - Period + 1
Expired(j, t) ==
    /\ \A i \in 1..j : stamps[i] <= t - Period
    /\ j < Len(stamps) => stamps[j + 1] > t - Period

\* The set that is left
LiveAt(t) ==
    IF t >= expires THEN <<>>
    ELSE SubSeq(stamps, 1 + CHOOSE j \in 0..Len(stamps) : Expired(j, t), Len(stamps))

TypeOK ==
    /\ CommonTypeOK /\ KeysTypeOK
    /\ stamps \in Seq(Nat)

Init == CommonInit /\ KeysInit /\ stamps = <<>>

HasRoom(n) == n < limit

\* reset_in of both scripts: from the oldest member, at least a second
SecondsLeft(s) ==
    IF HasRoom(Len(s)) THEN 0
    ELSE LET r == CeilSeconds(s[1] + Period - now) IN IF r < 1 THEN 1 ELSE r

AllowRequest ==
    LET live == LiveAt(now)
        ok == HasRoom(Len(live))
    IN  /\ stamps' = IF ok THEN Append(live, now) ELSE live
        /\ expires' = now + Period + Margin
        /\ Decide(ok, Left(IF ok THEN Len(live) + 1 ELSE Len(live)), SecondsLeft(live))
        /\ UNCHANGED <<now, limit, window>>

\* READ_SCRIPT prunes as well, and does not touch the deadline
ReadFresh ==
    /\ AnswerFresh(Left(Len(LiveAt(now))), SecondsLeft(LiveAt(now)))
    /\ stamps' = LiveAt(now)
    /\ UNCHANGED expires

Next ==
    \/ AllowRequest
    \/ ReadFresh
    \/ /\ \/ AnswerFromCache
          \/ \E l \in Limits, w \in Windows : Recreate(l, w)
          \/ /\ \/ Tick
                \/ \E l \in Limits, w \in Windows : Retune(l, w)
             /\ UNCHANGED <<expires, cached>>
       /\ UNCHANGED stamps

Spec == Init /\ [][Next]_vars

----------------------------------------------------------------------------
\* At most the highest limit within the shortest window
AdmissionsBounded == Spaced(MaxLimit, MinPeriod)

\* Would a request at time t be admitted, were nothing to happen until then?
AdmitsAt(t) == HasRoom(Len(LiveAt(t)))
=============================================================================
