-------------------------- MODULE RedisFixedWindow --------------------------
(***************************************************************************)
(* app/algorithms/redis_fixed_window.py: a counter that expires one window *)
(* after its first increment.  Rejected requests are counted too.          *)
(***************************************************************************)
EXTENDS RedisKeys

CONSTANT MaxAttempts   \* requests counted in one window (bound of the model)

VARIABLE counter       \* the value under the key

vars == <<now, limit, window, log, reply, expires, cached, counter>>

Count == IF Gone THEN 0 ELSE counter

TypeOK ==
    /\ CommonTypeOK /\ KeysTypeOK
    /\ counter \in 0..MaxAttempts

Init == CommonInit /\ KeysInit /\ counter = 0

\* EXPIRE only when INCR returned 1, so the deadline is never extended
DeadlineExtended == now + Period
Deadline == IF Count = 0 THEN now + Period ELSE expires

AllowRequest ==
    /\ Count < MaxAttempts
    /\ counter' = Count + 1
    /\ expires' = Deadline
    /\ Decide(Count + 1 <= limit, Left(Count + 1), CeilSeconds(Deadline - now))
    /\ UNCHANGED <<now, limit, window>>

\* READ_SCRIPT
ReadFresh ==
    /\ AnswerFresh(Left(Count), IF Gone THEN 0 ELSE CeilSeconds(expires - now))
    /\ UNCHANGED expires

Next ==
    \/ AllowRequest
    \/ /\ \/ AnswerFromCache
          \/ ReadFresh
          \/ \E l \in Limits, w \in Windows : Recreate(l, w)
          \/ /\ \/ Tick
                \/ \E l \in Limits, w \in Windows : Retune(l, w)
             /\ UNCHANGED <<expires, cached>>
       /\ UNCHANGED counter

Spec == Init /\ [][Next]_vars

----------------------------------------------------------------------------
\* At most two windows of the highest limit within the shortest window
AdmissionsBounded == Spaced(2 * MaxLimit, MinPeriod)

\* Would a request at time t be admitted, were nothing to happen until then?
AdmitsAt(t) == t >= expires \/ counter < limit
=============================================================================
