-------------------------- MODULE RedisLeakyBucket --------------------------
(***************************************************************************)
(* app/algorithms/redis_leaky_bucket.py: a sorted set that is drained from *)
(* its oldest member, and the time of the last drain under a key of its    *)
(* own.  Members are never looked at, so the set is its size.  Only a      *)
(* decision extends the life of the set; reads extend that of the time.    *)
(***************************************************************************)
EXTENDS RedisBucket

VARIABLES
    queue,          \* ZCARD of the set
    last_leak,      \* the value under last_leak_key
    leak_expires    \* when last_leak_key is dropped

vars == <<now, limit, window, log, reply, rate, expires, cached, queue, last_leak, leak_expires, ttl>>

\* A missing time is set to the present: nothing has leaked
LastLeak(t) == IF t >= leak_expires THEN t ELSE last_leak
Leaked(t) == ((t - LastLeak(t)) * rate) \div Unit

\* The set after ZREMRANGEBYRANK at time t
QueueAt(t) ==
    IF t >= expires \/ queue <= Leaked(t) THEN 0 ELSE queue - Leaked(t)

LeakTime == IF Leaked(now) > 0 THEN now ELSE LastLeak(now)

TypeOK ==
    /\ CommonTypeOK /\ KeysTypeOK
    /\ rate \in Rates
    /\ queue \in 0..MaxLimit
    /\ last_leak \in Nat /\ leak_expires \in Nat
    /\ ttl \in TTLs

Init ==
    /\ RedisBucketInit
    /\ queue = 0 /\ last_leak = 0 /\ leak_expires = 0

HasSlot(n) == n < limit

\* max(1, ceil(1 / leak_rate)) when there is no slot
SecondsToSlot(n) == IF HasSlot(n) THEN 0 ELSE (Unit + rate * SEC - 1) \div (rate * SEC)

AllowRequest ==
    LET n == QueueAt(now)
        ok == HasSlot(n)
        left == IF ok THEN n + 1 ELSE n
    IN  /\ queue' = left
        /\ last_leak' = LeakTime
        /\ expires' = now + ttl
        /\ leak_expires' = now + ttl
        /\ Decide(ok, Left(left), SecondsToSlot(n))
        /\ UNCHANGED <<now, limit, window, rate, ttl>>

\* READ_SCRIPT: SET and PEXPIRE of the time when it is missing or something leaked
ReadFresh ==
    /\ AnswerFresh(Left(QueueAt(now)), SecondsToSlot(QueueAt(now)))
    /\ queue' = QueueAt(now)
    /\ last_leak' = LeakTime
    /\ leak_expires' = IF now >= leak_expires \/ Leaked(now) > 0 THEN now + ttl ELSE leak_expires
    /\ UNCHANGED <<expires, rate, ttl>>

Next ==
    \/ AllowRequest
    \/ ReadFresh
    \/ OutsideScripts /\ UNCHANGED <<queue, last_leak, leak_expires>>

Spec == Init /\ [][Next]_vars

----------------------------------------------------------------------------
\* What one leak of the slowest policy may have pending when the fastest takes over
Slack == MaxRate * ((Unit + MinRate - 1) \div MinRate)

(***************************************************************************)
(* At most a full queue, what drains from it, and the pending slack.  The  *)
(* same time may drain the queue twice: the set expires with all that is   *)
(* in it, while the time of the last drain stays under its own key (a read *)
(* renewed it), and counts again when the next policy drains faster.       *)
(***************************************************************************)
AdmissionsBounded ==
    \A i, k \in 1..Len(log) :
        i <= k => (k - i + 1) * Unit
                     <= (MaxLimit * Unit + Slack) + (MaxRate + FullRate) * (log[k] - log[i])

\* Would a request at time t be admitted, were nothing to happen until then?
AdmitsAt(t) == HasSlot(QueueAt(t))
=============================================================================
