-------------------------- MODULE RedisTokenBucket --------------------------
(***************************************************************************)
(* app/algorithms/redis_token_bucket.py: tokens and the time of the last   *)
(* refill in a hash.  A missing hash is a full bucket.                     *)
(***************************************************************************)
EXTENDS RedisBucket

VARIABLES
    tokens,        \* field tokens, in parts
    last_refill    \* field last_refill

vars == <<now, limit, window, log, reply, rate, expires, cached, tokens, last_refill, ttl>>

Stored == IF Gone THEN limit * Unit ELSE tokens
LastRefill == IF Gone THEN now ELSE last_refill

\* The refill is skipped when no time has passed, the cap with it
Refilled ==
    LET sum == Stored + (now - LastRefill) * rate
    IN  IF now = LastRefill \/ sum < limit * Unit THEN sum ELSE limit * Unit

TypeOK ==
    /\ CommonTypeOK /\ KeysTypeOK
    /\ rate \in Rates
    /\ tokens \in 0..(MaxLimit * Unit)
    /\ last_refill \in Nat
    /\ ttl \in TTLs

Init ==
    /\ RedisBucketInit
    /\ tokens = 0 /\ last_refill = 0

HasToken(n) == n >= Unit

\* ceil((1 - tokens) / refill_rate) in the script, int() of it without one
SecondsUp(n) == IF HasToken(n) THEN 0 ELSE (Unit - n + rate * SEC - 1) \div (rate * SEC)
SecondsDown(n) == IF HasToken(n) THEN 0 ELSE (Unit - n) \div (rate * SEC)

AllowRequest ==
    LET ok == HasToken(Refilled)
        left == IF ok THEN Refilled - Unit ELSE Refilled
    IN  /\ tokens' = left
        /\ last_refill' = now
        /\ expires' = now + ttl
        /\ Decide(ok, left \div Unit, SecondsUp(left))
        /\ UNCHANGED <<now, limit, window, rate, ttl>>

\* HMGET and HGET: the stored tokens, without a refill
ReadFresh ==
    /\ AnswerFresh(Stored \div Unit, SecondsDown(Stored))
    /\ UNCHANGED <<expires, rate, ttl>>

Next ==
    \/ AllowRequest
    \/ (ReadFresh \/ OutsideScripts) /\ UNCHANGED <<tokens, last_refill>>

Spec == Init /\ [][Next]_vars

----------------------------------------------------------------------------
\* At most a full bucket and the fastest way to fill it again: by refill, or
\* by the expiry of the hash
AdmissionsBounded ==
    \A i, k \in 1..Len(log) :
        i <= k => (k - i + 1) * Unit <= MaxLimit * Unit + FullRate * (log[k] - log[i])

\* What the bucket would hold at time t had the hash not expired
UnexpiredAt(t) ==
    LET sum == tokens + (t - last_refill) * rate
    IN  IF sum < limit * Unit THEN sum ELSE limit * Unit

\* Would a request at time t be admitted, were nothing to happen until then?
AdmitsAt(t) == t >= expires \/ HasToken(UnexpiredAt(t))
=============================================================================
