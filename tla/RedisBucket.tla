---------------------------- MODULE RedisBucket ----------------------------
(***************************************************************************)
(* What the two Redis buckets share: the lifetime of their keys, which is  *)
(* computed when the limiter object is made, from the policy of that       *)
(* moment, and which _retune does not change.                              *)
(***************************************************************************)
EXTENDS Bucket, RedisKeys

CONSTANTS
    Shortened,  \* policies whose int(capacity / rate) falls short, see below
    FullRate    \* the rate at which a bucket fills, by refill or by expiry

\* max(1, int(capacity / rate)): the window, or a second less where the float
\* quotient stays below it (int(3 / (3 / 59)) is 58)
TTLOf(l, w) == (IF <<l, w>> \in Shortened THEN w - 1 ELSE w) * SEC
TTLs == {TTLOf(l, w) : l \in Limits, w \in Windows}

ASSUME RedisBucketAssumption ==
    /\ \A p \in Shortened : p \in Limits \X Windows /\ p[2] > 1
    /\ FullRate \in Nat /\ MaxRate <= FullRate
    /\ \A l \in Limits, d \in TTLs : l * Unit <= FullRate * d

VARIABLE ttl  \* self.ttl of the limiter object, in ticks

RedisBucketInit == BucketInit /\ KeysInit /\ ttl = TTLOf(limit, window)

\* A new limiter object takes its lifetime from the policy of the moment
RecreateBucket(l, w) ==
    /\ Tuned
    /\ Recreate(l, w)
    /\ rate' = Rate(l, w)
    /\ ttl' = TTLOf(l, w)

\* What happens outside of the scripts
OutsideScripts ==
    \/ \E l \in Limits, w \in Windows : RecreateBucket(l, w)
    \/ /\ \/ AnswerFromCache /\ UNCHANGED rate
          \/ /\ \/ Tick /\ UNCHANGED rate
                \/ \E l \in Limits, w \in Windows : RetuneCapacity(l, w)
                \/ RetuneRate
             /\ UNCHANGED <<expires, cached>>
       /\ UNCHANGED ttl
=============================================================================
