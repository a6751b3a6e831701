--------------------------- MODULE RedisLimiters ---------------------------
(***************************************************************************)
(* create_rate_limiter of app/algorithms/factory.py with a Redis storage:  *)
(* a deployment runs one of the four algorithms, chosen at startup.  The   *)
(* state of the other three does not exist.                                *)
(***************************************************************************)
EXTENDS RedisBucket

CONSTANTS
    Algorithms,    \* values of RATE_LIMIT_ALGORITHM
    MaxPeriod,     \* an upper bound of the windows, in ticks
    MaxAttempts,   \* see RedisFixedWindow
    Margin         \* see RedisSlidingWindow

ASSUME RedisAssumption ==
    /\ MaxPeriod \in Nat /\ \A w \in Windows : w * SEC <= MaxPeriod
    /\ Margin \in Nat /\ MaxAttempts \in Nat

VARIABLES
    algorithm,                              \* RATE_LIMIT_ALGORITHM
    counter,                                \* fixed window
    stamps,                                 \* sliding window
    tokens, last_refill,                    \* token bucket
    queue, last_leak, leak_expires          \* leaky bucket

Fixed == INSTANCE RedisFixedWindow
Sliding == INSTANCE RedisSlidingWindow
Token == INSTANCE RedisTokenBucket
Leaky == INSTANCE RedisLeakyBucket

state == <<now, limit, window, log, reply, rate, expires, cached, counter, stamps,
           tokens, last_refill, queue, last_leak, leak_expires, ttl>>
vars == <<state, algorithm>>

Is(name) == algorithm = name

TypeOK ==
    /\ algorithm \in Algorithms
    /\ Is("fixed_window") => Fixed!TypeOK
    /\ Is("sliding_window") => Sliding!TypeOK
    /\ Is("token_bucket") => Token!TypeOK
    /\ Is("leaky_bucket") => Leaky!TypeOK

Init ==
    /\ algorithm \in Algorithms
    /\ Fixed!Init /\ Sliding!Init /\ Token!Init /\ Leaky!Init

Next ==
    /\ \/ /\ Is("fixed_window") /\ Fixed!Next
          /\ UNCHANGED <<rate, stamps, tokens, last_refill, queue, last_leak, leak_expires, ttl>>
       \/ /\ Is("sliding_window") /\ Sliding!Next
          /\ UNCHANGED <<rate, counter, tokens, last_refill, queue, last_leak, leak_expires, ttl>>
       \/ /\ Is("token_bucket") /\ Token!Next
          /\ UNCHANGED <<counter, stamps, queue, last_leak, leak_expires>>
       \/ /\ Is("leaky_bucket") /\ Leaky!Next
          /\ UNCHANGED <<counter, stamps, tokens, last_refill>>
    /\ UNCHANGED algorithm

Spec == Init /\ [][Next]_vars

----------------------------------------------------------------------------
(***************************************************************************)
(* Whatever policies are set, by whichever worker, and whenever Redis      *)
(* drops a key, no client is admitted more often than the most generous    *)
(* policy allows: one window's limit for the sliding window, two for the   *)
(* fixed one (edge bursts), a burst and the fastest refill or drain for    *)
(* the buckets, counted twice for the leaky one.  (README: "N uvicorn      *)
(* workers enforce one combined budget".)                                  *)
(***************************************************************************)
AdmissionsBounded ==
    /\ Is("fixed_window") => Fixed!AdmissionsBounded
    /\ Is("sliding_window") => Sliding!AdmissionsBounded
    /\ Is("token_bucket") => Token!AdmissionsBounded
    /\ Is("leaky_bucket") => Leaky!AdmissionsBounded

(***************************************************************************)
(* A rejection is never wrong: the sliding window rejects who has had the  *)
(* limit in force, the fixed window who has had at least the strictest     *)
(* limit within the longest window, the token bucket who would be over the *)
(* strictest burst and refill, the leaky bucket who is over what a queue   *)
(* holds that drains only one request per LeakCost: half of what drains is *)
(* lost by rounding, and where the lifetimes of two limiter objects differ *)
(* the time of the last drain may expire before the set, which loses up to *)
(* the longest lifetime for each request that drained.                     *)
(***************************************************************************)
LeakCost == 2 * Unit + MinRate * MaxPeriod

RejectedOnlyWhenSpent ==
    Rejected =>
        /\ Is("fixed_window") => Spent(MinLimit, MaxPeriod)
        /\ Is("sliding_window") => Spent(limit, Period)
        /\ Is("token_bucket") => \E i \in 1..Len(log) :
              (Len(log) - i + 2) * Unit > MinLimit * Unit + MinRate * (now - log[i])
        /\ Is("leaky_bucket") => \E i \in 1..Len(log) :
              (Len(log) - i + 1) * LeakCost + Unit
                 > MinLimit * LeakCost + MinRate * (now - log[i])

(***************************************************************************)
(* README on Retry-After: "Seconds until a request will succeed again".    *)
(* The scripts round up, so a client that was rejected and waits as told   *)
(* is admitted if nothing else happens, unless its usage was above the     *)
(* limit already when that was tightened.                                  *)
(***************************************************************************)
RetryAfterSuffices ==
    LET t == now + reply.val * SEC
    IN  Rejected =>
        /\ Is("fixed_window") => Fixed!AdmitsAt(t)
        /\ Is("sliding_window") /\ Len(stamps) = limit => Sliding!AdmitsAt(t)
        /\ Is("token_bucket") => Token!AdmitsAt(t)
        /\ Is("leaky_bucket") /\ queue = limit => Leaky!AdmitsAt(t)
=============================================================================
