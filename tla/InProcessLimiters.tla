------------------------- MODULE InProcessLimiters -------------------------
(***************************************************************************)
(* create_rate_limiter of app/algorithms/factory.py without a storage: a   *)
(* deployment runs one of the four in-process algorithms, chosen at        *)
(* startup.  The state of the other three does not exist: it stays as it   *)
(* is initially, and no property looks at it.                              *)
(***************************************************************************)
EXTENDS SlidingWindow, FixedWindow, TokenBucket, LeakyBucket

CONSTANT Algorithms  \* values of RATE_LIMIT_ALGORITHM

VARIABLE algorithm   \* RATE_LIMIT_ALGORITHM

vars == <<now, limit, window, log, reply, rate, requests, request_count, window_start,
          tokens, last_refill_time, queue, last_leak_time, algorithm>>

Is(name) == algorithm = name

TypeOK ==
    /\ algorithm \in Algorithms
    /\ SlidingTypeOK /\ FixedTypeOK /\ TokenTypeOK /\ LeakyTypeOK

Init ==
    /\ algorithm \in Algorithms
    /\ SlidingInit /\ FixedInit /\ TokenInit /\ LeakyInit

Next ==
    /\ \/ /\ Is("sliding_window") /\ SlidingNext
          /\ UNCHANGED <<rate, request_count, window_start, tokens, last_refill_time,
                         queue, last_leak_time>>
       \/ /\ Is("fixed_window") /\ FixedNext
          /\ UNCHANGED <<rate, requests, tokens, last_refill_time, queue, last_leak_time>>
       \/ /\ Is("token_bucket") /\ TokenNext
          /\ UNCHANGED <<requests, request_count, window_start, queue, last_leak_time>>
       \/ /\ Is("leaky_bucket") /\ LeakyNext
          /\ UNCHANGED <<requests, request_count, window_start, tokens, last_refill_time>>
    /\ UNCHANGED algorithm

Spec == Init /\ [][Next]_vars

----------------------------------------------------------------------------
\* No interval of the shortest window sees more admissions of the sliding window than
\* the highest limit, however policies change meanwhile.  (README: "No edge bursts".)
SlidingBounded == Is("sliding_window") => WindowBound

\* A 429 of the sliding window is never wrong: limit requests were admitted within the
\* window in force, whatever _remove_expired_requests had forgotten by then.
SlidingRejectsRightly == Is("sliding_window") => RejectedOnlyWhenSpent

\* One second after what reset_time of a full window says, the client is admitted.
SlidingResetsInTime == Is("sliding_window") => RetryAfterWithinASecond

\* No interval of the shortest window sees more admissions of the fixed window than twice
\* the highest limit.  (README: "burst at window edges can admit up to 2x limit".)
FixedBounded == Is("fixed_window") => FixedWindowBound

\* A 429 of the fixed window is never wrong, although the counter of a window that is over
\* is reset by the next call only, after reads and policy changes.
FixedRejectsRightly == Is("fixed_window") => FixedRejectedOnlyWhenSpent

\* One second after what reset_time of the fixed window says, the client is admitted, also
\* after the limit was cut below what is counted.
FixedResetsInTime == Is("fixed_window") => FixedRetryAfterWithinASecond

\* Between any two admissions the token bucket lets no more pass than one full bucket and
\* the fastest refill, also while a call sees half of a _retune.  (README: "Bursts up to
\* capacity pass instantly, then sustained refill pacing applies".)
TokenBounded == Is("token_bucket") => BurstBound

\* The token bucket loses no token: it rejects only who would be over the strictest bucket
\* and its refill, however often it was looked at.
TokenRejectsRightly == Is("token_bucket") => TokenRejectedOnlyWhenSpent

\* One second after what reset_time of the token bucket says, there is a token.
TokenResetsInTime == Is("token_bucket") => TokenRetryAfterWithinASecond

\* Between any two admissions the leaky bucket lets no more pass than a full queue, the
\* fastest drain and what one truncated drain may have pending.
LeakyBounded == Is("leaky_bucket") => LeakyBurstBound

\* What _leak throws away when it truncates is bounded by half of the drain: only who is
\* over what a queue draining at half the rate would hold is rejected.
LeakyRejectsRightly == Is("leaky_bucket") => RejectedOnlyAboveHalfRate

\* One second after what reset_time of the leaky bucket says, there is a slot, also after
\* the capacity was cut below the length of the queue.
LeakyResetsInTime == Is("leaky_bucket") => LeakyRetryAfterWithinASecond

(***************************************************************************)
(* token_bucket.py refills when it is called, for the time since the last  *)
(* call.  Nobody can tell it from a bucket that is refilled at every tick: *)
(* however often it is asked in between, its budget is the same, it admits *)
(* whenever there is a token, and it refuses only when there is none.  The *)
(* bounds above allow what the extremes of all policies allow; this says   *)
(* what is the case as long as one policy is in force.                     *)
(***************************************************************************)
OfToken(x) == IF Is("token_bucket") THEN x ELSE 0
TokenAnswer ==
    IF Is("token_bucket") /\ Admitted THEN "admitted"
    ELSE IF Is("token_bucket") /\ Rejected THEN "refused" ELSE "none"

Meter == INSTANCE TokenMeter
    WITH clock <- OfToken(now), capacity <- OfToken(limit), rate <- OfToken(rate),
         budget <- OfToken(Refilled(now)), answer <- TokenAnswer
ImplementsMeter == Meter!Spec
=============================================================================
