----------------------------- MODULE RedisKeys -----------------------------
(***************************************************************************)
(* What the Redis-backed algorithms share (app/algorithms/redis_*.py): the *)
(* state of a client lives under keys that Redis drops at a deadline, and  *)
(* every decision is one Lua script that reads the server's clock once.    *)
(* Workers and their limiter objects come and go; what they share is the   *)
(* keys.  A worker that still enforces another policy is a retune before   *)
(* and after its call.                                                     *)
(*                                                                         *)
(* A limiter object remembers remaining and reset of its last decision and *)
(* answers the two read calls from there.                                  *)
(***************************************************************************)
EXTENDS Limiter

VARIABLES
    expires,   \* the server time at which the client's state key is dropped
    cached     \* <<_cached_remaining, _cached_reset>>, <<>> before a decision

Gone == now >= expires

KeysTypeOK ==
    /\ expires \in Nat
    /\ cached \in {<<>>} \cup (Nat \X Nat)

KeysInit == expires = 0 /\ cached = <<>>

\* math.ceil of a duration, in seconds
CeilSecondsTruncated(t) == IntSeconds(t)
CeilSeconds(t) == IF t > 0 THEN (t + SEC - 1) \div SEC ELSE 0

\* The script's answer {allowed, remaining, reset_in}, which is cached
Decide(ok, remaining, reset) ==
    /\ cached' = <<remaining, reset>>
    /\ reply' = [op |-> "allow", ok |-> ok, val |-> reset]
    /\ log' = IF ok THEN Append(log, now) ELSE log

Cached == cached # <<>>

\* remaining_requests and reset_time after a decision: no call to Redis
AnswerFromCache ==
    /\ Cached
    /\ \/ reply' = Answer("remaining", cached[1])
       \/ reply' = Answer("reset", cached[2])
    /\ UNCHANGED <<now, limit, window, log, expires, cached>>

\* The same calls without a cached decision
AnswerFresh(remaining, reset) ==
    /\ ~Cached
    /\ \/ reply' = Answer("remaining", remaining)
       \/ reply' = Answer("reset", reset)
    /\ UNCHANGED <<now, limit, window, log, cached>>

\* The facade made a new limiter object for the client, here or in another
\* worker: the keys stay, the cached decision does not
Recreate(l, w) ==
    /\ limit' = l
    /\ window' = w
    /\ cached' = <<>>
    /\ reply' = NoReply
    /\ UNCHANGED <<now, log, expires>>
=============================================================================
