---------------------------- MODULE TokenBucket ----------------------------
(***************************************************************************)
(* app/algorithms/token_bucket.py: every call first adds the tokens earned *)
(* since the last call, up to the capacity; a request takes one.  Names    *)
(* begin with Token where the other algorithms have one like them.         *)
(***************************************************************************)
EXTENDS Bucket

VARIABLES
    tokens,            \* self.tokens, in parts
    last_refill_time   \* self.last_refill_time

TokenVars == <<now, limit, window, log, reply, rate, tokens, last_refill_time>>

\* _refill: min(capacity, tokens + elapsed * refill_rate)
RefilledUncapped(t) == tokens + (t - last_refill_time) * rate
RefilledFromEmpty(t) ==
    IF (t - last_refill_time) * rate < limit * Unit
      THEN (t - last_refill_time) * rate ELSE limit * Unit
Refilled(t) ==
    LET sum == tokens + (t - last_refill_time) * rate
    IN  IF sum < limit * Unit THEN sum ELSE limit * Unit

RefillKeepsTime(spent) ==
    /\ tokens' = Refilled(now) - spent
    /\ UNCHANGED last_refill_time
Refill(spent) ==
    /\ tokens' = Refilled(now) - spent
    /\ last_refill_time' = now

TokenTypeOK ==
    /\ CommonTypeOK
    /\ rate \in Rates
    /\ tokens \in 0..(MaxLimit * Unit)
    /\ last_refill_time \in Nat

TokenInit ==
    /\ BucketInit
    /\ tokens = limit * Unit
    /\ last_refill_time = now

HasToken(n) == n >= Unit

TokenAllowRequest ==
    /\ \/ /\ HasToken(Refilled(now))
          /\ Refill(Unit)
          /\ log' = Append(log, now)
          /\ reply' = Allow(TRUE)
       \/ /\ ~HasToken(Refilled(now))
          /\ Refill(0)
          /\ reply' = Allow(FALSE)
          /\ UNCHANGED log
    /\ UNCHANGED <<now, limit, window, rate>>

TokenRemainingRequests ==
    /\ Refill(0)
    /\ reply' = Answer("remaining", Refilled(now) \div Unit)
    /\ UNCHANGED <<now, limit, window, log, rate>>

\* int((1 - tokens) / refill_rate), 0 when a token is there
SecondsToTokenIgnoringTokens(n) == 0
SecondsToToken(n) == IF n >= Unit THEN 0 ELSE (Unit - n) \div (rate * SEC)

TokenResetTime ==
    /\ Refill(0)
    /\ reply' = Answer("reset", SecondsToToken(Refilled(now)))
    /\ UNCHANGED <<now, limit, window, log, rate>>

TokenNext ==
    \/ TokenAllowRequest
    \/ TokenRemainingRequests
    \/ TokenResetTime
    \/ /\ \/ Tick /\ UNCHANGED rate
          \/ \E l \in Limits, w \in Windows : RetuneCapacity(l, w)
          \/ RetuneRate
       /\ UNCHANGED <<tokens, last_refill_time>>

TokenSpec == TokenInit /\ [][TokenNext]_TokenVars

----------------------------------------------------------------------------
(***************************************************************************)
(* Between any two admissions no more requests pass than one full bucket   *)
(* and what the fastest policy refills in the time between them, however   *)
(* policies change meanwhile.  (README: "Bursts up to capacity pass        *)
(* instantly, then sustained refill pacing applies".)                      *)
(***************************************************************************)
BurstBound ==
    \A i, k \in 1..Len(log) :
        i <= k => (k - i + 1) * Unit <= MaxLimit * Unit + MaxRate * (log[k] - log[i])

(***************************************************************************)
(* The tokens in the bucket are part of the same budget: they and the      *)
(* admissions since any earlier one never add up to more than a full       *)
(* bucket and the refill since then.                                       *)
(***************************************************************************)
TokensBudgeted ==
    \A i \in 1..Len(log) :
        /\ log[i] <= last_refill_time
        /\ (Len(log) - i + 1) * Unit + tokens
              <= MaxLimit * Unit + MaxRate * (last_refill_time - log[i])

(***************************************************************************)
(* No token is lost: a request is rejected only if admitting it would put  *)
(* the client over a full bucket of the strictest policy plus its refill,  *)
(* counted from one of its own earlier admissions.                         *)
(***************************************************************************)
TokenRejectedOnlyWhenSpent ==
    Rejected => \E i \in 1..Len(log) :
        (Len(log) - i + 2) * Unit > MinLimit * Unit + MinRate * (now - log[i])

(***************************************************************************)
(* One second after the advertised reset time there is a token, whatever   *)
(* the policy was when the bucket ran dry.                                 *)
(***************************************************************************)
TokenRetryAfterWithinASecond ==
    reply.op = "reset" => HasToken(Refilled(now + (reply.val + 1) * SEC))
=============================================================================
