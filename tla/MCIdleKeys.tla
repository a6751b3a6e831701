----------------------------- MODULE MCIdleKeys -----------------------------
(***************************************************************************)
(* The instances of MCRateLimiter, with the time since every client was    *)
(* last looked up as history: what the time stamp in the map would be if   *)
(* it were the last_seen_monotonic that rate_limiter.py calls it.          *)
(***************************************************************************)
EXTENDS MCRateLimiter

VARIABLE unseen  \* history: key -> ticks since its last lookup, at most KeyTTL

WatchedInit == Init /\ unseen = [k \in Keys |-> KeyTTL]

WatchedNext ==
    \/ \E t \in Threads :
          /\ Found(t) \/ Created(t)
          /\ unseen' = [unseen EXCEPT ![thread[t].key] = 0]
    \/ /\ Tick
       /\ unseen' = [k \in Keys |-> IF unseen[k] < KeyTTL THEN unseen[k] + 1 ELSE KeyTTL]
    \/ /\ \/ \E t \in Threads :
                (\E k \in Keys : Resolve(t, k)) \/ RetuneLimit(t) \/ RetuneWindow(t) \/ Call(t)
          \/ \E c \in Configs : Reconfigure(c)
       /\ UNCHANGED unseen

WatchedSpec == WatchedInit /\ [][WatchedNext]_<<vars, unseen>>

(***************************************************************************)
(* The docstring of RateLimiter: "Idle keys are evicted (LRU + TTL)": a    *)
(* client's limiter is replaced by a new one only if nobody has looked the *)
(* client up for key_ttl.                                                  *)
(***************************************************************************)
OnlyIdleExpire ==
    [][\A k \in InMap \cap InMap' :
          ObjectOf(k)' # ObjectOf(k) => unseen[k] >= KeyTTL]_<<vars, unseen>>
=============================================================================
