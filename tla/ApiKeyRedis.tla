---------------------------- MODULE ApiKeyRedis ----------------------------
(***************************************************************************)
(* RedisApiKeyStore of app/api_keys.py: one hash per key, dropped by Redis *)
(* when its time has come, and an index set.  A pipeline is one            *)
(* transaction; every other command is a step of its own.  A command may   *)
(* fail before or after it took effect; workers may die, Redis keeps what  *)
(* it has.                                                                 *)
(***************************************************************************)
EXTENDS ApiKeys

VARIABLES
    hashes,   \* rateguard:apikey:{hash}
    index     \* rateguard:apikeys

redisVars == <<shared, hashes, index>>

RedisTypeOK ==
    /\ SharedTypeOK
    /\ hashes \in [Keys -> Records]
    /\ index \subseteq used

RedisInit ==
    /\ SharedInit
    /\ hashes = [k \in Keys |-> NoRecord]
    /\ index = {}

Exists(k) == hashes[k] # NoRecord /\ now < hashes[k].dies

\* EXPIRE key max(ttl, 1), counted from the transaction on
Lifetime(ttl) == IF ttl > 1 THEN ttl ELSE 1
DropsAt(ttl) == IF ttl = Never THEN Never ELSE now + Lifetime(ttl)

\* A command took effect; its answer arrives, or is lost and the call fails
Executed(c, call) == Become(c, call) \/ Become(c, Idle)

RedisCreate(c) ==
    LET k == calls[c].key IN
    /\ Doing(c, "create", "store")
    /\ hashes' = [hashes EXCEPT ![k] = Record(calls[c].rec.expires, DropsAt(calls[c].ttl))]
    /\ index' = index \cup {k}
    /\ Executed(c, [calls[c] EXCEPT !.step = "answer"])
    /\ UNCHANGED touched

RedisDelete(c) ==
    \E k \in used :
        /\ Free(c) /\ Touch(k)
        /\ hashes' = [hashes EXCEPT ![k] = NoRecord]
        /\ index' = index \ {k}
        /\ Executed(c, IF Exists(k) THEN Call("delete", k, "answer", NoRecord) ELSE Idle)

\* revoke: EXISTS
RevokeFound(c) ==
    \E k \in used :
        /\ Free(c) /\ Touch(k)
        /\ Become(c, IF Exists(k) THEN Call("revoke", k, "store", NoRecord) ELSE Idle)

\* ... then HSET enabled false: a hash that is gone comes back with this field alone
Revoked(k) ==
    IF Exists(k) THEN [hashes[k] EXCEPT !.enabled = FALSE]
    ELSE [whole |-> FALSE, enabled |-> FALSE, expires |-> Never, dies |-> Never]

RevokeSet(c) ==
    LET k == calls[c].key IN
    /\ Doing(c, "revoke", "store")
    /\ hashes' = [hashes EXCEPT ![k] = Revoked(k)]
    /\ Executed(c, [calls[c] EXCEPT !.step = "answer"])
    /\ UNCHANGED <<index, touched>>

\* HGETALL of verify
RedisAuthenticate(c) ==
    \E k \in issued :
        /\ Free(c)
        /\ IF Exists(k) THEN Verified(c, k, hashes[k]) ELSE Unverified(c, k)

\* list: SMEMBERS
ListMembers(c) ==
    /\ Free(c)
    /\ Become(c, [Call("list", NoKey, "read", Record(Never, Never)) EXCEPT
                     !.todo = index, !.due = Usable])
    /\ UNCHANGED touched

\* ... one HGETALL per member
ListGet(c) ==
    /\ Doing(c, "list", "read")
    /\ \E k \in calls[c].todo :
          Become(c, [calls[c] EXCEPT
             !.todo = @ \ {k},
             !.shown = IF Exists(k) THEN @ \cup {k} ELSE @,
             !.rec.whole = @ /\ (Exists(k) => hashes[k].whole)])
    /\ UNCHANGED touched

\* ... and a sort by created_at, which fails on a record without it
Sortable(c) == calls[c].rec.whole \/ Cardinality(calls[c].shown) < 2
ListDone(c) ==
    /\ Doing(c, "list", "read") /\ calls[c].todo = {}
    /\ IF Sortable(c)
       THEN Report(c, TRUE, FALSE, (calls[c].due \cap Usable) \ calls[c].shown)
       ELSE Become(c, Idle) /\ UNCHANGED touched

\* Redis could not be reached, or the answer of a read was lost
Unavailable(c) ==
    /\ calls[c].step = "store" \/ calls[c].todo # {}
    /\ Become(c, Idle)
    /\ UNCHANGED touched

RedisNext ==
    \/ \E c \in Callers : RedisCreate(c) \/ RedisDelete(c) \/ RevokeSet(c)
    \/ /\ \/ Tick \/ LoseCalls
          \/ \E c \in Callers :
                \/ BeginCreate(c) \/ RevokeFound(c) \/ RedisAuthenticate(c) \/ Check(c)
                \/ ListMembers(c) \/ ListGet(c) \/ ListDone(c)
                \/ AnswerDone(c) \/ Unavailable(c)
       /\ UNCHANGED <<hashes, index>>

RedisSpec == RedisInit /\ [][RedisNext]_redisVars
=============================================================================
