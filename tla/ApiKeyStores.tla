---------------------------- MODULE ApiKeyStores ----------------------------
(***************************************************************************)
(* The choice app/main.py makes at startup: API keys in Redis with the     *)
(* redis backend, in a file with the memory backend.                       *)
(***************************************************************************)
EXTENDS ApiKeyFile, ApiKeyRedis

CONSTANT Backends   \* values of RATE_LIMIT_BACKEND

VARIABLE backend    \* RATE_LIMIT_BACKEND

storesVars == <<shared, backend, records, file, hashes, index>>

StoresTypeOK ==
    /\ backend \in Backends
    /\ TypeOK /\ RedisTypeOK

StoresInit ==
    /\ backend \in Backends
    /\ Init /\ RedisInit

StoresNext ==
    /\ \/ backend = "memory" /\ Next /\ UNCHANGED <<hashes, index>>
       \/ backend = "redis" /\ RedisNext /\ UNCHANGED <<records, file>>
    /\ UNCHANGED backend

StoresSpec == StoresInit /\ [][StoresNext]_storesVars
=============================================================================
