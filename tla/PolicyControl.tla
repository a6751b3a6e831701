--------------------------- MODULE PolicyControl ---------------------------
(***************************************************************************)
(* The control plane: the admin handlers of app/main.py, which change      *)
(* policies at run time, and the resolver of app/policies/resolver.py,     *)
(* which every rate-limited request asks for the limit of its route.       *)
(*                                                                         *)
(* Each worker process has one resolver cache; its threads (the event loop *)
(* that serves requests and the pool threads that run admin handlers)      *)
(* share it.  A step of a thread is one store round trip or one locked     *)
(* section of the cache, so steps of other threads fall between a          *)
(* handler's read and its write, and between a resolver's read and its     *)
(* fill.  The memory backend is one process without faults.                *)
(***************************************************************************)
EXTENDS PolicyStore

CONSTANTS
    Workers,     \* processes
    Threads,     \* threads of all workers
    WorkerOf,    \* thread -> worker
    Bodies,      \* request bodies of POST and PUT, acceptable or not
    Backends,    \* the values RATE_LIMIT_BACKEND may have at startup
    Faults,      \* {"down"}: a call fails; {"lost"}: its answer is lost
    TTL,         \* cache_ttl, in ticks
    ReadBound,   \* longest time from a store read to its cache fill (bound)
    MaxWrites    \* number of admin writes attempted (bound of the model)

ASSUME ControlAssumption ==
    /\ WorkerOf \in [Threads -> Workers]
    /\ Backends \subseteq {"memory", "redis"}
    /\ Faults \subseteq {"down", "lost"}
    /\ TTL \in Nat \ {0} /\ ReadBound \in Nat /\ MaxWrites \in Nat

VARIABLES
    backend,     \* RATE_LIMIT_BACKEND of this deployment
    cache,       \* worker -> route -> cached resolution or Empty
    thread,      \* thread -> what its handler is doing
    operations,  \* rateguard_policy_updates_total of set and delete, all workers, by outcome
    audited,     \* rateguard_policy_audit_events_total, all workers, by outcome
    acked,       \* history: worker -> route -> newest version acknowledged there
    raced,       \* history: routes last written while a listing was about to prune them
    writes       \* admin writes attempted so far

metrics == <<operations, audited>>
vars == <<store, index, audit, version, backend, cache, thread, operations, audited,
          acked, raced, writes>>

(***************************************************************************)
(* A cached resolution: what is in force, the ticks it has left (an        *)
(* expired entry is Empty), and as history the version of the document it  *)
(* came from and for how long that has been replaced in the store.         *)
(***************************************************************************)
Empty == [left |-> 0, effective |-> NoPolicy, ver |-> 0, stale |-> 0]
Resolutions ==
    [limit : 1..MaxLimit, window : 1..MaxWindow, source : {"dynamic", "static", "global"},
     policy : Documents]
Entries == [left : 0..TTL, effective : Resolutions \cup {NoPolicy}, ver : Nat, stale : Nat]

Idle == [pc |-> "idle", op |-> "none", doc |-> NoPolicy, routes |-> {}, gone |-> {},
         ver |-> 0, stale |-> 0, waited |-> 0]

Pcs == {"idle", "write", "invalidate", "check", "read", "fill", "gets", "prune"}
Ops == Operations \cup {"none", "list", "resolve"}
ThreadStates ==
    [pc : Pcs, op : Ops, doc : Documents, routes : SUBSET Routes, gone : SUBSET Routes,
     ver : Nat, stale : Nat, waited : Nat]
Outcomes == [success : Nat, error : Nat]

(***************************************************************************)
(* Besides the types of the state: every document that is stored, cached,  *)
(* recorded or about to be written is one RoutePolicy accepts, also when   *)
(* it was merged from a partial update.  (model.py: "invalid data can      *)
(* never reach a store or the limiter hot path".)                          *)
(***************************************************************************)
TypeOK ==
    /\ StoreTypeOK
    /\ backend \in Backends
    /\ cache \in [Workers -> [Routes -> Entries]]
    /\ thread \in [Threads -> ThreadStates]
    /\ operations \in Outcomes /\ audited \in Outcomes
    /\ acked \in [Workers -> [Routes -> Nat]]
    /\ raced \in SUBSET Routes
    /\ writes \in 0..MaxWrites

Init ==
    /\ StoreInit
    /\ backend \in Backends
    /\ cache = [w \in Workers |-> [r \in Routes |-> Empty]]
    /\ thread = [t \in Threads |-> Idle]
    /\ operations = [success |-> 0, error |-> 0]
    /\ audited = [success |-> 0, error |-> 0]
    /\ acked = [w \in Workers |-> [r \in Routes |-> 0]]
    /\ raced = {}
    /\ writes = 0

----------------------------------------------------------------------------
Goto(t, s) == thread' = [thread EXCEPT ![t] = s]
At(t, pc) == thread[t].pc = pc

\* record_policy_operation and record_policy_audit_event
Count(counter, outcome) == [counter EXCEPT ![outcome] = @ + 1]

\* The process a thread belongs to; the memory backend has only one
Home(t) == IF backend = "memory" THEN CHOOSE w \in Workers : TRUE ELSE WorkerOf[t]

\* Only calls over the network fail or lose their answer
MayFail(fault) == backend = "redis" /\ fault \in Faults
TheRoute(t) == CHOOSE r \in thread[t].routes : TRUE

\* An admin handler starts its first store access
Attempt(t) ==
    /\ At(t, "idle")
    /\ writes < MaxWrites
    /\ writes' = writes + 1

\* Answers 404, 409 and, when the first read failed, 503
Refuse(t) ==
    /\ Goto(t, Idle)
    /\ operations' = Count(operations, "error")
    /\ UNCHANGED audited

\* create_rate_limit up to the duplicate check; an invalid body gets 422
Create(t, r, body) ==
    /\ Creatable(body)
    /\ Attempt(t)
    /\ \/ /\ store[r] = NoPolicy
          /\ Goto(t, [Idle EXCEPT !.pc = "write", !.op = "create", !.routes = {r},
                                  !.doc = NewPolicy(body)])
          /\ UNCHANGED metrics
       \/ store[r] # NoPolicy /\ Refuse(t)
       \/ MayFail("down") /\ Refuse(t)
    /\ UNCHANGED <<storeVars, backend, cache, acked, raced>>

\* update_rate_limit up to the merge with the document it read
Update(t, r, body) ==
    /\ Normalizable(body)
    /\ Attempt(t)
    /\ \/ /\ store[r] # NoPolicy
          /\ Goto(t, [Idle EXCEPT !.pc = "write", !.op = "update", !.routes = {r},
                                  !.doc = Merge(store[r], body)])
          /\ UNCHANGED metrics
       \/ store[r] = NoPolicy /\ Refuse(t)
       \/ MayFail("down") /\ Refuse(t)
    /\ UNCHANGED <<storeVars, backend, cache, acked, raced>>

\* A failed write is answered with 503, whether or not it was executed
FailedWriteUncounted(t, executed) ==
    /\ \/ MayFail("down") /\ UNCHANGED <<storeVars, raced>>
       \/ MayFail("lost") /\ executed
    /\ Goto(t, Idle)
    /\ operations' = Count(operations, "error")
    /\ UNCHANGED audited
FailedWrite(t, executed) ==
    /\ \/ MayFail("down") /\ UNCHANGED <<storeVars, raced>>
       \/ MayFail("lost") /\ executed
    /\ Goto(t, Idle)
    /\ operations' = Count(operations, "error")
    /\ audited' = Count(audited, "error")

AboutToPrune(r) == \E t \in Threads : At(t, "prune") /\ r \in thread[t].gone

\* set_with_audit; history: is a listing about to undo the SADD?
Store(op, r, doc) ==
    /\ SetWithAudit(op, r, doc)
    /\ raced' = IF AboutToPrune(r) THEN raced \cup {r} ELSE raced \ {r}

\* The audited write of create and update
Write(t) ==
    LET s == thread[t]
        r == TheRoute(t)
    IN  /\ At(t, "write")
        /\ \/ /\ Store(s.op, r, s.doc)
              /\ Goto(t, [s EXCEPT !.pc = "invalidate", !.ver = version[r] + 1])
              /\ UNCHANGED metrics
           \/ FailedWrite(t, Store(s.op, r, s.doc))
        /\ UNCHANGED <<backend, cache, acked, writes>>

\* delete_rate_limit: its first store access is the audited write
Delete(t, r) ==
    /\ Attempt(t)
    /\ \/ /\ Deletable(r)
          /\ DeleteWithAudit(r)
          /\ Goto(t, [Idle EXCEPT !.pc = "invalidate", !.op = "delete", !.routes = {r},
                                  !.ver = version[r] + 1])
          /\ UNCHANGED <<operations, audited, raced>>
       \/ /\ ~Deletable(r)
          /\ Refuse(t)
          /\ UNCHANGED <<storeVars, raced>>
       \/ FailedWrite(t, IF Deletable(r) THEN DeleteWithAudit(r) /\ UNCHANGED raced
                                         ELSE UNCHANGED <<storeVars, raced>>)
    /\ UNCHANGED <<backend, cache, acked>>

\* policy_resolver.invalidate(route), then the handler answers
Dropped(w, r) == [cache EXCEPT ![w][r] = Empty]

Invalidate(t) ==
    LET w == Home(t)
        r == TheRoute(t)
        v == thread[t].ver
    IN  /\ At(t, "invalidate")
        /\ cache' = Dropped(w, r)
        /\ acked' = [acked EXCEPT ![w][r] = IF v > @ THEN v ELSE @]
        /\ Goto(t, Idle)
        /\ operations' = Count(operations, "success")
        /\ audited' = Count(audited, "success")
        /\ UNCHANGED <<storeVars, backend, raced, writes>>

----------------------------------------------------------------------------
ReadOnly == UNCHANGED <<storeVars, backend, metrics, acked, raced, writes>>

\* After a route is resolved, a listing goes on with the next one
Resolved(t, s, r) ==
    LET rest == s.routes \ {r}
    IN  Goto(t, IF rest = {} THEN Idle
                ELSE [Idle EXCEPT !.pc = "check", !.op = s.op, !.routes = rest])

\* A hit does not touch the entry: its life is not extended
HitKeepsAlive(w, r) == [cache EXCEPT ![w][r].left = TTL]
Hit(w, r) == cache

\* The lookup of PolicyResolver.effective under the cache lock
Lookup(t, s, r) ==
    LET w == Home(t)
    IN  /\ \/ /\ cache[w][r].left > 0
              /\ cache' = Hit(w, r)
              /\ Resolved(t, s, r)
           \/ /\ cache[w][r].left = 0
              /\ Goto(t, [s EXCEPT !.pc = "read"])
              /\ UNCHANGED cache
        /\ ReadOnly

\* A request, or an admin read of one route, resolves r
Resolve(t, r) ==
    /\ At(t, "idle")
    /\ Lookup(t, [Idle EXCEPT !.op = "resolve", !.routes = {r}], r)

\* A listing resolves the next of the routes it found
ListEntry(t) == At(t, "check") /\ Lookup(t, thread[t], TheRoute(t))

\* store.get, outside the cache lock
ReadStore(t) ==
    LET r == TheRoute(t)
    IN  /\ At(t, "read")
        /\ \/ Goto(t, [thread[t] EXCEPT !.pc = "fill", !.doc = store[r], !.ver = version[r],
                                         !.stale = 0, !.waited = 0])
           \/ MayFail("down") /\ Goto(t, Idle)
        /\ UNCHANGED cache
        /\ ReadOnly

\* The fill: expires_at counts from here, not from the read
FillCache(t) ==
    LET w == Home(t)
        r == TheRoute(t)
        s == thread[t]
    IN  /\ At(t, "fill")
        /\ cache' = [cache EXCEPT ![w][r] =
                        [left |-> TTL, effective |-> Effective(r, s.doc),
                         ver |-> s.ver, stale |-> s.stale]]
        /\ Resolved(t, s, r)
        /\ ReadOnly

\* Fills for other paths, which clients choose, push the oldest of 10 000 entries out
PushedOut(w, r) ==
    /\ cache[w][r].left > 0
    /\ cache' = Dropped(w, r)
    /\ UNCHANGED thread
    /\ ReadOnly

----------------------------------------------------------------------------
\* list_rate_limits then resolves the routes it found
Show(t, found) ==
    Goto(t, IF found = {} THEN Idle ELSE [Idle EXCEPT !.pc = "check", !.op = "list", !.routes = found])

\* GET answers nil
MissingOrDisabled(r) == store[r] = NoPolicy \/ ~store[r].enabled
Missing(r) == store[r] = NoPolicy

Stored == {r \in Routes : ~Missing(r)}

\* list(): one locked section in memory, SMEMBERS first on Redis
List(t) ==
    /\ At(t, "idle")
    /\ \/ backend = "memory" /\ Show(t, Stored)
       \/ backend = "redis" /\ Goto(t, [Idle EXCEPT !.pc = "gets", !.op = "list", !.routes = index])
       \/ MayFail("down") /\ Goto(t, Idle)
    /\ UNCHANGED cache
    /\ ReadOnly

\* The pipelined GETs: an indexed route without a document counts as stale
ListGets(t) ==
    LET found == thread[t].routes
    IN  /\ At(t, "gets")
        /\ \/ found \subseteq Stored /\ Show(t, found)
           \/ /\ ~(found \subseteq Stored)
              /\ Goto(t, [thread[t] EXCEPT !.pc = "prune", !.routes = found \cap Stored,
                                           !.gone = found \ Stored])
           \/ MayFail("down") /\ Goto(t, Idle)
        /\ UNCHANGED cache
        /\ ReadOnly

\* SREM of the stale routes
Pruned(t) == index \ thread[t].gone

ListPrune(t) ==
    /\ At(t, "prune")
    /\ \/ index' = Pruned(t) /\ Show(t, thread[t].routes)
       \/ MayFail("down") /\ UNCHANGED index /\ Goto(t, Idle)
       \/ MayFail("lost") /\ index' = Pruned(t) /\ Goto(t, Idle)
    /\ UNCHANGED <<store, audit, version, backend, cache, metrics, acked, raced, writes>>

----------------------------------------------------------------------------
\* One more tick: cached entries run down, what was replaced ages
AgedNever(e, r) == e
Aged(e, r) ==
    IF e.left <= 1 THEN Empty
    ELSE [e EXCEPT !.left = @ - 1, !.stale = IF e.ver < version[r] THEN @ + 1 ELSE @]

Reading(t) == At(t, "fill")

Tick ==
    /\ \A t \in Threads : Reading(t) => thread[t].waited < ReadBound
    /\ cache' = [w \in Workers |-> [r \in Routes |-> Aged(cache[w][r], r)]]
    /\ thread' = [t \in Threads |->
          IF Reading(t)
            THEN [thread[t] EXCEPT !.waited = @ + 1,
                     !.stale = IF thread[t].ver < version[TheRoute(t)] THEN @ + 1 ELSE @]
            ELSE thread[t]]
    /\ ReadOnly

Step(t) ==
    \/ Write(t) \/ Invalidate(t)
    \/ ListEntry(t) \/ ReadStore(t) \/ FillCache(t)
    \/ ListGets(t) \/ ListPrune(t)

Start(t) ==
    \/ \E r \in Routes, body \in Bodies : Create(t, r, body) \/ Update(t, r, body)
    \/ \E r \in Routes : Delete(t, r)
    \/ \E r \in Routes : Resolve(t, r)
    \/ List(t)

Next ==
    \/ Tick
    \/ \E t \in Threads : Step(t) \/ Start(t)
    \/ \E w \in Workers, r \in Routes : PushedOut(w, r)

Spec == Init /\ [][Next]_vars

(***************************************************************************)
(* Handlers run on threads that the server keeps running, and time passes. *)
(* Nothing makes clients or administrators call.                           *)
(***************************************************************************)
Fairness == WF_vars(Tick) /\ \A t \in Threads : WF_vars(Step(t))
FairSpec == Spec /\ Fairness

----------------------------------------------------------------------------
(***************************************************************************)
(* How far a worker can lag behind: an entry that is still served was      *)
(* replaced in the store no longer ago than the part of its life it has    *)
(* used up, plus the time its read took.  No fault, lost answer or racing  *)
(* writer makes a replaced policy live longer than TTL + ReadBound.  The   *)
(* documentation promises less, the TTL alone: see ConvergedWithinTTL.     *)
(***************************************************************************)
BoundedStaleness ==
    \A w \in Workers, r \in Routes :
        LET e == cache[w][r]
        IN  e.left > 0 => e.stale + e.left <= TTL + ReadBound

(***************************************************************************)
(* README: "within 2 seconds (cache TTL) on every other worker", and       *)
(* resolver.py: "other workers converge within the TTL at most": nothing   *)
(* that a worker serves was replaced longer than the TTL ago.              *)
(***************************************************************************)
ConvergedWithinTTL ==
    \A w \in Workers, r \in Routes : cache[w][r].left > 0 => cache[w][r].stale <= TTL

(***************************************************************************)
(* README: "Updates take effect on subsequent requests immediately on the  *)
(* worker that handled the update": once a handler of this worker has      *)
(* answered, what the worker serves from its cache is that write or a      *)
(* later one.                                                              *)
(***************************************************************************)
ImmediateOnUpdatingWorker ==
    \A w \in Workers, r \in Routes :
        cache[w][r].left > 0 => cache[w][r].ver >= acked[w][r]

(***************************************************************************)
(* A policy that is in force can be missing from every listing only if a   *)
(* listing that had found no document was about to prune the route while   *)
(* it was written.  The next write puts it back; deletes, lost answers and *)
(* other listings never hide a policy.                                     *)
(***************************************************************************)
UnlistedOnlyByRace ==
    backend = "redis" => \A r \in Routes \ raced : store[r] # NoPolicy => r \in index

(***************************************************************************)
(* The counters account for the trail: whatever was raced, refused, failed *)
(* or lost, each admin write is counted once when it ends; every event is  *)
(* counted as a success only if it was persisted, and an event that was    *)
(* persisted is counted, as an error if only its answer was lost.          *)
(* (metrics.py: "one counter increment per audit event persisted (success) *)
(* or failed to persist (error)".)                                         *)
(***************************************************************************)
Unanswered == Cardinality({t \in Threads : At(t, "invalidate")})
Unfinished == Cardinality({t \in Threads : At(t, "write") \/ At(t, "invalidate")})

Persisted == UNION {{r} \X (1..version[r]) : r \in Routes}

CountersMatchTrail ==
    LET persisted == Cardinality(Persisted)
    IN  /\ audited.success + Unanswered <= persisted
        /\ persisted <= audited.success + audited.error + Unanswered
        /\ operations.success = audited.success
        /\ operations.success + operations.error + Unfinished = writes

(***************************************************************************)
(* However the last writes raced, failed or lost their answers, every      *)
(* worker ends up enforcing what the stored document (or, without an       *)
(* enabled one, the configured fallback) says, although requests keep      *)
(* coming and keep hitting the cache.                                      *)
(***************************************************************************)
Current ==
    \A w \in Workers, r \in Routes :
        cache[w][r].left > 0 => cache[w][r].effective = Effective(r, store[r])
Convergence == <>[]Current
=============================================================================
