----------------------------- MODULE Middleware -----------------------------
(***************************************************************************)
(* RateLimitMiddleware of app/middleware/rate_limit_middleware.py and the  *)
(* metrics it keeps (app/metrics.py), on top of the facade: one worker,    *)
(* whose event loop is the only thread that uses the facade.               *)
(*                                                                         *)
(* A limited request goes through the facade three times (decision,        *)
(* remaining, reset) and resolves the policy a fourth time for its Limit   *)
(* header.  The loop does not serve other requests meanwhile, but policies *)
(* change (admin handlers run on pool threads and in other workers), time  *)
(* passes, other workers use up the same budget, and Redis may fail.  At   *)
(* an await (the application, sending a response) other requests go on.    *)
(*                                                                         *)
(* A limiter is the number of requests charged to it; time gives any part  *)
(* back.  In memory the charge is lost with the limiter object, in Redis   *)
(* it survives it, and the object answers from its last decision.          *)
(***************************************************************************)
EXTENDS RateLimiter, FiniteSetsExt

CONSTANTS
    Loop,           \* the event loop: the only thread here
    Requests,       \* HTTP requests
    Paths, Clients,
    UnderPrefix,    \* paths under one of excluded_prefixes
    ExcludedPaths,  \* excluded_paths
    RouteLimits,    \* paths in route_limits
    KnownRoutes,    \* KNOWN_ROUTES and known_routes
    Backends,       \* the values RATE_LIMIT_BACKEND may have at startup
    Faults          \* {"down"}: a Redis call fails; {"lost"}: its answer is lost

\* _should_limit
ShouldLimit(path) ==
    /\ path \notin UnderPrefix
    /\ path \in ExcludedPaths => path \in RouteLimits

ASSUME MiddlewareAssumption ==
    /\ Threads = {Loop}
    /\ IsFiniteSet(Requests)
    /\ Keys = {p \in Paths : ShouldLimit(p)} \X Clients
    /\ Limits \subseteq Nat
    /\ Backends \subseteq {"memory", "redis"}
    /\ Faults \subseteq {"down", "lost"}

VARIABLES
    backend,
    request,     \* request -> the local variables of its __call__
    spent,       \* internal key -> requests charged to its budget
    cached,      \* internal key -> _cached_remaining of its limiter object (Redis)
    http,        \* rateguard_http_requests_total
    decisions,   \* rateguard_rate_limit_requests_total
    charged      \* history: how many requests of this worker were charged to a budget

facadeVars == <<config, limiters, heap, lock, thread, recency>>
metricVars == <<http, decisions>>
mwVars == <<facadeVars, backend, request, spent, cached, metricVars, charged>>

NoAnswer == -1
Statuses == {"200", "401", "429", "error"}

\* route_label
Label(path) == IF path \in KnownRoutes THEN path ELSE "other"
Labels == {Label(p) : p \in Paths}

Untouched ==
    [pc |-> "none", path |-> None, client |-> None, allowed |-> FALSE, limit |-> 0,
     remaining |-> 0, status |-> None, reached |-> FALSE, steady |-> TRUE, same |-> TRUE]

\* A request whose decision and headers do not matter any more
Settled(r, pc) ==
    [Untouched EXCEPT !.pc = pc, !.path = r.path, !.status = r.status, !.reached = r.reached]

(***************************************************************************)
(* What a request is doing.  In Synchronous places the loop runs its code  *)
(* without an await, and no other request.                                 *)
(***************************************************************************)
FacadeCalls == {"allow", "remaining", "reset"}
Deciding == FacadeCalls \cup {"limit"}
Synchronous == Deciding \cup {"record", "end"}
Places == Synchronous \cup {"none", "refuse", "reject", "app", "stream", "done"}

Tallies(S) == [Labels \X S -> 0..Cardinality(Requests)]

MiddlewareTypeOK ==
    /\ backend \in Backends
    /\ request \in [Requests ->
          [pc : Places, path : Paths \cup {None}, client : Clients \cup {None},
           allowed : BOOLEAN, limit : Limits \cup {0}, remaining : 0..Max(Limits),
           status : Statuses \cup {None}, reached : BOOLEAN, steady : BOOLEAN, same : BOOLEAN]]
    /\ spent \in [Keys -> 0..Max(Limits)]
    /\ cached \in [Keys -> {NoAnswer} \cup 0..Max(Limits)]
    /\ http \in Tallies(Statuses)
    /\ decisions \in Tallies({"allowed", "rejected"})
    /\ charged \in 0..Cardinality(Requests)

MiddlewareInit ==
    /\ Init
    /\ backend \in Backends
    /\ request = [q \in Requests |-> Untouched]
    /\ spent = [k \in Keys |-> 0]
    /\ cached = [k \in Keys |-> NoAnswer]
    /\ http = [x \in Labels \X Statuses |-> 0]
    /\ decisions = [x \in Labels \X {"allowed", "rejected"} |-> 0]
    /\ charged = 0

----------------------------------------------------------------------------
At(q, pc) == request[q].pc = pc
LoopFree == \A q \in Requests : request[q].pc \notin Synchronous
Goto(q, pc) == request' = [request EXCEPT ![q].pc = pc]

\* _internal_key
KeyOf(q) == <<request[q].path, request[q].client>>

MayFail(fault) == backend = "redis" /\ fault \in Faults
Count(counter, x) == [counter EXCEPT ![x] = @ + 1]

\* Where client_key leads: it may refuse an API key (401) or fail with the key store
Identified == {"allow", "refuse"} \cup {pc \in {"end"} : MayFail("down")}

\* __call__ and _handle_http up to the first use of the facade
Arrive(q, path, client) ==
    LET r == [Untouched EXCEPT !.path = path, !.client = client]
    IN  /\ At(q, "none") /\ LoopFree
        /\ \/ /\ ~ShouldLimit(path)
              /\ request' = [request EXCEPT ![q] = [r EXCEPT !.pc = "app", !.reached = TRUE]]
           \/ /\ ShouldLimit(path)
              /\ \E pc \in Identified :
                    request' = [request EXCEPT ![q] = [r EXCEPT !.pc = pc]]
        /\ UNCHANGED <<facadeVars, backend, spent, cached, metricVars, charged>>

\* _get_limiter on behalf of q: a new limiter object has no charge in memory,
\* no decision to answer from in Redis
LookUp(q) ==
    /\ request[q].pc \in FacadeCalls
    /\ Resolve(Loop, KeyOf(q))
    /\ UNCHANGED <<backend, request, spent, cached, metricVars, charged>>

Reuse(q) ==
    /\ request[q].pc \in FacadeCalls
    /\ Found(Loop) \/ RetuneLimit(Loop) \/ RetuneWindow(Loop)
    /\ UNCHANGED <<backend, request, spent, cached, metricVars, charged>>

\* What the limiters of keys that are not in the map, and k's new one, do not know
Afresh(f, k, v) == [x \in Keys |-> IF x = k \/ x \notin InMap' THEN v ELSE f[x]]

Make(q) ==
    LET k == KeyOf(q)
    IN  /\ request[q].pc \in FacadeCalls
        /\ Created(Loop)
        /\ cached' = Afresh(cached, k, NoAnswer)
        /\ spent' = IF backend = "memory" THEN Afresh(spent, k, 0) ELSE spent
        /\ request' = [request EXCEPT ![q].same = FALSE]
        /\ UNCHANGED <<backend, metricVars, charged>>

----------------------------------------------------------------------------
Left(n, used) == IF n > used THEN n - used ELSE 0
HeldLimit == heap[thread[Loop].obj].limit

\* The limiter charges a request it admits, before it reports what remains
ReportedBefore(n, used) == Left(n, used)
Reported(n, used) == Left(n, IF used < n THEN used + 1 ELSE used)

HasRoom(k) == spent[k] < HeldLimit
Charge(k) ==
    /\ spent' = IF HasRoom(k) THEN [spent EXCEPT ![k] = @ + 1] ELSE spent
    /\ charged' = IF HasRoom(k) THEN charged + 1 ELSE charged

\* rate_limiter.allow_request
Decide(q) ==
    LET k == KeyOf(q)
    IN  /\ At(q, "allow")
        /\ Call(Loop)
        /\ Charge(k)
        /\ cached' = IF backend = "redis"
                       THEN [cached EXCEPT ![k] = Reported(HeldLimit, spent[k])] ELSE cached
        /\ request' = [request EXCEPT ![q].pc = "limit", ![q].allowed = HasRoom(k),
                                      ![q].same = TRUE]
        /\ UNCHANGED <<backend, metricVars>>

\* rate_limit_headers: its own resolution for X-RateLimit-Limit
HeaderLimit(q) ==
    /\ At(q, "limit")
    /\ request' = [request EXCEPT ![q].pc = "remaining", ![q].limit = RouteConfig[1]]
    /\ UNCHANGED <<facadeVars, backend, spent, cached, metricVars, charged>>

\* remaining_requests
RemainingOf(k) == IF cached[k] # NoAnswer THEN cached[k] ELSE Left(HeldLimit, spent[k])

HeaderRemaining(q) ==
    /\ At(q, "remaining")
    /\ Call(Loop)
    /\ request' = [request EXCEPT ![q].pc = "reset", ![q].remaining = RemainingOf(KeyOf(q))]
    /\ UNCHANGED <<backend, spent, cached, metricVars, charged>>

\* reset_time; its value is the subject of the algorithms' modules
HeaderReset(q) ==
    /\ At(q, "reset")
    /\ Call(Loop)
    /\ Goto(q, "record")
    /\ UNCHANGED <<backend, spent, cached, metricVars, charged>>

\* An exception leaves _handle_http
AfterFailureOpen(q) == [Settled(request[q], "app") EXCEPT !.reached = TRUE]
AfterFailure(q) == Settled(request[q], "end")

\* The resolver's store read raises: nothing was charged by this call
ResolutionFails(q) ==
    /\ request[q].pc \in Deciding
    /\ thread[Loop].pc = "idle"
    /\ MayFail("down")
    /\ request' = [request EXCEPT ![q] = AfterFailure(q)]
    /\ UNCHANGED <<facadeVars, backend, spent, cached, metricVars, charged>>

\* The limiter's script raises; a decision may have been charged all the same
ScriptFails(q) ==
    /\ At(q, "allow") \/ (request[q].pc \in {"remaining", "reset"} /\ cached[KeyOf(q)] = NoAnswer)
    /\ Call(Loop)
    /\ \/ MayFail("down") /\ UNCHANGED <<spent, charged>>
       \/ MayFail("lost") /\ At(q, "allow") /\ Charge(KeyOf(q))
    /\ request' = [request EXCEPT ![q] = AfterFailure(q)]
    /\ UNCHANGED <<backend, cached, metricVars>>

----------------------------------------------------------------------------
\* record_rate_limit_decision; then 429 or the application
Record(q) ==
    LET r == request[q]
    IN  /\ At(q, "record")
        /\ decisions' = Count(decisions, <<Label(r.path), IF r.allowed THEN "allowed" ELSE "rejected">>)
        /\ request' = [request EXCEPT ![q] =
              [Settled(r, IF r.allowed THEN "app" ELSE "reject") EXCEPT !.reached = r.allowed]]
        /\ UNCHANGED <<facadeVars, backend, spent, cached, http, charged>>

\* An error response is sent; status is noted before send, which may raise
Respond(q) ==
    /\ request[q].pc \in {"refuse", "reject"} /\ LoopFree
    /\ request' = [request EXCEPT ![q].pc = "end",
                                  ![q].status = IF At(q, "refuse") THEN "401" ELSE "429"]
    /\ UNCHANGED <<facadeVars, backend, spent, cached, metricVars, charged>>

\* The application starts its response, or raises without one
AppStarts(q) ==
    /\ At(q, "app") /\ LoopFree
    /\ \/ request' = [request EXCEPT ![q].pc = "stream", ![q].status = "200"]
       \/ Goto(q, "end")
    /\ UNCHANGED <<facadeVars, backend, spent, cached, metricVars, charged>>

\* The rest of the response was sent, or the application raised in its middle
AppEnds(q) ==
    /\ At(q, "stream") /\ LoopFree
    /\ Goto(q, "end")
    /\ UNCHANGED <<facadeVars, backend, spent, cached, metricVars, charged>>

\* The finally clause
FinalStatusIfAny(r) == IF r.status = None THEN "200" ELSE r.status
FinalStatus(r) == IF r.status = None THEN "error" ELSE r.status

Finally(q) ==
    LET r == request[q]
        s == FinalStatus(r)
    IN  /\ At(q, "end")
        /\ http' = Count(http, <<Label(r.path), s>>)
        /\ request' = [request EXCEPT ![q] = [Settled(r, "done") EXCEPT !.status = s]]
        /\ UNCHANGED <<facadeVars, backend, spent, cached, decisions, charged>>

----------------------------------------------------------------------------
\* History of the requests that are being decided
Disturbed(f(_)) ==
    request' = [q \in Requests |-> IF request[q].pc \in Deciding THEN f(request[q]) ELSE request[q]]

\* The resolver answers with another policy from now on
PolicyChanges(c) ==
    /\ Reconfigure(c)
    /\ Disturbed(LAMBDA r : [r EXCEPT !.steady = FALSE])
    /\ UNCHANGED <<backend, spent, cached, metricVars, charged>>

\* Time passes: windows roll over, buckets refill
TimePasses ==
    /\ Tick
    /\ \E given \in [Keys -> BOOLEAN] :
          spent' = [k \in Keys |-> IF given[k] /\ spent[k] > 0 THEN spent[k] - 1 ELSE spent[k]]
    /\ Disturbed(LAMBDA r : [r EXCEPT !.same = @ /\ backend = "redis"])
    /\ UNCHANGED <<backend, cached, metricVars, charged>>

\* Another worker admits a request of the same client, under a policy of its own
OtherWorker(k) ==
    /\ backend = "redis"
    /\ \E n \in Limits : spent[k] < n
    /\ spent' = [spent EXCEPT ![k] = @ + 1]
    /\ UNCHANGED <<facadeVars, backend, request, cached, metricVars, charged>>

HandleRequest(q) ==
    \/ \E p \in Paths, c \in Clients : Arrive(q, p, c)
    \/ LookUp(q) \/ Reuse(q) \/ Make(q)
    \/ Decide(q) \/ HeaderLimit(q) \/ HeaderRemaining(q) \/ HeaderReset(q)
    \/ ResolutionFails(q) \/ ScriptFails(q)
    \/ Record(q) \/ Respond(q) \/ AppStarts(q) \/ AppEnds(q) \/ Finally(q)

MiddlewareNext ==
    \/ \E q \in Requests : HandleRequest(q)
    \/ \E c \in Configs : PolicyChanges(c)
    \/ TimePasses
    \/ \E k \in Keys : OtherWorker(k)

MiddlewareSpec == MiddlewareInit /\ [][MiddlewareNext]_mwVars

----------------------------------------------------------------------------
NumberOf(P(_)) == Cardinality({q \in Requests : P(request[q])})
\* The units of a counter under every label, and how many they are
Units(counter, x) == UNION {{l} \X (1..counter[<<l, x>>]) : l \in Labels}
Total(counter, x) == Cardinality(Units(counter, x))
Limited(r) == r.path \in Paths /\ ShouldLimit(r.path)

(***************************************************************************)
(* The metrics agree with each other and with what happened, whatever      *)
(* failed on the way: every request that has ended is counted once; a      *)
(* rejection is counted if and only if 429 was, or is about to be, sent;   *)
(* an admission if and only if the request reached the application; so     *)
(* nobody gets there on a limited path without a decision ("enforcement    *)
(* fails closed", README).                                                 *)
(***************************************************************************)
Metered ==
    /\ Total(decisions, "rejected") =
          Total(http, "429") + NumberOf(LAMBDA r : r.pc = "reject" \/ (r.pc = "end" /\ r.status = "429"))
    /\ Total(decisions, "allowed") = NumberOf(LAMBDA r : Limited(r) /\ r.reached)
    /\ \A s \in Statuses : Total(http, s) = NumberOf(LAMBDA r : r.pc = "done" /\ r.status = s)
    /\ Total(http, "200") <= NumberOf(LAMBDA r : r.reached)

(***************************************************************************)
(* Budget is neither given away nor lost silently: each request that was   *)
(* admitted has been charged, through retunes, evictions, expiries and     *)
(* Redis failures; and a charge without an admission belongs to a request  *)
(* that failed after the decision script ran and is counted as an error.   *)
(***************************************************************************)
Admitted == Total(decisions, "allowed") + NumberOf(LAMBDA r : r.allowed)
Failed == NumberOf(LAMBDA r : ~r.reached /\ (r.status = "error" \/ (r.pc = "end" /\ r.status = None)))
BudgetAccounted == Admitted <= charged /\ charged <= Admitted + Failed

(***************************************************************************)
(* The headers of one response fit together although they come from three  *)
(* resolutions and two reads of the limiter: as long as the policy did not *)
(* change while the request was decided, Remaining is at most Limit; and   *)
(* if the limiter's state is still the one that was decided on (in memory: *)
(* no time has passed, in Redis: the limiter object was not replaced), an  *)
(* admitted request leaves less than Limit and a rejected one reports 0.   *)
(***************************************************************************)
HeadersFit ==
    \A q \in Requests :
        LET r == request[q]
        IN  r.pc = "record" /\ r.steady =>
              /\ r.remaining <= r.limit
              /\ r.same => IF r.allowed THEN r.remaining < r.limit ELSE r.remaining = 0
=============================================================================
