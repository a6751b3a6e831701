# RateGuard: TLA+ specifications

RateGuard limits HTTP requests per client and per route. A FastAPI middleware
asks a limiter facade for a decision; the facade keeps one limiter object per
(route, client) and the policy of a route can be changed at run time through an
admin API, on one process (memory backend) or on several that share a Redis.

This directory models the parts where a mistake would be silent: the limiting
algorithms while their policy changes under them, the facade that shares them
between threads, the control plane that stores, audits, caches and spreads
policies, the middleware that composes them on the path of a request, the stores of
API keys and the playground. Paths below are relative to the repository.

## 1. Inventory

| component | state | operations | interacts with | hard part |
|---|---|---|---|---|
| in-process algorithms `app/algorithms/{sliding_window,fixed_window,token_bucket,leaky_bucket}.py` | deque of stamps; counter and window start; tokens and refill time; queue and leak time | `allow_request`, `remaining_requests`, `reset_time` | rewritten in place by `RateLimiter._retune` | policy changes between two calls, lazy expiry, truncation, boundary instants |
| Redis algorithms `app/algorithms/redis_*.py` | zset, counter, hashes with TTLs in Redis | one Lua script per decision | Redis, facade | key expiry against live state, TTL not retuned |
| facade `app/middleware/rate_limiter.py`, `algorithms/factory.py` | ordered map key -> (limiter, stamp), attributes and `_rg_tuned` of limiters | `allow_request`, `remaining_requests`, `reset_time`, `rate_limit_headers`, `_get_limiter`, `_retune` | resolver, algorithms | resolve before lock, use after lock, LRU and TTL eviction |
| policy store and audit `app/policies/{store,audit}.py` | document per route, index set, bounded event trail | `set_with_audit`, `delete_with_audit`, `get`, `list`, audit `list` | Redis or one lock | concurrent writers, lost answers, index pruning, trimming |
| resolver `app/policies/resolver.py` | per-worker TTL cache | `effective`, `resolve`, `invalidate` | store, facade | store read outside the cache lock |
| admin handlers `app/main.py` | none of their own | create, update, delete, list, get | store, resolver | check-then-write, read-merge-write |
| HTTP middleware `app/middleware/rate_limit_middleware.py`, `app/metrics.py` | counters | `__call__`, headers, outcome recording | facade, resolver | several resolutions in one response |
| API keys `app/api_keys.py` | dict and JSON file, or Redis hashes | create, authenticate, list, revoke, delete | file system, Redis | crash between memory and file, revoke racing delete |
| playground `app/playground/simulation.py` | sessions and their counters and Redis keys | create, send, reset, close, evict | algorithms, Redis | concurrent sends, key clean-up, session cap |
| startup configuration `app/config.py`, `app/main.py` | constants | parse and validate | everything | string processing, fails at startup |
| dashboard, benchmarks, monitoring | none | presentation, measurement | HTTP | no protocol state |

What makes each part correct: an algorithm admits no more than its policy
allows over any interval and rejects only who has used the budget up; the facade
gives a client one limiter, tuned to the policy the call resolved, and takes it
away only by its eviction rules; the audit trail replays to the store; a worker
serves a replaced policy for a bounded time only, and finally the stored one; a
withdrawn API key is refused for good, an issued one is not lost; a request reaches a
limited route only by a decision that was charged, whatever fails, and what it is told
and what is counted about it agree.

## 2. Modules

| module | models | composition |
|---|---|---|
| `Limiter` | interface of a limiter, clock, policy pair, `_retune` | extended by all algorithms |
| `SlidingWindow`, `FixedWindow` | the two window algorithms | extend `Limiter` |
| `Bucket` | capacity and rate, and the two assignments of `_retune` | extends `Limiter` |
| `TokenBucket`, `LeakyBucket` | the two bucket algorithms | extend `Bucket` |
| `TokenMeter` | abstract specification: a token bucket that is refilled at every tick | refined by the token bucket |
| `InProcessLimiters`, `MCInProcessLimiters` | `create_rate_limiter` without a storage: one of the four per deployment | extend the four algorithms, instantiate `TokenMeter` |
| `RedisKeys` | what the Redis algorithms share: key deadline, cached decision, new limiter objects | extends `Limiter` |
| `RedisBucket` | the lifetime of the bucket keys and what happens between the scripts | extends `Bucket` and `RedisKeys` |
| `RedisFixedWindow`, `RedisSlidingWindow` | two Redis algorithms | extend `RedisKeys` |
| `RedisTokenBucket`, `RedisLeakyBucket` | the other two | extend `RedisBucket` |
| `RedisLimiters`, `MCRedisLimiters` | `create_rate_limiter` with a storage: one of the four per deployment | instantiates the four |
| `RateLimiter`, `MCRateLimiter` | the facade | the limiter is its attributes; its decisions are the modules above |
| `MCIdleKeys` | the facade with the time since each client was last looked up as history | extends `MCRateLimiter` |
| `Middleware`, `MCMiddleware` | the ASGI middleware, `rate_limit_headers` and the request metrics, on a facade with one thread | extends `RateLimiter` |
| `PolicyModel` | what a valid policy is, request bodies, merge, precedence | extended by `PolicyStore` |
| `PolicyStore` | documents, index, audit trail and its listings | extended by `PolicyControl` |
| `PolicyControl`, `MCPolicyControl` | admin handlers and resolver on top of the store | |
| `ApiKeys` | calls of the key handlers, records, what the world was told | extended by the two stores |
| `ApiKeyFile`, `ApiKeyRedis` | the two API key stores | extend `ApiKeys` |
| `ApiKeyStores`, `MCApiKeyStores` | the choice of a store at startup | extend both stores (names that the two have in common carry `Redis` in `ApiKeyRedis`) |
| `Playground`, `MCPlayground` | sessions, their registry and their endpoints | the limiter is the places where it has state |
| `Limiter_proofs` | lemmas on sequences of times, clocks and integer division | extended by the proofs of the algorithms |
| `Windows_proofs`, `Buckets_proofs`, `RedisLimiters_proofs`, `RateLimiter_proofs`, `PolicyControl_proofs`, `ApiKeys_proofs`, `Playground_proofs` | theorems | extend their component and `TLAPS`; `Windows_proofs` extends `InProcessLimiters` and `Buckets_proofs` extends `Windows_proofs`; `RateLimiter_proofs` extends `Middleware`, and through it the facade; `ApiKeys_proofs` extends `ApiKeyStores`, and through it the two key stores |

**Algorithms.** `now` is `time.monotonic()` in ticks, `SEC` to a second, so the
`int()` truncations of `reset_time` are visible. A call holds the limiter's lock
throughout and is one action; where it reads the clock twice, the second reading
may be up to `MaxLag` ticks later. `Retune` is enabled at any time and takes any
pair of `Limits` and `Windows`, so a call that sees a new limit with an old window
is covered as well. In a bucket the two assignments of `_retune`, capacity and
then rate, are two actions. `log` is a history variable: when requests were
admitted. Bucket quantities are whole numbers of `1/Unit` of a request, chosen so
that every rate is a whole number of parts per tick: the arithmetic of the model
is exact, float rounding is left out. The leaky bucket's deque is its length,
because its stamps are never read. `InProcessLimiters` extends all four, so names
that several have in common carry `Sliding`, `Fixed`, `Token` or `Leaky`. Its variable
`algorithm` is the choice at startup; `limit`, `window`, `now`, `log` and `reply` belong to
the algorithm that was chosen, and the state of the other three never changes.
`TokenMeter` says what a token bucket promises without saying how it is kept: a budget
that grows at every tick, of which an admission takes one, and which looking at does not
change. `token_bucket.py` refills only when it is called; its budget at any moment is what
it would refill to then (`Refilled(now)`).

**Redis algorithms.** A decision is one Lua script and one action; it reads the
server's clock once, so there is no lag inside it. A key is its value and the time
at which Redis drops it (`expires`); expiry is no action of its own, every reader
sees a key whose time has come as missing. `now` is the server's `TIME`, assumed not
to run backwards. Workers share the keys only: `Recreate` stands for a new limiter
object, here or in another worker (the cached decision is lost, the lifetime of a
bucket key is computed anew), `Retune` for a policy change in a live one (the
lifetime is not). That lifetime is `int(capacity / rate)` of floats, which for some
policies (3 per 59 s) falls a second short of the window: `Shortened` is the set of
these policies. Reads come from the cached decision or, before the first one,
from the read script, which prunes and drains as well. Members of a sorted set
are their scores (sliding window) or their number (leaky bucket): the sequence
number in a member's name has a key that is given the same lifetime by the same
script as the set, so members never collide.

**Facade.** A call resolves the policy and reads the clock (`Resolve`), enters the
lock (`Found`, `Created`), retunes in two assignments (`RetuneLimit`,
`RetuneWindow`) and then uses the limiter outside the lock (`Call`). Entries hold
the age of their stamp, since only `now - stamp < key_ttl` is asked, with the `now` that
was read before the wait for the lock; ages are counted up to `KeyTTL + MaxWait`, from
where on an entry has expired for every call, however long it waited. `recency`,
`others` and `replaced` are history. Limiter objects nobody refers to are collected.

**Middleware.** It is synchronous up to its first `await`, so of the requests of a worker
at most one is between `Arrive` and `Record`, and the facade has one thread, the event
loop. That thread never waits for the lock, so `MaxWait` is 0 there. The one request resolves the policy four times: for the decision (`LookUp`,
`Reuse` or `Make`, then `Decide`), for the `Limit` header (`HeaderLimit`), and for each of the
two reads of the limiter (`HeaderRemaining`, `HeaderReset`). Between two steps the policy
may change, time may pass (limiters expire, budget comes back) and another worker may
use the same budget. At every Redis call the request may fail, without effect or after
the decision was charged. `Respond`, `AppStarts` and `AppEnds` are the awaits; `Finally` is
the `finally` of `__call__`. A limiter is the number of requests charged to it (the
algorithms are the modules above): in memory lost with the limiter object, in Redis
kept, with `_cached_remaining` in the object. All limited paths share one policy here.
`steady`, `same`, `reached` and `charged` are history.

**Control plane.** A step of a thread is one store round trip or one section under
the cache lock. `Create`, `Update` and `Delete` are the handlers up to and with
their first store access; a body that `PolicyModel` refuses is answered before it and
changes nothing. `Write` is the audited write (one Lua script, or one locked section in
memory); `Invalidate` drops the cache entry, counts and answers. `Resolve`, `ReadStore`
and `FillCache` are `PolicyResolver.effective`: lookup under the lock, store read outside
it, fill under it; what is cached is the outcome of the precedence (`Effective`).
`PushedOut` is the cap of the cache: resolutions of other paths, which clients choose,
may evict an entry at any time. `List`, `ListGets` and `ListPrune` are the listing with its
index clean-up; each listed route is then resolved. The listings of the trail
(`MemoryListing`, `RedisListing`) change nothing and are operators on the state: the
positions in the trail of the events they show, which are shown newest first. On Redis
a call may fail without effect (`down`) or after it took effect (`lost`). The memory
backend is one process and has neither. `ver`, `stale`, `acked` and `raced` are history;
`operations` and `audited` are the two policy counters, summed over the workers.

**API keys.** A key is its digest; digests are random, so none is drawn twice, and a
client can only present a key whose creation was answered. A call enters the model
with its first access to the store (create when it computes `expires_at`), so a call
that fails before that is not a step. In the file store a locked section is one
action with two outcomes: the dictionary is changed and saved, or changed and not
saved (an exception in `_persist`, answered with 500). `verify` hands out the record
object itself, so `_is_active`, outside the lock, sees a revoke that came in between
(`SeenBy`) but not a delete. `Restart` loses the calls and loads the file. In the
Redis store a pipeline is one action (it is a transaction), `EXISTS` and `HSET` of a
revoke and the commands of a listing are separate ones; a command may fail with or
without having taken effect. `used`, `issued`, `touched`, `withdrawn` and `expiry`
are history: what the world was told.

**Playground.** The registry is guarded by its lock; an eviction holds it across
Redis calls, so `lock` is a variable, while a look-up is one action. Sessions have no
lock: each assignment of `send` and of `reset` is an action (`TallyOutcome`,
`CountRequest`, `Record`; `Clear` takes the fields of `Clearing` one by one). An
augmented assignment is one step, because the CPython 3.12 of the Dockerfile changes
threads only at calls and at the end of loops. `last_access` is only compared, so it
is the order of the accesses; staleness is only asked for by `_evict_stale`, which
finds some oldest part of the registry stale. `min()` reads one `last_access` after the
other (`StartScan`, `LookAt`, in any order, since the order of the dictionary is left open)
before the session goes (`EvictOldest`); `scan` is where it has got to, and `send` and
`reset` may write a `last_access` before, between and after the reads. `keys` is where a limiter has state: the
object (`""`) or the Redis keys by suffix. A limiter without state admits, any other
may do either; the algorithms are the modules above. `doomed` is history: the keys a
deletion has promised to remove.

## 3. Runs

Passing:

| run | shows | bounds |
|---|---|---|
| `in_process` | the four in-process algorithms: their types; the bound on admissions of each (for the fixed window the documented edge burst and nothing more, for the leaky bucket with a named slack); no wrong rejection (for the leaky bucket only above half the rate); reset time within a second; the token bucket refines `TokenMeter` | four policies (limits 1-2, windows of 1-2 s), half-done retunes of buckets visible, two ticks per second, lag of at most a tick, 7 ticks |
| `redis` | the four Redis algorithms: admissions within the most generous policy, no wrong rejection, `Retry-After` (rounded up here) long enough | four policies, one of them with a shortened key lifetime, longest window 4 ticks, 4 ticks |
| `facade` | LRU order, one budget per client unless its limiter was pushed out or expired during a call, limiter tuned to the caller's resolution when the lock is left, no limiter lost except by the eviction rules | 2 threads, 3 keys, 2 slots, `key_ttl` 2 ticks, waits of up to 1 tick for the lock |
| `middleware` | decisions, responses and counters agree and nobody passes undecided; every admission is charged and every lost charge belongs to a failed request; the headers of a response fit together | 2 requests, 4 paths (2 limited), 1 slot, `key_ttl` 1 tick, 2 policies, both backends, both faults |
| `policy` | only valid documents anywhere; audit trail replays to the store, is complete, bounded and readable; counters account for it; a policy is unlisted only after the pruning race; staleness within the TTL and the length of a read; every worker finally serves what is stored | 1 route with a static limit, 2 documents, 3 admin writes, trail of 2 events, scan of at most 2, TTL 2, both backends, both faults, fairness |
| `api_keys` | a key whose revoke or delete was answered is never accepted again; a key that was issued, left alone and has not expired is accepted and listed; both through crashes, failed saves, lost answers and races | 2 keys, 2 callers, lifetimes of 0 and 1 s and none, 2 s, both stores |
| `playground` | counters at rest are consistent although sends and resets interleave; the registry is capped and keeps the most recently used sessions, but for those used after `min()` had read them; deleted limiter state is gone unless a call overtook the deletion or Redis failed | 2 threads, 3 sessions (one on Redis with three keys), cap 2, 2 simulated requests, 1 event |

Disagreements with what the documentation says (expected violations):

| run | documentation | what the code does |
|---|---|---|
| `policy_stale_fill` | README.md:354, updates are immediate on the worker that handled them | a resolver that read before the write fills the cache after the invalidation |
| `policy_slow_read` | README.md:354 and resolver.py:17-18, other workers converge within the cache TTL | the TTL starts when the read of the store comes back, so a document replaced during the read is served for the TTL and the rest of the read (`BoundedStaleness` is what holds) |
| `facade_idle` | rate_limiter.py:13-14, idle keys are evicted; rate_limiter.py:40, the stamp is called `last_seen_monotonic` | a hit puts the entry back with the stamp of its creation, so a client in constant use gets a fresh limiter every `key_ttl` (`StateSurvives` says when) |
| `playground_lru` | simulation.py:374-375, the least recently accessed session is closed first | a session used between `min()` and `pop()` is closed although another one has not been used for longer (`MostRecentKept` makes that exception) |
| `playground_keys` | README.md:134, playground runs clean their keys up | the suffixes of the fixed window and the token bucket are `("")`, a string without elements: no key is deleted on close, reset or eviction |

Others are visible in the passing properties rather than in runs of their own.
`Retry-After` of the in-process algorithms is rounded down (the properties promise admission one
second after it, not at it). `_leak` sets its clock to the present whenever it
removed something and so loses the fraction that had leaked too
(`LeakyRejectsRightly` bounds the cost by half the rate). A write whose answer
is lost is reported as failed although it took effect; `AuditChain`,
`BoundedStaleness` and `Convergence` hold in spite of it. Its audit event is then counted
as an error although it was persisted (metrics.py:112 says "failed to persist");
`CountersMatchTrail` bounds the trail by both counters. Two racing creates of one
route both pass the duplicate check and the second overwrites the first, although
README.md:350 says that duplicates are rejected; an update that read its document before
another write overwrites that write with the fields it read, and one that read before a
delete stores the policy again. `AuditChain` holds all the same: the trail shows what
really happened, it does not prevent it. A call of the facade that resolved the policy
before a change and gets the lock after a newer call tunes the limiter back, until the next
call: `HandedOutAsResolved` speaks of what the call itself resolved.
A listing of the policies prunes a route from the index that was created again after
its GET; the policy is in force but not listed until it is written again
(`UnlistedOnlyByRace` says that nothing else hides it). With a filter a Redis listing of
the trail may come back short or empty although older events match; `HistoryReadable`
says what can be relied on. If the policy is changed while a request is decided, its
`Remaining` may exceed its `Limit`; and a 429 may carry a positive `Remaining`, because
the window rolled over or the limiter was made anew after the decision (`HeadersFit`
holds outside of these two cases). A charge is lost when Redis fails after the decision
(`BudgetAccounted`). Paths in `EXCLUDED_PATHS` are limited when `RATE_LIMIT_ROUTES` names
them, although README.md:464 calls `/metrics` "never rate-limited"; a dynamic policy on such a
path is accepted but `_should_limit` does not look at it. The Redis
fixed window counts rejected requests too, so "raising from 5/min to 10/min lets
exactly five more requests through" (README.md:358) fails for a client that was
rejected before; `RejectedOnlyWhenSpent` therefore promises it the strictest limit
only. A delete of an API key that could not be saved is answered with 500, a second
one with 404, and after a restart the key is back; `WithdrawnStaysOut` speaks of
withdrawals that were answered with success. A revoke in Redis that writes after its
key expired or was deleted leaves a hash of one field, without lifetime (api_keys.py:183
says hashes hold the record and are tracked by the index); with a second key in the
listing the sort by `created_at` fails (`Sortable`). The lifetime of a Redis bucket key is fixed when the limiter object is made and
`_retune` leaves it, so after a slower policy is set the key may expire before the
bucket would be full again; `AdmissionsBounded` bounds what that gives away by
`FullRate`, at which every capacity fits into every key lifetime, even if no single policy
combines them. The Redis leaky bucket keeps its queue and the time of the last drain under
two keys with two deadlines. If the set goes first, what drained until then is gone with
it, and the time under the other key drains the next queue once more: `AdmissionsBounded`
counts the drain and the expiry separately. If the time goes first (a limiter object with a
shorter lifetime read last), what drained since is lost: the cost of a drained request in
`RejectedOnlyWhenSpent` (`LeakCost`) has a term of one lifetime for that, besides the
rounding. These terms allow the two cases, they do not rule them out. A send or reset that
overtakes the deletion of its playground session writes keys nobody deletes; they expire,
and `DeletedStateIsGone` excuses them.

Operators whose name ends in a deviation (`LeftUnclamped`, `DeadlineExtended`,
`AgedNever`, ...) are faulty variants of the operator below them. They are used to
see that the property which should notice the fault does; no specification uses them.

**Why the bounds are enough.** With limits 1 and 2 a limit can be raised and
tightened, with windows of 2 and 4 ticks state pruned under one is judged under the
other; 7 ticks hold nearly two of the longest windows, so expiry, edge bursts and
second admissions after a rejection all happen. In the facade three keys on two
slots force evictions while both threads hold limiters. In the control plane three
writes are what the worst races need (create, delete, and a third that read between
them); a trail of two events is trimmed by the third. TTL 2 distinguishes an
expiring entry from a fresh one. `MaxTime`, `MaxWrites`, `MaxWait` and
`ReadBound` are bounds of the model, not of the code. `ReadBound` stands for the
socket timeouts of `core/redis_client.py`. `ScanFactor`, `ScanFloor` and `ScanCap` are 5, 100
and 500 in the code, scaled down so that a scan can end before the trail does. In the
middleware requests only meet through the facade and the counters: one request prepares
the limiter another one finds, exhausted, evicted, expired or tuned to an older
policy, and other workers add the rest of the load. Two API keys and two callers let one caller
withdraw a key while the other creates, lists or withdraws; lifetimes of 0 and 1
second let a key expire before and during a call. Three playground
sessions on two slots force evictions, a burst of two lets a reset fall between its
requests, and one event fills the event list. In the facade keys and threads, in the
key stores keys and callers, in the playground threads and the in-process sessions
and in the middleware requests are interchangeable (symmetry); the middleware run
identifies states that differ only in the identities of limiter objects (`View` of
`MCMiddleware`), the playground runs with several sessions those that differ only in sessions nobody can
reach (`Visible`), and `in_process` leaves out the state of the algorithms that do not run, which
never changes and which no property looks at (`View` of `MCInProcessLimiters`). The `policy` run, which checks
liveness, uses neither symmetry nor a view. The type invariants of the facade, the Redis
algorithms, the key stores, the playground and the middleware describe their state
and are no part of the runs.
The clock of the algorithms stops at `MaxTime`, so no fairness is assumed there;
calls stay enabled in the last state, so there is no deadlock to excuse.

**Fairness.** The `policy` run assumes weak fairness of the clock and of each
started handler's next step: the server keeps running its threads. No client,
administrator or fault is forced. The property then says that the cached entries
that are served agree with the store from some point on.

## 4. Proofs

All assumptions are the named `ASSUME`s of the modules. Limits and windows are
positive (startup validation and `RoutePolicy` enforce it), `MaxLimit` and
`MinPeriod` (and `MinLimit`, `MinRate`, `MaxRate` for buckets) bound them. The facade
has finitely many threads and, since each entry and each call holds one object at a
time, more object identities than `max_keys` and threads together; that only says that
memory suffices. The middleware serves finitely many requests, since its counters are totals.
The playground too has finitely many threads, none of them is the value
that stands for a free lock, and no session is the one that stands for none. Nothing else is fixed: the results hold for every set of policies,
every clock resolution and every number of calls, clients, threads and workers. The
bounds of the runs that are constants of the specifications (`MaxTime`, `MaxWait`,
`MaxWrites`) may have any value.

- **One of four.** Each in-process algorithm is proved about by itself, for the part of
  the specification that is its own (`SlidingSpec`, `FixedSpec`, `TokenSpec`, `LeakySpec`). A
  behaviour of `InProcessLimiters` keeps its `algorithm`, and if that is the sliding window it is
  a behaviour of `SlidingSpec`, and so on (`SlidingRuns`, `FixedRuns`, `TokenRuns`, `LeakyRuns`);
  the theorems on the composite follow. `TypeCorrect` is about all four at once: the one that
  runs is typed as it is by itself, the others are as they were at the start (`TypeInv`).
- **Sliding window** (`Windows_proofs`). `WindowBound` is not inductive: it
  says nothing about the deque. The invariant adds that the log is ordered and
  that the deque is exactly the recent end of the log while everything forgotten is
  older than `MinPeriod` (`Accounted`). A new admission then finds fewer than `limit`
  stamps in the deque, so the admission `MaxLimit` back has been forgotten.
  `SlidingRejectionsAreRight` follows, because what is rejected finds the deque full.
- **Fixed window** (`Windows_proofs`, the theorems that begin with `Fixed`). The
  invariant (`FixedIInv`) counts two windows: the counter covers the log's end since `window_start`, the window before it held at
  most `MaxLimit`, and what is older lies `MinPeriod` before `window_start`.
- **Token bucket** (`Buckets_proofs`). `BurstBound` needs the tokens in the
  bucket to be part of the budget (`TokensBudgeted`): the admissions since any
  earlier one plus the tokens left never exceed a full bucket and the refill since.
  In the other direction (`NothingLost`) some earlier admission has been paid for by
  at least the strictest load and the slowest refill. `TokenBucketImplementsMeter` maps the
  budget of the meter to `Refilled(now)`: a call finds in the bucket what the meter has
  (`JustRefilled`), a tick adds one tick's worth to both, up to the capacity, however long ago the
  last refill was (`EarnedInATick`), and each half of a `_retune` keeps what the meter lets it keep
  (`RetunedBudget`); every step is then a step of the meter or none (`MeterStep`).
- **Leaky bucket** (`Buckets_proofs`, the second half). The same two sides, with what `_leak` loses:
  `QueueBudgeted` counts what is queued, with the part of a request that was pending
  at the earlier admission as slack. For `LeakyRejectionsBounded` each leak that removes n
  requests has lost less than one more, so no more than n, and twice the queue and the
  slowest drain since the admission that found it empty stay below twice what was
  admitted (`HalfDrained`).
- **Reset times** (`SlidingResetTimeIsRight` and its three likes). No induction over
  steps: given the type invariant, the time advertised and one second later admit.
  For the windows the stamp that has to go is found in the ordered log; for the
  buckets the least tick at which a request fits exists by the least-number principle
  (`LeastNatural`, from the well-foundedness of strict inclusion on finite sets).
- **Redis algorithms** (`RedisLimiters_proofs`), with keys that expire, workers that come
  and go and lifetimes that were not retuned. Further assumptions: `MaxPeriod` bounds the
  windows, `FullRate` is at least `MaxRate` and fills every limit within every lifetime.
  The invariant (`IInv`) is that of the algorithm which is deployed; the bound on
  admissions is part of it, the other two properties are shown by the step that rejects.
  Fixed window (`FixedInv`): some last part of the log was counted since the key was made,
  the rest of the count was rejected, and `MaxLimit` admissions before that part lie a
  shortest window back. Sliding window (`SlidingInv`): the set is the recent end of the
  log, and it outlives every admission by a shortest window. Token bucket (`TokenInv`):
  two balances of the log and the tokens, one from every admission on against a full
  bucket and `FullRate` (`Backed`), one from some admission on against the strictest bucket
  and `MinRate` (`Funded`); an expired key is a full bucket, which `FullRate` pays for.
  Leaky bucket (`LeakyInv`): from every admission on, the log is in the queue, or drained
  until `last_leak`, or expired until a time t that precedes the deadline of the set by a
  lifetime (`Held`); while the set lives, from some admission on what left the queue paid
  for the time that counts as drained (`Drained`), which is the deadline of the set as
  soon as the time of the last drain may be lost before it (`Counts`).
- **Facade** (`RateLimiter_proofs`). `MapInv`: the map is the end of the order of use,
  which has no key twice; `_get_limiter` pops one entry and appends one, so it moves the
  key exactly as the order of use does. `BudgetInv` for `BudgetIsShared` adds what a call
  outside the lock knows (`InHand`): it has seen every key used since its own, so
  its limiter is in the map still, or was replaced in its sight, or at least
  `max_keys` other keys came in between. `RetuneInv` for `LimitersMatchTheirMarks` adds
  that only the holder of the lock is inside `_retune` and that a limiter that differs
  from its mark is the one it is half way through (`HalfWritten`). `LimitersAreKept` is an
  action property, from `MapInv`: an object in the map is in no other entry's hands
  and what nobody refers to is all that is collected. An object that expires is replaced by the
  call that finds it expired, at the time that call read before it waited for the lock.
- **Middleware** (`RateLimiter_proofs`, last part). Every step of the middleware is a step of
  the facade or none, so `RetuneInv` carries over (`MarksHold`). `HeaderInv` for
  `HeadersFitTogether` adds that one request is decided at a time and the facade's call is
  its own (`OneAtATime`, `OnBehalf`), and what the decision leaves behind until the headers
  are read (`DecisionKept`): in memory the budget, as long as no time passes, in Redis the
  answer cached in the limiter object, as long as it is not replaced, whatever other
  workers spend meanwhile. `MeterInv` for `Metered` and `BudgetAccounted` adds what each
  request has been through at the place where it is (`Sound`). Then every total is the size
  of a set of requests that can be told from their local variables, or two totals differ by
  the requests between the increments of two counters (`Agree`), and the charges are the
  admissions counted, those still to be counted and at most those of requests that failed
  (`ChargesAgree`). A step changes the place of one request, so each set by one element
  (`OneDiffers`).
- **Control plane** (`PolicyControl_proofs`), with both backends and all faults.
  `BoundedStaleness` becomes inductive with the types alone, because it bounds entries
  and reads under way together: while an entry grows older by a tick it also
  loses one of its life. `OnlyARaceUnlists` needs that what a listing is about to prune
  is gone or known to be raced (`PruneSeen`). `AuditReplays` restates the trail as a
  chain that ends in the stored documents, kept by appending an event whose
  predecessor is what was stored and by cutting off the front. `CountersAccount` keeps
  a balance (`Balanced`) of the events persisted, those whose handler has not counted
  them yet and the writes under way. `HistoryReadable` needs no induction of its own: a scan of
  the newest events shows what a scan of all of them shows as far as it reaches
  (`ScanShowsAPrefix`), it reaches far enough if nothing is filtered out
  (`ScanIsLongEnough`), and the chain behind `AuditReplays` says that the newest event of a
  route wrote what is stored.
- **API keys in a file** (`ApiKeys_proofs`). `WithdrawnStaysOut` speaks of one
  answer only. The invariant adds that a withdrawal has taken effect in memory and in
  the file before it is answered (`AnswersTrue`, `WithdrawnDisabled`), that whoever looks
  up a withdrawn key holds a disabled record (`BarredHoldDisabled`), and that a key
  still being created is nowhere else (`CreatesFresh`, `UnusedUnknown`), so no create can
  enable it again. `IssuedStaysUsable` is the other side: the record of an issued key
  that nobody tries to withdraw is enabled and has the expiry that was told, in memory
  and in the file since before the answer (`IssuedKept`, `AnswersKept`), and in the hands
  of a create and of a look-up (`CreatesSound`, `ChecksSound`).
- **API keys in Redis** (`ApiKeys_proofs`, second half). There is no lock between the commands
  of a call, so the invariant (`RedisIInv`) says of each key what its hash is (`KeyInv`): none
  before the key is drawn, disabled or none once a withdrawal was answered, and for an issued
  key that is left alone a whole one, listed, which lives at least as long as the key
  (`Stored`). Of each call it says what it knows from the commands behind it (`CallInv`):
  nobody else is about the key that a create is about; a withdrawal whose answer is due has
  left a disabled hash; what a verification read is refused if the key was withdrawn before
  and active if it is owed an acceptance; and every key a listing owes is still to be looked
  at or has been shown (`ListInv`). A step concerns one caller and one key; `AboutOneKey` says
  that it keeps the invariant if these two are as they should be, `QuietHolds` does so for the
  steps that only read. The run's specification starts with either store, and the two
  theorems for it put both invariants together (`ChosenInv`).
- **Playground** (`Playground_proofs`), for every number of threads and sessions, each with any
  algorithm on either backend. `GoneInv` for `DeletionComplete`: an id that is not registered
  yet has no state and no call but the one that makes it (`Unborn`); what a deletion has
  left is on the list of keys of a call that deletes, or, in process, a reset is about to
  replace the limiter (`Covered`); calls that overtake the deletion write state of
  their own and take it off `doomed`. `TallyInv` for `CountersBacked` weighs the counters
  against the calls between two of their assignments: requests are within the events and
  the calls about to record one, outcomes within the requests and the calls about to count
  one, or a reset stands between the two assignments (`BackedFor`). `RegistryInv` for
  `RecentSessionsStay`: the order of last accesses names nobody twice and all who are
  registered (`Ordered`, `Enlisted`), the only call that evicts holds the lock
  (`LockHeld`), and while it does the `MaxSessions - 1` most recent sessions are kept
  (`Kept`). While `min()` reads, whoever is registered and ahead of
  the best so far, unless that one was used since, is still to be read and will be found
  smaller (`Scanned`); so when it ends, nobody is ahead of the one that goes, or that one was
  used after it was read, which is the exception. As many sessions as the cap do not fit
  behind one that has nobody ahead (`Placed`).

Only model-checked: `Convergence`, which is liveness under fairness and out of the
prover's reach. It is the one property of the passing runs that no theorem states. Nothing that
is proved is recursive: sequences are described by their positions, totals by the sizes of
finite sets. The five runs that expect a violation refute documentation and have
nothing to prove.

## 5. Not modelled

The syntax of routes and of `RATE_LIMIT_ROUTES`, the wording and merging of headers,
start-up configuration (strings; it fails before serving), authentication of the
administrator (one comparison of tokens), dashboard, benchmarks and monitoring (no
protocol state), the Redis connection and its key names. Of modelled parts: the latency
histogram, the utilization gauge and the exposition of the metrics, the counter of failed
listings, the numbers shown by the playground's snapshots, calls no handler makes (`set` and `delete`
without audit, `set_policy`, `delete_policy`, `clear`), and float rounding.

## 6. Plan

Every safety property of the runs is proved, and every part of the system that keeps protocol
state is modelled, up to what section 5 leaves out. The store and resolver calls without
audit are the next to model once a handler uses them.
