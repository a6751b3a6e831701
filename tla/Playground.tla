----------------------------- MODULE Playground -----------------------------
(***************************************************************************)
(* The simulation sessions of app/playground/simulation.py and their       *)
(* endpoints in app/main.py.  The endpoints run on a thread pool: what     *)
(* they do to the registry is guarded by _SESSIONS_LOCK, what they do to a *)
(* session is not, so every assignment of send and reset is a step (an     *)
(* augmented one too: CPython 3.12, the version of the image, changes      *)
(* threads at calls and at the end of loops only).                         *)
(*                                                                         *)
(* Of a session's limiter only the places matter where it has state: the   *)
(* object itself ("" for the memory backend), or its Redis keys, named by  *)
(* their suffix.  A limiter without state admits; any other may reject.    *)
(* Redis calls may fail, before or after they took effect.                 *)
(***************************************************************************)
EXTENDS Integers, Sequences, FiniteSets

CONSTANTS
    Threads,
    Sessions,      \* session ids; uuid4 never repeats one
    Config,        \* id -> what the session is asked to run, <<algorithm, backend>>
    MaxSessions,   \* MAX_SESSIONS
    MaxEvents,     \* MAX_EVENTS
    MaxBurst,      \* MAX_BURST
    MaxRequests    \* simulated requests in all (bound of the model)

Nobody == "nobody"  \* what holds a free lock
None == "none"

ASSUME PlaygroundAssumption ==
    /\ Config \in [Sessions -> {"fixed_window", "sliding_window", "token_bucket", "leaky_bucket"}
                               \X {"memory", "redis"}]
    /\ MaxSessions \in Nat \ {0} /\ MaxEvents \in Nat \ {0}
    /\ MaxBurst \in Nat \ {0} /\ MaxRequests \in Nat
    /\ IsFiniteSet(Threads) /\ Nobody \notin Threads /\ None \notin Sessions

VARIABLES
    sessions,  \* the ids in _SESSIONS
    lock,      \* the thread that holds _SESSIONS_LOCK across steps, or none
    session,   \* id -> the SimSession, NoSession before it is made
    order,     \* the registered and once registered ids by last_access, oldest first
    keys,      \* id -> where its limiter has state
    thread,    \* thread -> what its call is doing
    doomed,    \* history: id -> the keys that were there when their deletion began and
               \* have not been deleted or written again
    scan,      \* where min() is that looks for the session to evict, for whoever has the lock
    released,  \* history: ids closed by a caller, evicted as stale, or used after min()
               \* had read the last_access for which they were evicted
    sent       \* the number of simulated requests that were started

vars == <<sessions, lock, session, order, keys, thread, doomed, scan, released, sent>>

Main == ""  \* no suffix: the object itself, or the first of its Redis keys

\* The keys an algorithm writes
KeysOf(a) ==
    CASE a = "fixed_window" -> {Main}
      [] a = "sliding_window" -> {Main, ":seq"}
      [] a = "token_bucket" -> {Main}
      [] a = "leaky_bucket" -> {Main, ":seq", ":last_leak"}

\* _REDIS_KEY_SUFFIXES as _delete_redis_keys iterates over it: ("") is not a
\* tuple but the empty string, which has no elements
KeySuffixesWithoutSeq(a) ==
    IF a = "sliding_window" THEN <<Main>> ELSE
    IF a = "leaky_bucket" THEN <<Main, ":last_leak">> ELSE <<>>
KeySuffixes(a) ==
    CASE a = "fixed_window" -> <<>>
      [] a = "sliding_window" -> <<Main, ":seq">>
      [] a = "token_bucket" -> <<>>
      [] a = "leaky_bucket" -> <<Main, ":seq", ":last_leak">>

NoSession == [made |-> FALSE, allowed |-> 0, rejected |-> 0,
              requests |-> 0, events |-> 0, cached |-> FALSE]
NewSession == [NoSession EXCEPT !.made = TRUE]

Idle == [pc |-> "idle", op |-> None, s |-> None, left |-> 0, ok |-> FALSE,
         todo |-> <<>>, old |-> FALSE, own |-> None, stale |-> {}]

Algorithm(s) == Config[s][1]
OnRedis(s) == Config[s][2] = "redis"

\* min() has read the last_access of best, has not read that of unread, and of the
\* sessions ahead it would find a smaller one.  late is history: best was used since
NoScan == [best |-> None, unread |-> {}, ahead |-> {}, late |-> FALSE]

AllKeys == {Main, ":seq", ":last_leak"}

TypeOK ==
    /\ sessions \subseteq Sessions
    /\ lock \in Threads \cup {Nobody}
    /\ session \in [Sessions ->
          [made : BOOLEAN, allowed : 0..MaxRequests,
           rejected : 0..MaxRequests, requests : 0..MaxRequests, events : 0..MaxEvents, cached : BOOLEAN]]
    /\ order \in Seq(Sessions)
    /\ keys \in [Sessions -> SUBSET AllKeys]
    /\ thread \in [Threads ->
          [pc : {"idle", "enter", "evict", "delete", "send", "allow", "reads", "tally",
                 "count", "event", "clear", "rebuild", "payload"},
           op : {None, "create", "reset", "close"},
           s : Sessions \cup {None}, left : Nat, ok : BOOLEAN,
           todo : Seq(AllKeys),
           old : BOOLEAN, own : Sessions \cup {None}, stale : SUBSET Sessions]]
    /\ doomed \in [Sessions -> SUBSET AllKeys]
    /\ scan \in [best : Sessions \cup {None}, unread : SUBSET Sessions,
                ahead : SUBSET Sessions, late : BOOLEAN]
    /\ released \subseteq Sessions
    /\ sent \in 0..MaxRequests

Init ==
    /\ sessions = {} /\ lock = Nobody
    /\ session = [s \in Sessions |-> NoSession]
    /\ order = <<>>
    /\ keys = [s \in Sessions |-> {}]
    /\ thread = [t \in Threads |-> Idle]
    /\ doomed = [s \in Sessions |-> {}]
    /\ scan = NoScan
    /\ released = {}
    /\ sent = 0

----------------------------------------------------------------------------
Step(t, pc) == thread' = [thread EXCEPT ![t].pc = pc]
Finish(t) == thread' = [thread EXCEPT ![t] = Idle]

\* The call ends with session_payload(s), or with the same reads in send
Answering(s) == [Idle EXCEPT !.pc = "payload", !.s = s]

\* touch and the other assignments to last_access; nobody looks at that of a
\* session which has left the registry
Position(s) == CHOOSE i \in 1..Len(order) : order[i] = s
MovedLast(s) ==
    [i \in 1..Len(order) |-> IF i < Position(s) THEN order[i]
                             ELSE IF i < Len(order) THEN order[i + 1] ELSE s]
Touch(s) ==
    IF s \in sessions
    THEN /\ order' = MovedLast(s)
         /\ scan' = [scan EXCEPT !.ahead = @ \ {s}, !.late = @ \/ s = scan.best]
    ELSE UNCHANGED <<order, scan>>

\* Redis or the limiter object records ks for s
Write(s, ks) ==
    /\ keys' = [keys EXCEPT ![s] = @ \cup ks]
    /\ doomed' = [doomed EXCEPT ![s] = @ \ ks]
Drop(s, ks) ==
    /\ keys' = [keys EXCEPT ![s] = @ \ ks]
    /\ doomed' = [doomed EXCEPT ![s] = @ \ ks]

\* _delete_redis_keys, called by close and reset
ToDelete(s) == IF OnRedis(s) THEN KeySuffixes(Algorithm(s)) ELSE <<>>
AfterDeletion(call) ==
    CASE call.op = "create" -> [call EXCEPT !.pc = "evict", !.s = None, !.todo = <<>>]
      [] call.op = "reset" -> [call EXCEPT !.pc = "clear", !.todo = <<>>]
      [] call.op = "close" -> Idle

\* A call of t gets hold of s and starts to delete its keys
StartDeleting(t, call, s) ==
    LET started == [call EXCEPT !.pc = "delete", !.s = s, !.todo = ToDelete(s)]
    IN  /\ thread' = [thread EXCEPT ![t] =
              IF started.todo = <<>> THEN AfterDeletion(started) ELSE started]
        /\ doomed' = [doomed EXCEPT ![s] = keys[s]]

DeleteKey(t) ==
    LET call == thread[t]
        rest == Tail(call.todo)
    IN  /\ call.pc = "delete"
        /\ Drop(call.s, {Head(call.todo)})
        /\ thread' = [thread EXCEPT ![t] =
              IF rest = <<>> THEN AfterDeletion(call) ELSE [call EXCEPT !.todo = rest]]
        /\ UNCHANGED <<sessions, lock, session, order, scan, released, sent>>

\* RedisError: close swallows it, reset answers 503 and changes nothing else
DeleteFails(t) ==
    LET call == thread[t]
    IN  /\ call.pc = "delete"
        /\ \/ UNCHANGED keys
           \/ keys' = [keys EXCEPT ![call.s] = @ \ {Head(call.todo)}]
        /\ thread' = [thread EXCEPT ![t] =
              IF call.op = "create" THEN AfterDeletion(call) ELSE Idle]
        /\ doomed' = [doomed EXCEPT ![call.s] = {}]
        /\ UNCHANGED <<sessions, lock, session, order, scan, released, sent>>

----------------------------------------------------------------------------
\* playground_sim_create: valid arguments, and Redis answered the ping if it is
\* needed (otherwise 422 or 503, and nothing has changed)
Create(t, s) ==
    /\ thread[t].pc = "idle"
    /\ ~session[s].made
    /\ session' = [session EXCEPT ![s] = NewSession]
    /\ thread' = [thread EXCEPT ![t] = [Idle EXCEPT !.pc = "enter", !.op = "create", !.own = s]]
    /\ UNCHANGED <<sessions, lock, order, scan, keys, doomed, released, sent>>

\* create_session takes the lock; _evict_stale lists the sessions whose last_access is
\* more than SESSION_TTL_SECONDS ago: how much time has passed is left open
EnterCreate(t) ==
    /\ thread[t].pc = "enter" /\ lock = Nobody
    /\ lock' = t
    /\ \E n \in 0..Len(order) :
          thread' = [thread EXCEPT ![t].pc = "evict",
                                   ![t].stale = {s \in sessions : Position(s) <= n}]
    /\ UNCHANGED <<sessions, session, order, scan, keys, doomed, released, sent>>

Evict(t, s, call) ==
    /\ sessions' = sessions \ {s}
    /\ StartDeleting(t, call, s)
    /\ UNCHANGED <<lock, session, order, keys, sent>>

EvictStale(t) ==
    /\ thread[t].pc = "evict" /\ scan = NoScan
    /\ \E s \in thread[t].stale :
          /\ Evict(t, s, [thread[t] EXCEPT !.stale = @ \ {s}])
          /\ released' = released \cup {s}
    /\ UNCHANGED scan

Full == Cardinality(sessions) >= MaxSessions

\* The sessions whose last_access is greater (for comparison), or smaller
Behind(s) == {r \in sessions : Position(r) > Position(s)}
Ahead(s) == {r \in sessions : Position(r) < Position(s)}
Took(s, unread) == [best |-> s, unread |-> unread, ahead |-> Ahead(s), late |-> FALSE]

\* oldest = min(_SESSIONS.values(), key=...) reads one last_access after the other, and
\* send and reset may write them in between: the first one, and each of the others.
\* In which order the dict has them is left open
StartScan(t) ==
    /\ thread[t].pc = "evict" /\ thread[t].stale = {}
    /\ Full /\ scan = NoScan
    /\ \E s \in sessions : scan' = Took(s, sessions \ {s})
    /\ UNCHANGED <<sessions, lock, session, order, keys, thread, doomed, released, sent>>

LookAt(t) ==
    /\ thread[t].pc = "evict"
    /\ \E s \in scan.unread :
          scan' = IF s \in scan.ahead THEN Took(s, scan.unread \ {s})
                  ELSE [scan EXCEPT !.unread = @ \ {s}]
    /\ UNCHANGED <<sessions, lock, session, order, keys, thread, doomed, released, sent>>

\* _SESSIONS.pop(oldest.session_id, None), then oldest.close()
EvictOldest(t) ==
    /\ thread[t].pc = "evict"
    /\ scan.best \in sessions /\ scan.unread = {}
    /\ Evict(t, scan.best, thread[t])
    /\ scan' = NoScan
    /\ released' = IF scan.late THEN released \cup {scan.best} ELSE released

Register(t) ==
    LET s == thread[t].own
    IN  /\ thread[t].pc = "evict" /\ thread[t].stale = {}
        /\ ~Full
        /\ sessions' = sessions \cup {s}
        /\ order' = Append(order, s)
        /\ lock' = Nobody
        /\ thread' = [thread EXCEPT ![t] = Answering(s)]
        /\ UNCHANGED <<session, scan, keys, doomed, released, sent>>

----------------------------------------------------------------------------
\* get_session of a registered session
Get(t, s) == thread[t].pc = "idle" /\ lock = Nobody /\ s \in sessions

\* 404; close is idempotent
NotFound(t, s) ==
    /\ thread[t].pc = "idle" /\ lock = Nobody /\ s \notin sessions
    /\ UNCHANGED vars

\* playground_sim_request: a count in range, or 422 after the session was touched
Request(t, s, n) ==
    /\ Get(t, s) /\ Touch(s)
    /\ sent + n <= MaxRequests
    /\ sent' = sent + n
    /\ thread' = [thread EXCEPT ![t] =
          [Idle EXCEPT !.pc = "send", !.s = s, !.left = n]]
    /\ UNCHANGED <<sessions, lock, session, keys, doomed, released>>

RequestOutOfRange(t, s) ==
    /\ Get(t, s) /\ Touch(s)
    /\ UNCHANGED <<sessions, lock, session, keys, thread, doomed, released, sent>>

\* playground_sim_state
State(t, s) ==
    /\ Get(t, s) /\ Touch(s)
    /\ thread' = [thread EXCEPT ![t] = Answering(s)]
    /\ UNCHANGED <<sessions, lock, session, keys, doomed, released, sent>>

\* playground_sim_reset
Reset(t, s) ==
    /\ Get(t, s) /\ Touch(s)
    /\ StartDeleting(t, [Idle EXCEPT !.op = "reset", !.left = 1], s)
    /\ UNCHANGED <<sessions, lock, session, keys, released, sent>>

\* close_session of a registered session
Close(t, s) ==
    /\ Get(t, s)
    /\ sessions' = sessions \ {s}
    /\ released' = released \cup {s}
    /\ StartDeleting(t, [Idle EXCEPT !.op = "close"], s)
    /\ UNCHANGED <<lock, session, order, scan, keys, sent>>

----------------------------------------------------------------------------
\* SimSession.send: touch, then the loop
Send(t) ==
    /\ thread[t].pc = "send"
    /\ Touch(thread[t].s)
    /\ Step(t, "allow")
    /\ UNCHANGED <<sessions, lock, session, keys, doomed, released, sent>>

\* What allow_request writes
Recorded(s, ok) ==
    IF ok THEN IF OnRedis(s) THEN KeysOf(Algorithm(s)) ELSE {Main}
    ELSE IF OnRedis(s) /\ Algorithm(s) = "leaky_bucket" THEN {":last_leak"} ELSE {}

\* self.limiter.allow_request(), of the limiter that was there when the call began
Allow(t, ok) ==
    LET s == thread[t].s
    IN  /\ thread[t].pc = "allow"
        /\ \/ /\ thread[t].old
              /\ UNCHANGED <<session, keys, doomed>>
           \/ /\ ~thread[t].old
              /\ Main \notin keys[s] => ok
              /\ Write(s, Recorded(s, ok))
              /\ session' = [session EXCEPT ![s].cached = TRUE]
        /\ thread' = [thread EXCEPT ![t].pc = "reads", ![t].ok = ok, ![t].old = FALSE]
        /\ UNCHANGED <<sessions, lock, order, scan, released, sent>>

\* RedisError: 503, the loop ends
AllowFails(t) ==
    LET s == thread[t].s
    IN  /\ thread[t].pc = "allow" /\ OnRedis(s)
        /\ UNCHANGED <<keys, doomed>> \/ Write(s, Recorded(s, TRUE))
        /\ Finish(t)
        /\ UNCHANGED <<sessions, lock, session, order, scan, released, sent>>

\* remaining_requests and reset_time: without a cached decision the script of the
\* leaky bucket starts its drain clock
Reads(s) ==
    IF OnRedis(s) /\ Algorithm(s) = "leaky_bucket" /\ ~session[s].cached
    THEN Write(s, {":last_leak"})
    ELSE UNCHANGED <<keys, doomed>>

ReadAnswers(t) ==
    /\ thread[t].pc = "reads"
    /\ Reads(thread[t].s)
    /\ Step(t, "tally")
    /\ UNCHANGED <<sessions, lock, session, order, scan, released, sent>>

ReadFails(t) ==
    /\ thread[t].pc = "reads" /\ OnRedis(thread[t].s) /\ ~session[thread[t].s].cached
    /\ UNCHANGED <<keys, doomed>> \/ Reads(thread[t].s)
    /\ Finish(t)
    /\ UNCHANGED <<sessions, lock, session, order, scan, released, sent>>

Store(t, field, value) == session' = [session EXCEPT ![thread[t].s][field] = value]
Increment(t, field) == Store(t, field, session[thread[t].s][field] + 1)

\* self.allowed += 1 or self.rejected += 1
TallyOutcome(t) ==
    /\ thread[t].pc = "tally"
    /\ Increment(t, IF thread[t].ok THEN "allowed" ELSE "rejected")
    /\ thread' = [thread EXCEPT ![t].pc = "count", ![t].ok = FALSE]
    /\ UNCHANGED <<sessions, lock, order, scan, keys, doomed, released, sent>>

\* self.requests += 1
CountRequest(t) ==
    /\ thread[t].pc = "count"
    /\ Increment(t, "requests")
    /\ Step(t, "event")
    /\ UNCHANGED <<sessions, lock, order, scan, keys, doomed, released, sent>>

\* self.events.append(event), a deque with maxlen
EventsPlus(n) == IF n < MaxEvents THEN n + 1 ELSE n

Record(t) ==
    LET call == thread[t]
    IN  /\ call.pc = "event"
        /\ session' = [session EXCEPT ![call.s].events = EventsPlus(@)]
        /\ thread' = [thread EXCEPT ![t] =
              IF call.left = 1 THEN Answering(call.s)
              ELSE [call EXCEPT !.pc = "allow", !.left = call.left - 1]]
        /\ UNCHANGED <<sessions, lock, order, scan, keys, doomed, released, sent>>

\* snapshot and metrics; a RedisError ends the call without an answer
Payload(t) ==
    LET s == thread[t].s
    IN  /\ thread[t].pc = "payload"
        /\ Reads(s) \/ (OnRedis(s) /\ UNCHANGED <<keys, doomed>>)
        /\ Finish(t)
        /\ UNCHANGED <<sessions, lock, session, order, scan, released, sent>>

----------------------------------------------------------------------------
\* SimSession.reset after the keys are gone, one assignment after the other
ClearingBackwards == <<"rejected", "allowed", "requests", "events">>
Clearing == <<"events", "requests", "allowed", "rejected">>

Clear(t) ==
    LET call == thread[t]
    IN  /\ call.pc = "clear"
        /\ Store(t, Clearing[call.left], 0)
        /\ thread' = [thread EXCEPT ![t] =
              IF call.left < Len(Clearing) THEN [call EXCEPT !.left = call.left + 1]
              ELSE [call EXCEPT !.pc = "rebuild", !.left = 0]]
        /\ UNCHANGED <<sessions, lock, order, scan, keys, doomed, released, sent>>

\* The new limiter; calls that are inside the old one stay with it, which for
\* Redis has the same keys
Rebuild(t) ==
    LET s == thread[t].s
    IN  /\ thread[t].pc = "rebuild"
        /\ Touch(s)
        /\ session' = [session EXCEPT ![s].cached = FALSE]
        /\ IF OnRedis(s) THEN UNCHANGED <<keys, doomed>> ELSE Drop(s, {Main})
        /\ thread' = [u \in Threads |->
              IF u = t THEN Answering(s)
              ELSE IF thread[u].pc = "allow" /\ thread[u].s = s /\ ~OnRedis(s)
                   THEN [thread[u] EXCEPT !.old = TRUE] ELSE thread[u]]
        /\ UNCHANGED <<sessions, lock, released, sent>>

----------------------------------------------------------------------------
\* Redis drops keys at their deadline; the read script of the leaky bucket puts off
\* that of :last_leak only
Expire(s) ==
    LET first == keys[s] \ {":last_leak"}
    IN  /\ OnRedis(s) /\ keys[s] # {}
        /\ Drop(s, IF first # {} THEN first ELSE keys[s])
        /\ UNCHANGED <<sessions, lock, session, order, scan, thread, released, sent>>

Next ==
    \/ \E t \in Threads, s \in Sessions :
          \/ Create(t, s)
          \/ \E n \in 1..MaxBurst : Request(t, s, n)
          \/ NotFound(t, s) \/ RequestOutOfRange(t, s)
          \/ State(t, s)
          \/ Reset(t, s)
          \/ Close(t, s)
    \/ \E t \in Threads :
          \/ EnterCreate(t) \/ EvictStale(t) \/ Register(t)
          \/ StartScan(t) \/ LookAt(t) \/ EvictOldest(t)
          \/ DeleteKey(t) \/ DeleteFails(t)
          \/ Send(t)
          \/ \E ok \in BOOLEAN : Allow(t, ok)
          \/ AllowFails(t)
          \/ ReadAnswers(t) \/ ReadFails(t)
          \/ TallyOutcome(t) \/ CountRequest(t) \/ Record(t)
          \/ Payload(t)
          \/ Clear(t) \/ Rebuild(t)
    \/ \E s \in Sessions : Expire(s)

Spec == Init /\ [][Next]_vars

----------------------------------------------------------------------------
At(s, pcs) == \E t \in Threads : thread[t].s = s /\ thread[t].pc \in pcs

(***************************************************************************)
(* The counters of a session are not locked, and a reset may run between   *)
(* any two of send's assignments.  Because send counts the outcome before  *)
(* the request and the request before the event, and reset clears them the *)
(* other way round, a session that comes to rest never shows more outcomes *)
(* than requests (so success_pct is at most 100) and never more requests   *)
(* than it has recorded events, of which it keeps no more than the cap.    *)
(***************************************************************************)
TallyBacked ==
    \A s \in sessions : ~At(s, {"count", "event", "clear"}) =>
        LET x == session[s]
        IN  /\ x.allowed + x.rejected <= x.requests
            /\ x.requests <= x.events \/ x.events = MaxEvents
            /\ x.events <= MaxEvents

(***************************************************************************)
(* "Hard cap so unauthenticated session creation cannot grow the registry  *)
(* [...] the least recently accessed session is closed first": the         *)
(* registry never exceeds the cap, also while creators wait for each       *)
(* other, and the MaxSessions most recently used sessions are in it unless *)
(* someone closed them, they were stale, or they were used after min() had *)
(* read their last_access.  The last case is an exception the comment does *)
(* not make; what is used before min() reads it is safe however many       *)
(* sessions are touched while it reads.                                    *)
(***************************************************************************)
MostRecentKept ==
    /\ Cardinality(sessions) <= MaxSessions
    /\ lock = Nobody => \A i \in 1..Len(order) :
          i + MaxSessions > Len(order) => order[i] \in sessions \cup released

(***************************************************************************)
(* The comment of create_session takes min() and pop() for one step: "the  *)
(* least recently accessed session is closed first", so that no other      *)
(* session has an older last_access at the moment one is closed.           *)
(***************************************************************************)
LeastRecentClosedFirst == [][scan.best \in sessions \ sessions' => Ahead(scan.best) = {}]_vars

Deleting(s) == At(s, {"delete", "clear", "rebuild"})

\* Sessions whose state the code has a way to delete; a memory limiter that left the
\* registry goes with its last user
Deletable(s) == IF OnRedis(s) THEN KeySuffixes(Algorithm(s)) # <<>> ELSE s \in sessions

(***************************************************************************)
(* After a reset, a close or an eviction nothing is left of what the       *)
(* limiter had recorded before: state that is still there was written by a *)
(* call that overtook the deletion, or the deletion was told to have       *)
(* failed.  This holds for the memory backend, and for Redis in the two    *)
(* algorithms whose suffixes are a tuple.                                  *)
(***************************************************************************)
DeletedStateIsGone ==
    \A s \in Sessions : Deletable(s) /\ ~Deleting(s) => doomed[s] = {}

(***************************************************************************)
(* README on key hygiene: "playground runs use namespaced keys and clean   *)
(* them up afterwards": once a session is closed, none of the keys it had  *)
(* before is left.                                                         *)
(***************************************************************************)
KeyHygiene ==
    \A s \in Sessions :
        OnRedis(s) /\ s \in released /\ ~Deleting(s) => doomed[s] = {}
=============================================================================
