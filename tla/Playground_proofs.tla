-------------------------- MODULE Playground_proofs --------------------------
(***************************************************************************)
(* Proofs about the sessions of the playground, for every number of        *)
(* threads and sessions and for every algorithm and backend they run.      *)
(*                                                                         *)
(* GoneInv types the state and says that an id nobody has registered yet   *)
(* has no state, and that what a deletion has left is on the list of a     *)
(* call: DeletionComplete.  On top of it, TallyInv compares the counters   *)
(* of a session with the calls that are between two of their assignments   *)
(* (CountersBacked), and RegistryInv the registry with the list of last    *)
(* accesses and with the lock (RecentSessionsStay).  Most actions are of a *)
(* few kinds (Works, Begun, Shrinks), and each kind has its lemma.         *)
(***************************************************************************)
EXTENDS Playground, FiniteSetTheorems, TLAPS

Places == {"idle", "enter", "evict", "delete", "send", "allow", "reads", "tally",
           "count", "event", "clear", "rebuild", "payload"}

\* Where a call uses the session it is for
Working == {"send", "allow", "reads", "tally", "count", "event", "clear", "rebuild", "payload"}

\* What a call keeps track of
Shaped(c) ==
    c \in [pc : Places, op : {None, "create", "reset", "close"},
           s : Sessions \cup {None}, left : Int, ok : BOOLEAN, todo : Seq(AllKeys),
           old : BOOLEAN, own : Sessions \cup {None}, stale : SUBSET Sessions]

\* A call that creates a session and has not registered it yet
Makes(c) == c.pc \in {"enter", "evict"} \/ (c.pc = "delete" /\ c.op = "create")

\* A call that is for a session which is or was registered
Handles(c) == c.pc \in Working \/ (c.pc = "delete" /\ c.op # "create")

Sound(c) ==
    /\ Shaped(c)
    /\ c.pc = "clear" => c.left \in 1..4
    /\ c.pc = "delete" =>
          /\ c.op # None /\ c.todo # <<>> /\ c.s \in Sessions
          /\ c.op = "reset" => c.left = 1
    /\ c.pc \in {"enter", "evict"} => c.op = "create"
    /\ Makes(c) => c.own \in Sessions
    /\ Handles(c) => c.s \in Sessions

\* The places where the limiter of a session can have state
Held(s) == IF OnRedis(s) THEN KeysOf(Algorithm(s)) ELSE {Main}

Records == [made : BOOLEAN, allowed : Nat, rejected : Nat,
            requests : Nat, events : 0..MaxEvents, cached : BOOLEAN]

WellTyped ==
    /\ sessions \subseteq Sessions
    /\ session \in [Sessions -> Records]
    /\ keys \in [Sessions -> SUBSET AllKeys]
    /\ doomed \in [Sessions -> SUBSET AllKeys]
    /\ \A s \in Sessions : keys[s] \subseteq Held(s) /\ doomed[s] \subseteq Held(s)
    /\ thread = [t \in Threads |-> thread[t]]
    /\ \A t \in Threads : Sound(thread[t])

----------------------------------------------------------------------------
\* The two tables, algorithm by algorithm.
LEMMA KeysByAlgorithm ==
    /\ KeysOf("fixed_window") = {Main} /\ KeySuffixes("fixed_window") = <<>>
    /\ KeysOf("token_bucket") = {Main} /\ KeySuffixes("token_bucket") = <<>>
    /\ KeysOf("sliding_window") = {Main, ":seq"}
    /\ KeySuffixes("sliding_window") = <<Main, ":seq">>
    /\ KeysOf("leaky_bucket") = {Main, ":seq", ":last_leak"}
    /\ KeySuffixes("leaky_bucket") = <<Main, ":seq", ":last_leak">>
  BY DEF KeysOf, KeySuffixes

(***************************************************************************)
(* The places by algorithm, and what _delete_redis_keys goes through.      *)
(***************************************************************************)
LEMMA KeyFacts ==
    ASSUME NEW s \in Sessions
    PROVE  /\ Held(s) \subseteq AllKeys
           /\ \A ok \in BOOLEAN : Recorded(s, ok) \subseteq Held(s)
           /\ OnRedis(s) /\ Algorithm(s) = "leaky_bucket" => ":last_leak" \in Held(s)
           /\ ~OnRedis(s) => Held(s) = {Main}
           /\ KeySuffixes(Algorithm(s)) \in Seq(AllKeys)
           /\ OnRedis(s) /\ KeySuffixes(Algorithm(s)) # <<>> =>
                 \A x \in Held(s) : \E i \in 1..Len(KeySuffixes(Algorithm(s))) :
                     KeySuffixes(Algorithm(s))[i] = x
  <1>1. Algorithm(s) \in {"fixed_window", "sliding_window", "token_bucket", "leaky_bucket"}
    <2> DEFINE names == {"fixed_window", "sliding_window", "token_bucket", "leaky_bucket"}
    <2>1. Config[s] \in names \X {"memory", "redis"}
      BY PlaygroundAssumption DEF PlaygroundAssumption
    <2>2. \A x \in names \X {"memory", "redis"} : x[1] \in names
      <3> HIDE DEF names
      <3>1. QED  OBVIOUS
    <2>3. QED  BY <2>1, <2>2 DEF Algorithm
  <1>2. CASE Algorithm(s) \in {"fixed_window", "token_bucket"}
    <2>1. KeysOf(Algorithm(s)) = {Main} /\ KeySuffixes(Algorithm(s)) = <<>>
      BY <1>2, KeysByAlgorithm
    <2>2. Algorithm(s) # "leaky_bucket" /\ Main \in AllKeys /\ <<>> \in Seq(AllKeys)
      BY <1>2 DEF AllKeys
    <2>3. QED  BY <2>1, <2>2 DEF Held, Recorded
  <1>3. CASE Algorithm(s) = "sliding_window"
    <2> DEFINE two == <<Main, ":seq">>
    <2>1. KeySuffixes(Algorithm(s)) = two /\ KeysOf(Algorithm(s)) = {Main, ":seq"}
      BY <1>3, KeysByAlgorithm
    <2>2. two[1] = Main /\ two[2] = ":seq" /\ Len(two) = 2 /\ two \in Seq(AllKeys)
      BY DEF AllKeys
    <2> HIDE DEF two
    <2>3. QED  BY <1>3, <2>1, <2>2 DEF Held, Recorded, AllKeys
  <1>4. CASE Algorithm(s) = "leaky_bucket"
    <2> DEFINE all == <<Main, ":seq", ":last_leak">>
    <2>1. KeySuffixes(Algorithm(s)) = all /\ KeysOf(Algorithm(s)) = AllKeys
      BY <1>4, KeysByAlgorithm DEF AllKeys
    <2>2. /\ all[1] = Main /\ all[2] = ":seq" /\ all[3] = ":last_leak" /\ Len(all) = 3
          /\ all \in Seq(AllKeys)
      BY DEF AllKeys
    <2> HIDE DEF all
    <2>3. QED  BY <1>4, <2>1, <2>2 DEF Held, Recorded, AllKeys
  <1>5. QED  BY <1>1, <1>2, <1>3, <1>4

\* A thread without a call is sound, and so is one that answers.
LEMMA IdleSound == Sound(Idle) /\ Idle.pc = "idle" /\ Idle.s = None /\ Idle.left = 0
                   /\ Idle.op = None /\ Idle.todo = <<>>
  BY DEF Idle, Sound, Shaped, Places, Working, None, Makes, Handles

\* So is one that answers.
LEMMA AnsweringSound ==
    ASSUME NEW s \in Sessions
    PROVE  Sound(Answering(s)) /\ Answering(s).pc = "payload" /\ Answering(s).s = s
  <1> DEFINE a == Answering(s)
  <1>1. a = [[Idle EXCEPT !.pc = "payload"] EXCEPT !.s = s]
    BY DEF Answering
  <1>2. Shaped(Idle)
    BY IdleSound DEF Sound
  <1>3. Shaped(a) /\ a.pc = "payload" /\ a.s = s /\ a.own = Idle.own
    <2> HIDE DEF a
    <2>1. QED  BY <1>1, <1>2 DEF Shaped, Places
  <1> HIDE DEF a
  <1>4. QED  BY <1>3 DEF a, Sound, Working, Makes, Handles

\* What the fields of a call are after a step
Became(d, p, op, s, n, todo, own) ==
    /\ Shaped(d)
    /\ d.pc = p /\ d.op = op /\ d.s = s /\ d.left = n /\ d.todo = todo /\ d.own = own

----------------------------------------------------------------------------
(***************************************************************************)
(* A step of a call on its session s: the call becomes d, the limiter has  *)
(* state in ks afterwards.  Registering and deleting are not of this kind. *)
(***************************************************************************)
Works(t, s, d, ks) ==
    /\ s \in sessions \/ (thread[t].pc \in Working /\ thread[t].s = s)
    /\ sessions' = sessions
    /\ thread' = [thread EXCEPT ![t] = d]
    /\ Sound(d)
    /\ ~Makes(thread[t]) /\ ~Makes(d)
    /\ thread[t].pc \notin {"delete", "rebuild"} /\ d.pc # "delete"
    /\ thread[t].pc = "clear" => d.pc \in {"clear", "rebuild"} /\ d.s = thread[t].s
    /\ d.pc \in Working => d.s = s
    /\ ks \subseteq Held(s)
    /\ Write(s, ks)

\* What a step may do to the counters of sessions
SameMade ==
    /\ session' \in [Sessions -> Records]
    /\ \A s \in Sessions : session'[s].made = session[s].made
SameCounts(s) ==
    /\ session'[s].allowed = session[s].allowed /\ session'[s].rejected = session[s].rejected
    /\ session'[s].requests = session[s].requests /\ session'[s].events = session[s].events

\* A step in which no call counts anything for session s, or resets its counters
Counts(c, s) == c.s = s /\ c.pc \in {"count", "event"}
Calm(s) ==
    \A u \in Threads :
        \/ thread'[u] = thread[u]
        \/ /\ ~Counts(thread[u], s) /\ ~Counts(thread'[u], s)
           /\ thread[u].s = s => thread[u].pc # "clear"

\* The types of a call, and what holds where it stands.
LEMMA CallFacts ==
    ASSUME WellTyped, NEW t \in Threads
    PROVE  /\ Sound(thread[t]) /\ Shaped(thread[t])
           /\ thread[t].pc \in Places /\ thread[t].left \in Int
           /\ thread[t].pc \in Working =>
                 thread[t].s \in Sessions /\ thread[t].pc # "delete" /\ ~Makes(thread[t])
           /\ thread[t].pc = "idle" => ~Makes(thread[t])
  <1>1. Sound(thread[t]) /\ Shaped(thread[t])
    BY DEF WellTyped, Sound
  <1>2. QED  BY <1>1 DEF Sound, Shaped, Handles, Makes, Working

\* A call that ends, or goes on with the session it works on, is sound.
LEMMA GoesOn ==
    ASSUME WellTyped, NEW t \in Threads, NEW s \in Sessions, NEW d,
           NEW p \in {"send", "allow", "reads", "tally", "count", "event", "payload"},
           NEW n, NEW op, NEW todo, NEW own, Became(d, p, op, s, n, todo, own)
    PROVE  Sound(d) /\ d.pc = p /\ d.s = s /\ ~Makes(d) /\ d.pc # "delete"
  BY DEF Became, Sound, Makes, Handles

\* Nothing that is written is the same as writing nothing.
LEMMA NothingWritten ==
    ASSUME WellTyped, NEW s \in Sessions, UNCHANGED <<keys, doomed>>
    PROVE  Write(s, {})
  BY DEF WellTyped, Write

(***************************************************************************)
(* The requests to registered sessions.                                    *)
(***************************************************************************)
LEMMA CallStarts ==
    ASSUME WellTyped, NEW t \in Threads, NEW s \in Sessions,
           \/ \E n \in 1..MaxBurst : Request(t, s, n)
           \/ RequestOutOfRange(t, s)
           \/ State(t, s)
    PROVE  (\E d : Works(t, s, d, {}) /\ d.pc \notin {"count", "event"}) /\ session' = session
  <1>1. /\ thread[t].pc = "idle" /\ s \in sessions /\ sessions' = sessions
        /\ session' = session /\ UNCHANGED <<keys, doomed>>
    BY DEF Request, RequestOutOfRange, State, Get
  <1>2. Write(s, {}) /\ {} \subseteq Held(s)
    BY <1>1, NothingWritten
  <1>3. \E d : /\ thread' = [thread EXCEPT ![t] = d] /\ Sound(d) /\ ~Makes(d)
               /\ d.pc \notin {"delete", "count", "event"} /\ (d.pc \in Working => d.s = s)
    <2>1. CASE \E n \in 1..MaxBurst : Request(t, s, n)
      <3>1. PICK n \in 1..MaxBurst : Request(t, s, n)
        BY <2>1
      <3> DEFINE d == [Idle EXCEPT !.pc = "send", !.s = s, !.left = n]
      <3>2. Became(d, "send", Idle.op, s, n, Idle.todo, Idle.own)
        <4>1. Shaped(Idle) /\ n \in Int /\ "send" \in Places
          BY IdleSound DEF Sound, Places
        <4>2. QED  BY <4>1 DEF Became, Shaped
      <3>3. thread' = [thread EXCEPT ![t] = d]
        BY <3>1 DEF Request
      <3> HIDE DEF d
      <3>4. QED  BY <3>2, <3>3, GoesOn
    <2>2. CASE RequestOutOfRange(t, s)
      <3>1. thread' = [thread EXCEPT ![t] = thread[t]]
        BY <2>2 DEF RequestOutOfRange, WellTyped
      <3>2. QED  BY <1>1, <3>1, CallFacts DEF Working
    <2>3. CASE State(t, s)
      <3>1. thread' = [thread EXCEPT ![t] = Answering(s)]
        BY <2>3 DEF State
      <3>2. QED  BY <3>1, AnsweringSound DEF Makes
    <2>4. QED  BY <2>1, <2>2, <2>3
  <1>4. ~Makes(thread[t])
    BY <1>1, CallFacts
  <1>5. QED  BY <1>1, <1>2, <1>3, <1>4 DEF Works, Working

(***************************************************************************)
(* The steps of send and of the answer that ask the limiter.               *)
(***************************************************************************)
LEMMA LimiterAsked ==
    ASSUME WellTyped, NEW t \in Threads,
           \/ Send(t) \/ AllowFails(t) \/ ReadAnswers(t) \/ ReadFails(t) \/ Payload(t)
           \/ \E ok \in BOOLEAN : Allow(t, ok)
    PROVE  /\ thread[t].s \in Sessions
           /\ \E d, ks : /\ Works(t, thread[t].s, d, ks)
                         /\ thread[t].pc \notin {"count", "event", "clear"}
                         /\ d.pc \notin {"count", "event"}
           /\ SameMade /\ \A x \in Sessions : SameCounts(x)
  <1> DEFINE s == thread[t].s
             c == thread[t]
  <1>1. c.pc \in {"send", "allow", "reads", "payload"} /\ sessions' = sessions
    BY DEF Send, AllowFails, ReadAnswers, ReadFails, Payload, Allow
  <1>2. /\ s \in Sessions /\ c.pc \in Working /\ ~Makes(c) /\ Shaped(c)
        /\ c.pc \notin {"delete", "rebuild", "clear"}
    BY <1>1, CallFacts DEF Working
  <1>3. \E d : /\ thread' = [thread EXCEPT ![t] = d] /\ Sound(d) /\ ~Makes(d)
               /\ d.pc \notin {"delete", "count", "event"} /\ (d.pc \in Working => d.s = s)
    <2>1. CASE AllowFails(t) \/ ReadFails(t) \/ Payload(t)
      <3>1. thread' = [thread EXCEPT ![t] = Idle]
        BY <2>1 DEF AllowFails, ReadFails, Payload, Finish
      <3>2. QED  BY <3>1, IdleSound DEF Makes, Working
    <2>2. CASE Send(t) \/ ReadAnswers(t)
      <3>1. PICK p \in {"allow", "tally"} : thread' = [thread EXCEPT ![t].pc = p]
        BY <2>2 DEF Send, ReadAnswers, Step
      <3> DEFINE d == [c EXCEPT !.pc = p]
      <3>2. Became(d, p, c.op, s, c.left, c.todo, c.own)
        BY <1>2 DEF Places, Shaped, Became
      <3>3. thread' = [thread EXCEPT ![t] = d]
        BY <3>1
      <3> HIDE DEF d, c, s
      <3>4. /\ Sound(d) /\ ~Makes(d) /\ d.s = s
            /\ d.pc \notin {"delete", "count", "event"}
        BY <1>2, <3>2, GoesOn
      <3>5. QED  BY <3>3, <3>4
    <2>3. CASE \E ok \in BOOLEAN : Allow(t, ok)
      <3>1. PICK ok \in BOOLEAN : Allow(t, ok)
        BY <2>3
      <3> DEFINE d == [c EXCEPT !.pc = "reads", !.ok = ok, !.old = FALSE]
      <3>2. Became(d, "reads", c.op, s, c.left, c.todo, c.own)
        BY <1>2 DEF Places, Shaped, Became
      <3>3. thread' = [thread EXCEPT ![t] = d]
        BY <3>1 DEF Allow
      <3> HIDE DEF d, c, s
      <3>4. QED  BY <1>2, <3>2, <3>3, GoesOn
    <2>4. QED  BY <2>1, <2>2, <2>3
  <1>4. \E ks : ks \subseteq Held(s) /\ Write(s, ks)
    <2>1. CASE UNCHANGED <<keys, doomed>>
      BY <1>2, <2>1, NothingWritten
    <2>2. CASE Reads(s)
      BY <1>2, <2>1, <2>2, KeyFacts DEF Reads
    <2>3. CASE \E ok \in BOOLEAN : Write(s, Recorded(s, ok))
      BY <1>2, <2>3, KeyFacts
    <2>4. QED  BY <2>1, <2>2, <2>3 DEF Send, AllowFails, ReadAnswers, ReadFails, Payload, Allow
  <1>5. SameMade /\ \A x \in Sessions : SameCounts(x)
    <2>1. session' = session \/ session' = [session EXCEPT ![s].cached = TRUE]
      BY DEF Send, AllowFails, ReadAnswers, ReadFails, Payload, Allow
    <2>2. session \in [Sessions -> Records]
      BY DEF WellTyped
    <2>3. s \in Sessions
      BY <1>2
    <2> HIDE DEF s, c
    <2>4. CASE session' = session
      BY <2>2, <2>4 DEF SameMade, SameCounts
    <2>5. CASE session' = [session EXCEPT ![s].cached = TRUE]
      <3>1. session' \in [Sessions -> Records]
        BY <2>2, <2>3, <2>5 DEF Records
      <3>2. \A x \in Sessions : session'[x].made = session[x].made
        BY <2>2, <2>3, <2>5 DEF Records
      <3>3. \A x \in Sessions : SameCounts(x)
        BY <2>2, <2>3, <2>5 DEF Records, SameCounts
      <3>4. QED  BY <3>1, <3>2, <3>3 DEF SameMade
    <2>6. QED  BY <2>1, <2>4, <2>5
  <1> HIDE DEF s, c
  <1>6. QED  BY <1>1, <1>2, <1>3, <1>4, <1>5 DEF Works, s, c

----------------------------------------------------------------------------
(***************************************************************************)
(* The steps that count, one lemma for each: where the call stands, what   *)
(* becomes of it, and the one assignment.                                  *)
(***************************************************************************)
LEMMA CountingMoves ==
    ASSUME WellTyped, NEW t \in Threads, NEW d, NEW s, s = thread[t].s,
           thread[t].pc \in {"tally", "count", "event", "clear"},
           thread' = [thread EXCEPT ![t] = d], Sound(d), d.s = s, d.pc \in Working,
           thread[t].pc = "clear" => d.pc \in {"clear", "rebuild"},
           UNCHANGED <<sessions, keys, doomed>>
    PROVE  s \in Sessions /\ Works(t, s, d, {})
  <1>1. s \in Sessions /\ ~Makes(thread[t]) /\ thread[t].pc \in Working
    BY CallFacts DEF Working
  <1>2. ~Makes(d) /\ d.pc # "delete"
    BY DEF Makes, Working
  <1>3. Write(s, {})
    BY <1>1, NothingWritten
  <1>4. QED  BY <1>1, <1>2, <1>3 DEF Works

\* self.allowed += 1, or self.rejected += 1.
LEMMA OutcomeCounted ==
    ASSUME WellTyped, NEW t \in Threads, TallyOutcome(t)
    PROVE  LET s == thread[t].s IN
           /\ thread[t].pc = "tally" /\ s \in Sessions
           /\ \E d : Works(t, s, d, {}) /\ d.pc = "count" /\ d.s = s
           /\ \/ session' = [session EXCEPT ![s].allowed = session[s].allowed + 1]
              \/ session' = [session EXCEPT ![s].rejected = session[s].rejected + 1]
  <1> DEFINE s == thread[t].s
             c == thread[t]
             d == [c EXCEPT !.pc = "count", !.ok = FALSE]
  <1>1. c.pc = "tally" /\ Shaped(c) /\ s \in Sessions
    BY CallFacts DEF TallyOutcome, Working
  <1>2. Became(d, "count", c.op, s, c.left, c.todo, c.own)
    BY <1>1 DEF Shaped, Became, Places
  <1>3. thread' = [thread EXCEPT ![t] = d] /\ UNCHANGED <<sessions, keys, doomed>>
    BY DEF TallyOutcome
  <1>4. \/ session' = [session EXCEPT ![s].allowed = session[s].allowed + 1]
        \/ session' = [session EXCEPT ![s].rejected = session[s].rejected + 1]
    BY DEF TallyOutcome, Increment, Store
  <1> HIDE DEF d, c
  <1>5. Sound(d) /\ d.pc = "count" /\ d.s = s
    BY <1>1, <1>2, GoesOn
  <1>6. Works(t, s, d, {})
    BY <1>1, <1>3, <1>5, CountingMoves DEF c, Working
  <1>7. QED  BY <1>1, <1>4, <1>5, <1>6 DEF c

\* self.requests += 1.
LEMMA RequestCounted ==
    ASSUME WellTyped, NEW t \in Threads, CountRequest(t)
    PROVE  LET s == thread[t].s IN
           /\ thread[t].pc = "count" /\ s \in Sessions
           /\ \E d : Works(t, s, d, {}) /\ d.pc = "event" /\ d.s = s
           /\ session' = [session EXCEPT ![s].requests = session[s].requests + 1]
  <1> DEFINE s == thread[t].s
             c == thread[t]
             d == [c EXCEPT !.pc = "event"]
  <1>1. c.pc = "count" /\ Shaped(c) /\ s \in Sessions
    BY CallFacts DEF CountRequest, Working
  <1>2. Became(d, "event", c.op, s, c.left, c.todo, c.own)
    BY <1>1 DEF Shaped, Became, Places
  <1>3. thread' = [thread EXCEPT ![t] = d] /\ UNCHANGED <<sessions, keys, doomed>>
    BY DEF CountRequest, Step
  <1>4. session' = [session EXCEPT ![s].requests = session[s].requests + 1]
    BY DEF CountRequest, Increment, Store
  <1> HIDE DEF d, c
  <1>5. Sound(d) /\ d.pc = "event" /\ d.s = s
    BY <1>1, <1>2, GoesOn
  <1>6. Works(t, s, d, {})
    BY <1>1, <1>3, <1>5, CountingMoves DEF c, Working
  <1>7. QED  BY <1>1, <1>4, <1>5, <1>6 DEF c

\* self.events.append, and the next request or the answer.
LEMMA EventRecorded ==
    ASSUME WellTyped, NEW t \in Threads, Record(t)
    PROVE  LET s == thread[t].s IN
           /\ thread[t].pc = "event" /\ s \in Sessions
           /\ \E d : Works(t, s, d, {}) /\ d.pc \in {"payload", "allow"} /\ d.s = s
           /\ session' = [session EXCEPT ![s].events = EventsPlus(session[s].events)]
  <1> DEFINE s == thread[t].s
             c == thread[t]
             on == [c EXCEPT !.pc = "allow", !.left = c.left - 1]
  <1>1. c.pc = "event" /\ Shaped(c) /\ s \in Sessions /\ c.left \in Int
    BY CallFacts DEF Record, Working
  <1>2. Became(on, "allow", c.op, s, c.left - 1, c.todo, c.own)
    <2>1. c.left - 1 \in Int
      BY <1>1
    <2>2. QED  BY <1>1, <2>1 DEF Shaped, Became, Places
  <1>3. PICK d \in {Answering(s), on} :
            thread' = [thread EXCEPT ![t] = d] /\ UNCHANGED <<sessions, keys, doomed>>
    <2>1. thread' = [thread EXCEPT ![t] = IF c.left = 1 THEN Answering(s) ELSE on]
      BY DEF Record
    <2>2. UNCHANGED <<sessions, keys, doomed>>
      BY DEF Record
    <2> HIDE DEF on, c
    <2>3. QED  BY <2>1, <2>2
  <1>4. session' = [session EXCEPT ![s].events = EventsPlus(session[s].events)]
    BY DEF Record
  <1> HIDE DEF on, c
  <1>5. Sound(on) /\ on.pc = "allow" /\ on.s = s
    BY <1>1, <1>2, GoesOn
  <1>6. Sound(d) /\ d.pc \in {"payload", "allow"} /\ d.s = s
    BY <1>1, <1>3, <1>5, AnsweringSound
  <1>7. Works(t, s, d, {})
    BY <1>1, <1>3, <1>6, CountingMoves DEF c, Working
  <1>8. QED  BY <1>1, <1>4, <1>6, <1>7 DEF c

\* The four assignments of reset, in their order.
LEMMA Cleared ==
    ASSUME WellTyped, NEW t \in Threads, Clear(t)
    PROVE  LET s == thread[t].s
               n == thread[t].left IN
           /\ thread[t].pc = "clear" /\ s \in Sessions /\ n \in 1..4
           /\ \E d : /\ Works(t, s, d, {}) /\ d.s = s
                     /\ IF n < 4 THEN d.pc = "clear" /\ d.left = n + 1 ELSE d.pc = "rebuild"
           /\ n = 1 => session' = [session EXCEPT ![s].events = 0]
           /\ n = 2 => session' = [session EXCEPT ![s].requests = 0]
           /\ n = 3 => session' = [session EXCEPT ![s].allowed = 0]
           /\ n = 4 => session' = [session EXCEPT ![s].rejected = 0]
  <1> DEFINE s == thread[t].s
             c == thread[t]
             n == c.left
             next == [c EXCEPT !.left = n + 1]
             last == [c EXCEPT !.pc = "rebuild", !.left = 0]
  <1>1. /\ c.pc = "clear" /\ Shaped(c) /\ s \in Sessions /\ n \in 1..4
        /\ UNCHANGED <<sessions, keys, doomed>>
    BY CallFacts DEF Clear, Working, Sound
  <1>2. /\ Clearing[1] = "events" /\ Clearing[2] = "requests"
        /\ Clearing[3] = "allowed" /\ Clearing[4] = "rejected" /\ Len(Clearing) = 4
    BY DEF Clearing
  <1>3. session' = [session EXCEPT ![s][Clearing[n]] = 0]
    BY DEF Clear, Store
  <1>4. /\ n = 1 => session' = [session EXCEPT ![s].events = 0]
        /\ n = 2 => session' = [session EXCEPT ![s].requests = 0]
        /\ n = 3 => session' = [session EXCEPT ![s].allowed = 0]
        /\ n = 4 => session' = [session EXCEPT ![s].rejected = 0]
    BY <1>2, <1>3
  <1>5. \E d : /\ thread' = [thread EXCEPT ![t] = d] /\ Sound(d) /\ d.s = s
               /\ IF n < 4 THEN d.pc = "clear" /\ d.left = n + 1 ELSE d.pc = "rebuild"
    <2>1. CASE n < 4
      <3>1. n + 1 \in 1..4
        BY <1>1, <2>1
      <3>2. Became(next, "clear", c.op, s, n + 1, c.todo, c.own)
        BY <1>1, <3>1 DEF Shaped, Became, Places
      <3>3. thread' = [thread EXCEPT ![t] = next]
        <4>1. thread' = [thread EXCEPT ![t] =
                            IF n < Len(Clearing) THEN next ELSE last]
          BY DEF Clear
        <4> HIDE DEF next, last, n
        <4>2. QED  BY <1>2, <2>1, <4>1
      <3> HIDE DEF next, s, n
      <3>4. Sound(next)
        BY <1>1, <3>1, <3>2 DEF Became, Sound, Makes, Handles
      <3>5. QED  BY <2>1, <3>2, <3>3, <3>4 DEF Became
    <2>2. CASE ~(n < 4)
      <3>1. Became(last, "rebuild", c.op, s, 0, c.todo, c.own)
        <4>1. \A m \in Int : Became([c EXCEPT !.pc = "rebuild", !.left = m],
                                    "rebuild", c.op, s, m, c.todo, c.own)
          BY <1>1 DEF Shaped, Became, Places
        <4>2. 0 \in Int
          OBVIOUS
        <4>3. QED  BY <4>1, <4>2, Zenon
      <3>2. thread' = [thread EXCEPT ![t] = last]
        <4>1. thread' = [thread EXCEPT ![t] =
                            IF n < Len(Clearing) THEN next ELSE last]
          BY DEF Clear
        <4> HIDE DEF next, last, n
        <4>2. QED  BY <1>2, <2>2, <4>1
      <3> HIDE DEF last, s, n
      <3>3. Sound(last)
        BY <1>1, <3>1 DEF Became, Sound, Makes, Handles
      <3>4. QED  BY <2>2, <3>1, <3>2, <3>3 DEF Became
    <2>3. QED  BY <2>1, <2>2
  <1>6. PICK d : /\ thread' = [thread EXCEPT ![t] = d] /\ Sound(d) /\ d.s = s
                 /\ IF n < 4 THEN d.pc = "clear" /\ d.left = n + 1 ELSE d.pc = "rebuild"
    BY <1>5
  <1>7. Works(t, s, d, {})
    BY <1>1, <1>6, CountingMoves DEF Working
  <1>8. QED  BY <1>1, <1>4, <1>6, <1>7

----------------------------------------------------------------------------
(***************************************************************************)
(* An id that is not registered yet belongs to nobody but the call that    *)
(* will register it: nothing is stored for it, and no call handles it.     *)
(***************************************************************************)
Untouched(s) ==
    /\ s \notin sessions /\ keys[s] = {} /\ doomed[s] = {}
    /\ \A t \in Threads : thread[t].s = s => ~Handles(thread[t])

Unborn ==
    /\ \A s \in Sessions : ~session[s].made =>
          Untouched(s) /\ \A t \in Threads : Makes(thread[t]) => thread[t].own # s
    /\ \A t \in Threads : Makes(thread[t]) => Untouched(thread[t].own)
    /\ \A t, u \in Threads :
          Makes(thread[t]) /\ Makes(thread[u]) /\ thread[t].own = thread[u].own => t = u

(***************************************************************************)
(* What is left of a deletion is still on the list of a call that deletes, *)
(* or a reset of the session in process is under way.                      *)
(***************************************************************************)
Deletes(c, s, ks) ==
    /\ c.pc = "delete" /\ c.s = s
    /\ \A x \in ks : \E i \in 1..Len(c.todo) : c.todo[i] = x
Resets(c, s) == c.pc \in {"clear", "rebuild"} /\ c.s = s

Covered(s) ==
    doomed[s] # {} =>
        IF OnRedis(s)
        THEN KeySuffixes(Algorithm(s)) # <<>> =>
                 \E t \in Threads : Deletes(thread[t], s, doomed[s])
        ELSE s \in sessions => \E t \in Threads : Resets(thread[t], s)

GoneInv == WellTyped /\ Unborn /\ \A s \in Sessions : Covered(s)

\* One call changes.
LEMMA OneMoves ==
    ASSUME WellTyped, NEW t \in Threads, NEW d, thread' = [thread EXCEPT ![t] = d], Sound(d)
    PROVE  /\ thread' = [u \in Threads |-> thread'[u]]
           /\ thread'[t] = d
           /\ \A u \in Threads \ {t} : thread'[u] = thread[u]
           /\ \A u \in Threads : Sound(thread'[u])
  <1>1. thread = [u \in Threads |-> thread[u]] /\ \A u \in Threads : Sound(thread[u])
    BY DEF WellTyped
  <1>2. /\ thread' = [u \in Threads |-> thread'[u]]
        /\ thread'[t] = d
        /\ \A u \in Threads \ {t} : thread'[u] = thread[u]
    BY <1>1
  <1>3. QED  BY <1>1, <1>2

\* The call that creates a session holds the lock from the time it has entered.
Locks(c) == Makes(c) /\ c.pc # "enter"

SameMakers ==
    \A u \in Threads :
        /\ Makes(thread'[u]) <=> Makes(thread[u])
        /\ Makes(thread[u]) => thread'[u].own = thread[u].own
        /\ Locks(thread'[u]) <=> Locks(thread[u])

\* A step that does not enter or leave create_session.
LEMMA MakersMove ==
    ASSUME WellTyped, NEW t \in Threads, NEW d, thread' = [thread EXCEPT ![t] = d], Sound(d),
           Makes(d) <=> Makes(thread[t]), Makes(d) => d.own = thread[t].own,
           thread[t].pc # "enter", d.pc # "enter"
    PROVE  SameMakers
  BY OneMoves DEF SameMakers, Locks

\* It neither counts nor clears, and does not start to count.
LEMMA CalmMove ==
    ASSUME WellTyped, NEW t \in Threads, NEW d, thread' = [thread EXCEPT ![t] = d], Sound(d),
           thread[t].pc \notin {"count", "event", "clear"}, d.pc \notin {"count", "event"}
    PROVE  \A s : Calm(s)
  BY OneMoves DEF Calm, Counts

\* What is written and what goes, session by session.
LEMMA WrittenIs ==
    ASSUME WellTyped, NEW s \in Sessions, NEW ks
    PROVE  /\ Write(s, ks) => /\ keys' = [keys EXCEPT ![s] = keys[s] \cup ks]
                              /\ keys'[s] = keys[s] \cup ks
                              /\ doomed' = [doomed EXCEPT ![s] = doomed[s] \ ks]
                              /\ doomed'[s] = doomed[s] \ ks
           /\ Drop(s, ks) => /\ keys' = [keys EXCEPT ![s] = keys[s] \ ks]
                             /\ keys'[s] = keys[s] \ ks
                             /\ doomed' = [doomed EXCEPT ![s] = doomed[s] \ ks]
                             /\ doomed'[s] = doomed[s] \ ks
           /\ Write(s, ks) \/ Drop(s, ks) =>
                 \A x \in Sessions \ {s} : keys'[x] = keys[x] /\ doomed'[x] = doomed[x]
  BY DEF WellTyped, Write, Drop

\* Places stay places.
LEMMA WritingTyped ==
    ASSUME WellTyped, NEW s \in Sessions, NEW ks, ks \subseteq Held(s),
           Write(s, ks) \/ Drop(s, ks)
    PROVE  /\ keys' \in [Sessions -> SUBSET AllKeys]
           /\ doomed' \in [Sessions -> SUBSET AllKeys]
           /\ \A x \in Sessions : keys'[x] \subseteq Held(x) /\ doomed'[x] \subseteq Held(x)
  <1>1. /\ keys \in [Sessions -> SUBSET AllKeys] /\ doomed \in [Sessions -> SUBSET AllKeys]
        /\ \A x \in Sessions : keys[x] \subseteq Held(x) /\ doomed[x] \subseteq Held(x)
        /\ Held(s) \subseteq AllKeys
    BY KeyFacts DEF WellTyped
  <1>2. /\ keys' \in [Sessions -> SUBSET AllKeys] /\ doomed' \in [Sessions -> SUBSET AllKeys]
        /\ keys'[s] \subseteq keys[s] \cup ks /\ doomed'[s] \subseteq doomed[s]
    BY <1>1 DEF Write, Drop
  <1>3. \A x \in Sessions \ {s} : keys'[x] = keys[x] /\ doomed'[x] = doomed[x]
    BY WrittenIs
  <1>4. QED  BY <1>1, <1>2, <1>3

(***************************************************************************)
(* A step of a call on its session preserves the three parts.              *)
(***************************************************************************)
LEMMA WorksHolds ==
    ASSUME GoneInv, NEW t \in Threads, NEW s \in Sessions, NEW d, NEW ks,
           Works(t, s, d, ks), SameMade
    PROVE  GoneInv'
  <1>1. /\ WellTyped /\ thread' = [thread EXCEPT ![t] = d] /\ Sound(d)
        /\ sessions' = sessions /\ ks \subseteq Held(s) /\ Write(s, ks)
    BY DEF GoneInv, Works
  <1>2. /\ thread' = [u \in Threads |-> thread'[u]]
        /\ thread'[t] = d
        /\ \A u \in Threads \ {t} : thread'[u] = thread[u]
        /\ \A u \in Threads : Sound(thread'[u])
    BY <1>1, OneMoves
  <1>3. /\ \A x \in Sessions \ {s} : keys'[x] = keys[x] /\ doomed'[x] = doomed[x]
        /\ doomed'[s] = doomed[s] \ ks
    BY <1>1, WrittenIs
  <1>4. WellTyped'
    <2>1. /\ keys' \in [Sessions -> SUBSET AllKeys]
          /\ doomed' \in [Sessions -> SUBSET AllKeys]
          /\ \A x \in Sessions : keys'[x] \subseteq Held(x) /\ doomed'[x] \subseteq Held(x)
      BY <1>1, WritingTyped
    <2>2. session' \in [Sessions -> Records] /\ sessions' \subseteq Sessions
      BY <1>1 DEF SameMade, WellTyped
    <2>3. QED  BY <1>2, <2>1, <2>2 DEF WellTyped
  <1>5. Unborn'
    <2>1. /\ ~Makes(thread[t]) /\ ~Makes(d) /\ (Handles(d) => d.s = s)
          /\ s \in sessions \/ (Handles(thread[t]) /\ thread[t].s = s)
      BY DEF Works, Handles
    <2>2. \A x : Untouched(x) => x # s
      BY <2>1 DEF Untouched
    <2>3. \A x \in Sessions : Untouched(x) => Untouched(x)'
      BY <1>1, <1>2, <1>3, <2>1, <2>2 DEF Untouched
    <2>4. \A u \in Threads : Makes(thread'[u]) => u # t /\ thread'[u] = thread[u]
      BY <1>2, <2>1
    <2>5. \A u \in Threads : Makes(thread[u]) => thread[u].own \in Sessions
      BY <1>1 DEF WellTyped, Sound
    <2>6. Unborn /\ \A x \in Sessions : session'[x].made = session[x].made
      BY DEF GoneInv, SameMade
    <2>7. QED  BY <2>3, <2>4, <2>5, <2>6 DEF Unborn
  <1>6. ASSUME NEW x \in Sessions PROVE Covered(x)'
    <2>1. doomed'[x] \subseteq doomed[x] /\ Covered(x)
      BY <1>3 DEF GoneInv
    <2>2. \A u \in Threads : Deletes(thread[u], x, doomed[x]) => Deletes(thread'[u], x, doomed'[x])
      <3>1. thread[t].pc # "delete"
        BY DEF Works
      <3>2. QED  BY <1>2, <2>1, <3>1 DEF Deletes
    <2>3. \A u \in Threads : Resets(thread[u], x) => Resets(thread'[u], x)
      <3>1. thread[t].pc # "rebuild" /\
            (thread[t].pc = "clear" => d.pc \in {"clear", "rebuild"} /\ d.s = thread[t].s)
        BY DEF Works
      <3>2. QED  BY <1>2, <3>1 DEF Resets
    <2>4. QED  BY <1>1, <2>1, <2>2, <2>3 DEF Covered
  <1>7. QED  BY <1>4, <1>5, <1>6 DEF GoneInv

----------------------------------------------------------------------------
\* A session starts with nothing counted.
LEMMA NewFacts ==
    /\ NoSession \in Records /\ ~NoSession.made
    /\ NewSession \in Records /\ NewSession.made
    /\ NewSession.allowed = 0 /\ NewSession.rejected = 0
    /\ NewSession.requests = 0 /\ NewSession.events = 0
  <1>1. 0 \in Nat /\ 0 \in 0..MaxEvents /\ FALSE \in BOOLEAN
    BY PlaygroundAssumption DEF PlaygroundAssumption
  <1>2. \A n \in 0..MaxEvents, m \in Nat :
            [made |-> FALSE, allowed |-> m, rejected |-> m,
             requests |-> m, events |-> n, cached |-> FALSE] \in Records
    BY DEF Records
  <1>3. NoSession \in Records
    BY <1>1, <1>2, Zenon DEF NoSession
  <1>4. NoSession.made = FALSE /\ NoSession.allowed = 0 /\ NoSession.rejected = 0
        /\ NoSession.requests = 0 /\ NoSession.events = 0
    BY DEF NoSession
  <1>5. NewSession \in Records /\ NewSession.made = TRUE
        /\ NewSession.allowed = NoSession.allowed /\ NewSession.rejected = NoSession.rejected
        /\ NewSession.requests = NoSession.requests /\ NewSession.events = NoSession.events
    BY <1>3 DEF NewSession, Records
  <1>6. QED  BY <1>3, <1>4, <1>5

(***************************************************************************)
(* The three steps of create_session that do not delete.                   *)
(***************************************************************************)
LEMMA CreateHolds ==
    ASSUME GoneInv, NEW t \in Threads, NEW s \in Sessions, Create(t, s)
    PROVE  /\ GoneInv' /\ \A x : Calm(x)
           /\ session'[s] = NewSession
           /\ \A x \in Sessions \ {s} : session'[x] = session[x]
  <1> DEFINE d == [Idle EXCEPT !.pc = "enter", !.op = "create", !.own = s]
  <1>1. /\ WellTyped /\ thread' = [thread EXCEPT ![t] = d]
        /\ session' = [session EXCEPT ![s] = NewSession] /\ ~session[s].made
        /\ UNCHANGED <<sessions, keys, doomed>> /\ thread[t].pc = "idle"
    BY DEF GoneInv, Create
  <1>2. /\ Shaped(d) /\ d.pc = "enter" /\ d.op = "create" /\ d.own = s
    <2>1. Shaped(Idle)
      BY IdleSound DEF Sound
    <2>2. QED  BY <2>1 DEF Shaped, Places
  <1> HIDE DEF d
  <1>3. Sound(d) /\ Makes(d) /\ ~Handles(d)
    BY <1>2 DEF Sound, Makes, Handles, Working
  <1>4. /\ thread' = [u \in Threads |-> thread'[u]]
        /\ thread'[t] = d
        /\ \A u \in Threads \ {t} : thread'[u] = thread[u]
        /\ \A u \in Threads : Sound(thread'[u])
    BY <1>1, <1>3, OneMoves
  <1>5. /\ session' \in [Sessions -> Records] /\ session'[s].made
        /\ session'[s] = NewSession
        /\ \A x \in Sessions \ {s} : session'[x] = session[x]
    <2>1. NewSession \in Records /\ NewSession.made
      BY NewFacts
    <2>2. session \in [Sessions -> Records]
      BY <1>1 DEF WellTyped
    <2>3. QED  BY <1>1, <2>1, <2>2
  <1>6. WellTyped'
    BY <1>1, <1>4, <1>5 DEF WellTyped
  <1>7. Unborn'
    <2>1. \A x : Untouched(x) => Untouched(x)'
      BY <1>1, <1>3, <1>4 DEF Untouched
    <2>2. Unborn
      BY DEF GoneInv
    <2>3. /\ Untouched(s) /\ \A u \in Threads : Makes(thread[u]) => thread[u].own # s
      BY <1>1, <2>2 DEF Unborn
    <2>4. \A x \in Sessions : ~session'[x].made =>
              x # s /\ Untouched(x) /\ \A u \in Threads : Makes(thread[u]) => thread[u].own # x
      BY <1>5, <2>2 DEF Unborn
    <2>5. \A u \in Threads : Makes(thread'[u]) =>
              \/ u = t /\ thread'[u].own = s
              \/ u # t /\ Makes(thread[u]) /\ thread'[u].own = thread[u].own
                 /\ Untouched(thread[u].own) /\ thread[u].own # s
      BY <1>2, <1>4, <2>2, <2>3 DEF Unborn
    <2>6. \A u, v \in Threads :
              Makes(thread[u]) /\ Makes(thread[v]) /\ thread[u].own = thread[v].own => u = v
      BY <2>2 DEF Unborn
    <2>7. QED  BY <2>1, <2>3, <2>4, <2>5, <2>6 DEF Unborn
  <1>8. ASSUME NEW x \in Sessions PROVE Covered(x)'
    <2>1. Covered(x)
      BY DEF GoneInv
    <2>2. \A u \in Threads : /\ Deletes(thread[u], x, doomed[x]) => Deletes(thread'[u], x, doomed'[x])
                             /\ Resets(thread[u], x) => Resets(thread'[u], x)
      BY <1>1, <1>4 DEF Deletes, Resets
    <2>3. QED  BY <1>1, <2>1, <2>2 DEF Covered
  <1>9. \A x : Calm(x)
    BY <1>1, <1>2, <1>3, CalmMove
  <1>10. QED  BY <1>5, <1>6, <1>7, <1>8, <1>9 DEF GoneInv

\* The lock is taken and the stale sessions are listed.
LEMMA EnterHolds ==
    ASSUME GoneInv, NEW t \in Threads, EnterCreate(t)
    PROVE  GoneInv' /\ \A x : Calm(x)
  <1>1. PICK n \in 0..Len(order) :
            thread' = [thread EXCEPT ![t].pc = "evict",
                                     ![t].stale = {s \in sessions : Position(s) <= n}]
    BY DEF EnterCreate
  <1> DEFINE c == thread[t]
             late == {s \in sessions : Position(s) <= n}
             d == [c EXCEPT !.pc = "evict", !.stale = late]
  <1>2. /\ WellTyped /\ c.pc = "enter" /\ UNCHANGED <<session, sessions, keys, doomed>>
        /\ thread' = [thread EXCEPT ![t] = d] /\ late \in SUBSET Sessions
    BY <1>1 DEF GoneInv, EnterCreate, WellTyped
  <1>3. Sound(c) /\ Shaped(c)
    BY <1>2, CallFacts
  <1> HIDE DEF late, c
  <1>4. Shaped(d) /\ d.pc = "evict" /\ d.op = c.op /\ d.own = c.own
    BY <1>2, <1>3 DEF Shaped, Places
  <1> HIDE DEF d
  <1>5. Sound(d) /\ Makes(d) /\ Makes(c) /\ ~Handles(d)
    BY <1>2, <1>3, <1>4 DEF Sound, Makes, Handles, Working
  <1>6. /\ thread' = [u \in Threads |-> thread'[u]]
        /\ thread'[t] = d
        /\ \A u \in Threads \ {t} : thread'[u] = thread[u]
        /\ \A u \in Threads : Sound(thread'[u])
    BY <1>2, <1>5, OneMoves
  <1>7. WellTyped'
    BY <1>2, <1>6 DEF WellTyped
  <1>8. Unborn'
    <2>1. \A x : Untouched(x) => Untouched(x)'
      BY <1>2, <1>5, <1>6 DEF Untouched
    <2>2. \A u \in Threads : /\ Makes(thread'[u]) <=> Makes(thread[u])
                             /\ thread'[u].own = thread[u].own
      BY <1>4, <1>5, <1>6 DEF c
    <2>3. QED  BY <1>2, <2>1, <2>2 DEF GoneInv, Unborn
  <1>9. ASSUME NEW x \in Sessions PROVE Covered(x)'
    <2>1. Covered(x)
      BY DEF GoneInv
    <2>2. \A u \in Threads : /\ Deletes(thread[u], x, doomed[x]) => Deletes(thread'[u], x, doomed'[x])
                             /\ Resets(thread[u], x) => Resets(thread'[u], x)
      BY <1>2, <1>6 DEF Deletes, Resets, c
    <2>3. QED  BY <1>2, <2>1, <2>2 DEF Covered
  <1>10. \A x : Calm(x)
    BY <1>2, <1>4, <1>5, CalmMove DEF c
  <1>11. QED  BY <1>7, <1>8, <1>9, <1>10 DEF GoneInv

\* The session is registered under the id nobody else knew.
LEMMA RegisterHolds ==
    ASSUME GoneInv, NEW t \in Threads, Register(t)
    PROVE  GoneInv' /\ \A x : Calm(x)
  <1> DEFINE c == thread[t]
             s == c.own
             d == Answering(s)
  <1>1. /\ WellTyped /\ Unborn /\ c.pc = "evict" /\ UNCHANGED <<session, keys, doomed>>
        /\ sessions' = sessions \cup {s} /\ thread' = [thread EXCEPT ![t] = d]
    BY DEF GoneInv, Register
  <1>2. Makes(c) /\ s \in Sessions /\ Untouched(s)
    BY <1>1, CallFacts DEF Makes, Sound, Unborn
  <1>3. Sound(d) /\ d.pc = "payload" /\ d.s = s /\ ~Makes(d)
    BY <1>2, AnsweringSound DEF Makes
  <1> HIDE DEF d, s, c
  <1>4. /\ thread' = [u \in Threads |-> thread'[u]]
        /\ thread'[t] = d
        /\ \A u \in Threads \ {t} : thread'[u] = thread[u]
        /\ \A u \in Threads : Sound(thread'[u])
    BY <1>1, <1>3, OneMoves
  <1>5. WellTyped'
    BY <1>1, <1>2, <1>4 DEF WellTyped
  <1>6. Unborn'
    <2>1. \A x : x # s /\ Untouched(x) => Untouched(x)'
      BY <1>1, <1>3, <1>4 DEF Untouched
    <2>2. \A u \in Threads : Makes(thread'[u]) =>
              /\ u # t /\ thread'[u] = thread[u] /\ Makes(thread[u])
              /\ thread[u].own # s /\ Untouched(thread[u].own)
      BY <1>1, <1>2, <1>3, <1>4 DEF Unborn, s, c
    <2>3. \A x \in Sessions : ~session'[x].made =>
              /\ x # s /\ Untouched(x)
              /\ \A u \in Threads : Makes(thread[u]) => thread[u].own # x
      BY <1>1, <1>2 DEF Unborn, s, c
    <2>4. \A u, v \in Threads :
              Makes(thread[u]) /\ Makes(thread[v]) /\ thread[u].own = thread[v].own => u = v
      BY <1>1 DEF Unborn
    <2>5. QED  BY <2>1, <2>2, <2>3, <2>4 DEF Unborn
  <1>7. ASSUME NEW x \in Sessions PROVE Covered(x)'
    <2>1. Covered(x) /\ (x = s => doomed[x] = {})
      BY <1>2 DEF GoneInv, Untouched
    <2>2. \A u \in Threads : /\ Deletes(thread[u], x, doomed[x]) => Deletes(thread'[u], x, doomed'[x])
                             /\ Resets(thread[u], x) => Resets(thread'[u], x)
      BY <1>1, <1>4 DEF Deletes, Resets, c
    <2>3. QED  BY <1>1, <2>1, <2>2 DEF Covered
  <1>8. \A x : Calm(x)
    BY <1>1, <1>3, CalmMove DEF c
  <1>9. QED  BY <1>5, <1>6, <1>7, <1>8 DEF GoneInv

----------------------------------------------------------------------------
(***************************************************************************)
(* A call that begins to delete the state of session s, as StartDeleting   *)
(* leaves it: c is the call before, d after.                               *)
(***************************************************************************)
Begins(t, s, c, d) ==
    /\ thread' = [thread EXCEPT ![t] = d]
    /\ Sound(d) /\ d.pc \notin {"enter", "count", "event"}
    /\ Makes(d) <=> c.op = "create"
    /\ Makes(d) => d.own = c.own
    /\ Handles(d) => c.op # "create" /\ d.s = s
    /\ OnRedis(s) /\ KeySuffixes(Algorithm(s)) # <<>> =>
          d.pc = "delete" /\ d.s = s /\ d.todo = KeySuffixes(Algorithm(s))
    /\ ~OnRedis(s) /\ c.op = "reset" => d.pc = "clear" /\ d.s = s

\* Where a call goes on when its keys are deleted.
LEMMA DeletionEnds ==
    ASSUME NEW c, Shaped(c), c.op \in {"create", "reset", "close"},
           c.op = "reset" => c.left = 1 /\ c.s \in Sessions,
           c.op = "create" => c.own \in Sessions
    PROVE  LET d == AfterDeletion(c) IN
           /\ Sound(d) /\ d.pc \notin {"delete", "enter", "count", "event"}
           /\ Makes(d) <=> c.op = "create"
           /\ c.op = "create" => d.pc = "evict" /\ d.own = c.own
           /\ c.op = "reset" => d.pc = "clear" /\ d.s = c.s
           /\ c.op = "close" => d = Idle
  <1>1. CASE c.op = "create"
    <2> DEFINE d == [c EXCEPT !.pc = "evict", !.s = None, !.todo = <<>>]
    <2>1. Became(d, "evict", c.op, None, c.left, <<>>, c.own)
      <3>1. \A n \in Sessions \cup {None}, q \in Seq(AllKeys) :
                Became([c EXCEPT !.pc = "evict", !.s = n, !.todo = q],
                       "evict", c.op, n, c.left, q, c.own)
        BY DEF Shaped, Became, Places
      <3>2. <<>> \in Seq(AllKeys) /\ None \in Sessions \cup {None}
        OBVIOUS
      <3>3. QED  BY <3>1, <3>2, Zenon
    <2>2. AfterDeletion(c) = d
      BY <1>1 DEF AfterDeletion
    <2> HIDE DEF d
    <2>3. QED  BY <1>1, <2>1, <2>2 DEF Became, Sound, Makes, Handles, Working
  <1>2. CASE c.op = "reset"
    <2> DEFINE d == [c EXCEPT !.pc = "clear", !.todo = <<>>]
    <2>1. Became(d, "clear", c.op, c.s, c.left, <<>>, c.own)
      <3>1. \A q \in Seq(AllKeys) :
                Became([c EXCEPT !.pc = "clear", !.todo = q],
                       "clear", c.op, c.s, c.left, q, c.own)
        BY DEF Shaped, Became, Places
      <3>2. <<>> \in Seq(AllKeys)
        OBVIOUS
      <3>3. QED  BY <3>1, <3>2, Zenon
    <2>2. AfterDeletion(c) = d
      BY <1>2 DEF AfterDeletion
    <2> HIDE DEF d
    <2>3. QED  BY <1>2, <2>1, <2>2 DEF Became, Sound, Makes, Handles, Working
  <1>3. CASE c.op = "close"
    <2>1. AfterDeletion(c) = Idle
      BY <1>3 DEF AfterDeletion
    <2>2. QED  BY <1>3, <2>1, IdleSound DEF Makes
  <1>4. QED  BY <1>1, <1>2, <1>3

\* Where it is when it has begun, with or without keys to delete.
LEMMA DeletionBegins ==
    ASSUME NEW t \in Threads, NEW s \in Sessions, NEW c, Shaped(c),
           c.op \in {"create", "reset", "close"},
           c.op = "reset" => c.left = 1, c.op = "create" => c.own \in Sessions,
           StartDeleting(t, c, s)
    PROVE  (\E d : Begins(t, s, c, d)) /\ doomed' = [doomed EXCEPT ![s] = keys[s]]
  <1> DEFINE b == [c EXCEPT !.pc = "delete", !.s = s, !.todo = ToDelete(s)]
  <1>1. ToDelete(s) \in Seq(AllKeys)
    BY KeyFacts DEF ToDelete
  <1>2. Became(b, "delete", c.op, s, c.left, ToDelete(s), c.own)
    BY <1>1 DEF Shaped, Became, Places
  <1>3. /\ thread' = [thread EXCEPT ![t] = IF b.todo = <<>> THEN AfterDeletion(b) ELSE b]
        /\ doomed' = [doomed EXCEPT ![s] = keys[s]]
    BY DEF StartDeleting
  <1> HIDE DEF b
  <1>4. CASE ToDelete(s) = <<>>
    <2> DEFINE d == AfterDeletion(b)
    <2>1. thread' = [thread EXCEPT ![t] = d]
      BY <1>2, <1>3, <1>4 DEF Became
    <2>2. Shaped(b) /\ b.op = c.op /\ b.left = c.left /\ b.s = s /\ b.own = c.own
      BY <1>2 DEF Became
    <2>3. /\ Sound(d) /\ d.pc \notin {"delete", "enter", "count", "event"}
          /\ Makes(d) <=> c.op = "create"
          /\ c.op = "create" => d.pc = "evict" /\ d.own = c.own
          /\ c.op = "reset" => d.pc = "clear" /\ d.s = s
          /\ c.op = "close" => d = Idle
      BY <2>2, DeletionEnds
    <2> HIDE DEF d
    <2>4. Handles(d) => c.op # "create" /\ d.s = s
      BY <2>3, IdleSound DEF Handles, Working
    <2>5. Makes(d) => d.own = c.own
      BY <2>3
    <2>6. QED  BY <1>3, <1>4, <2>1, <2>3, <2>4, <2>5 DEF Begins, ToDelete
  <1>5. CASE ToDelete(s) # <<>>
    <2>1. thread' = [thread EXCEPT ![t] = b]
      BY <1>2, <1>3, <1>5 DEF Became
    <2>2. OnRedis(s) /\ ToDelete(s) = KeySuffixes(Algorithm(s))
      BY <1>5 DEF ToDelete
    <2>3. Sound(b) /\ (Makes(b) <=> c.op = "create") /\ (Handles(b) => c.op # "create")
      BY <1>2, <1>5 DEF Became, Sound, Makes, Handles, Working, None
    <2>4. QED  BY <1>2, <1>3, <2>1, <2>2, <2>3 DEF Begins, Became
  <1>6. QED  BY <1>4, <1>5

\* The step of a call that begins to delete: what else it does
Begun(t, s, c, d) ==
    /\ Begins(t, s, c, d)
    /\ thread[t].pc \in {"idle", "evict"}
    /\ Makes(thread[t]) <=> c.op = "create"
    /\ c.op = "create" => c.own = thread[t].own
    /\ c.op = "create" \/ s \in sessions
    /\ sessions' \subseteq sessions
    /\ s \in sessions' => c.op = "reset"
    /\ \A x \in Sessions \ {s} : x \in sessions' <=> x \in sessions
    /\ UNCHANGED <<session, keys>>
    /\ doomed' = [doomed EXCEPT ![s] = keys[s]]

(***************************************************************************)
(* Evictions, resets and closes are steps of this kind.                    *)
(***************************************************************************)
LEMMA EvictionBegins ==
    ASSUME GoneInv, NEW t \in Threads, EvictStale(t) \/ EvictOldest(t)
    PROVE  \E s \in Sessions : \E c, d : Begun(t, s, c, d)
  <1>1. WellTyped /\ thread[t].pc = "evict" /\ UNCHANGED <<session, keys>>
    BY DEF GoneInv, EvictStale, EvictOldest, Evict
  <1>2. Shaped(thread[t]) /\ Makes(thread[t]) /\ thread[t].op = "create" /\ thread[t].own \in Sessions
    BY <1>1, CallFacts DEF Makes, Sound
  <1>3. \E s \in Sessions : \E c :
            Evict(t, s, c) /\ Shaped(c) /\ c.op = "create" /\ c.own = thread[t].own
    <2>1. CASE EvictStale(t)
      <3>1. PICK s \in thread[t].stale : Evict(t, s, [thread[t] EXCEPT !.stale = @ \ {s}])
        BY <2>1 DEF EvictStale
      <3> DEFINE b == thread[t]
                 c == [b EXCEPT !.stale = b.stale \ {s}]
      <3>2. s \in Sessions /\ Shaped(c) /\ c.op = b.op /\ c.own = b.own
        BY <1>2 DEF Shaped
      <3>3. Evict(t, s, c)
        BY <3>1
      <3> HIDE DEF c
      <3>4. QED  BY <1>2, <3>2, <3>3
    <2>2. CASE EvictOldest(t)
      <3>1. Evict(t, scan.best, thread[t]) /\ scan.best \in Sessions
        BY <1>1, <2>2 DEF EvictOldest, WellTyped
      <3>2. QED  BY <1>2, <3>1
    <2>3. QED  BY <2>1, <2>2
  <1>4. PICK s \in Sessions :
            \E c : Evict(t, s, c) /\ Shaped(c) /\ c.op = "create" /\ c.own = thread[t].own
    BY <1>3
  <1>5. PICK c : Evict(t, s, c) /\ Shaped(c) /\ c.op = "create" /\ c.own = thread[t].own
    BY <1>4
  <1>6. PICK d : Begins(t, s, c, d)
    <2>1. StartDeleting(t, c, s)
      BY <1>5 DEF Evict
    <2>2. QED  BY <1>2, <1>5, <2>1, DeletionBegins
  <1>7. sessions' = sessions \ {s} /\ doomed' = [doomed EXCEPT ![s] = keys[s]]
    BY <1>5 DEF Evict, StartDeleting
  <1>8. QED  BY <1>1, <1>2, <1>5, <1>6, <1>7 DEF Begun

\* A reset or a close of a registered session.
LEMMA CallDeletes ==
    ASSUME GoneInv, NEW t \in Threads, NEW s \in Sessions, Reset(t, s) \/ Close(t, s)
    PROVE  \E c, d : Begun(t, s, c, d)
  <1>1. /\ WellTyped /\ thread[t].pc = "idle" /\ s \in sessions /\ UNCHANGED <<session, keys>>
        /\ ~Makes(thread[t])
    BY CallFacts DEF GoneInv, Reset, Close, Get
  <1>2. Shaped(Idle)
    BY IdleSound DEF Sound
  <1>3. CASE Reset(t, s)
    <2> DEFINE c == [Idle EXCEPT !.op = "reset", !.left = 1]
    <2>1. Shaped(c) /\ c.op = "reset" /\ c.left = 1
      <3>1. \A n \in Int : LET e == [Idle EXCEPT !.op = "reset", !.left = n]
                           IN  Shaped(e) /\ e.op = "reset" /\ e.left = n
        BY <1>2 DEF Shaped
      <3>2. 1 \in Int
        OBVIOUS
      <3>3. QED  BY <3>1, <3>2, Zenon
    <2>2. StartDeleting(t, c, s) /\ sessions' = sessions
      BY <1>3 DEF Reset
    <2> HIDE DEF c
    <2>3. doomed' = [doomed EXCEPT ![s] = keys[s]]
      BY <2>2 DEF StartDeleting
    <2>4. PICK d : Begins(t, s, c, d)
      BY <2>1, <2>2, DeletionBegins
    <2>5. QED  BY <1>1, <2>1, <2>2, <2>3, <2>4 DEF Begun
  <1>4. CASE Close(t, s)
    <2> DEFINE c == [Idle EXCEPT !.op = "close"]
    <2>1. Shaped(c) /\ c.op = "close"
      BY <1>2 DEF Shaped
    <2>2. StartDeleting(t, c, s) /\ sessions' = sessions \ {s}
      BY <1>4 DEF Close
    <2> HIDE DEF c
    <2>3. doomed' = [doomed EXCEPT ![s] = keys[s]]
      BY <2>2 DEF StartDeleting
    <2>4. PICK d : Begins(t, s, c, d)
      BY <2>1, <2>2, DeletionBegins
    <2>5. QED  BY <1>1, <2>1, <2>2, <2>3, <2>4 DEF Begun
  <1>5. QED  BY <1>3, <1>4

(***************************************************************************)
(* To begin a deletion preserves the three parts: all that was there is on *)
(* the list of keys, or the limiter is about to be replaced.               *)
(***************************************************************************)
LEMMA BegunHolds ==
    ASSUME GoneInv, NEW t \in Threads, NEW s \in Sessions, NEW c, NEW d, Begun(t, s, c, d)
    PROVE  GoneInv' /\ SameMakers /\ \A x : Calm(x)
  <1>1. /\ WellTyped /\ Unborn /\ thread' = [thread EXCEPT ![t] = d] /\ Sound(d)
        /\ sessions' \subseteq sessions /\ UNCHANGED <<session, keys>>
        /\ doomed' = [doomed EXCEPT ![s] = keys[s]]
        /\ thread[t].pc \in {"idle", "evict"}
    BY DEF GoneInv, Begun, Begins
  <1>2. /\ thread' = [u \in Threads |-> thread'[u]]
        /\ thread'[t] = d
        /\ \A u \in Threads \ {t} : thread'[u] = thread[u]
        /\ \A u \in Threads : Sound(thread'[u])
    BY <1>1, OneMoves
  <1>3. /\ doomed' \in [Sessions -> SUBSET AllKeys]
        /\ doomed'[s] = keys[s] /\ keys[s] \subseteq Held(s)
        /\ \A x \in Sessions \ {s} : doomed'[x] = doomed[x]
    BY <1>1 DEF WellTyped
  <1>4. WellTyped'
    BY <1>1, <1>2, <1>3 DEF WellTyped
  <1>5. Unborn'
    <2>1. /\ Makes(thread[t]) <=> Makes(d)
          /\ Makes(d) => d.own = thread[t].own
          /\ Handles(d) => d.s = s /\ s \in sessions
      BY DEF Begun, Begins
    <2>2. \A x \in Sessions : Untouched(x) => Untouched(x)'
      BY <1>1, <1>2, <1>3, <2>1 DEF Untouched
    <2>3. \A u \in Threads : /\ Makes(thread'[u]) <=> Makes(thread[u])
                             /\ Makes(thread[u]) => thread'[u].own = thread[u].own
      BY <1>2, <2>1
    <2>4. \A u \in Threads : Makes(thread[u]) => thread[u].own \in Sessions
      BY <1>1 DEF WellTyped, Sound
    <2>5. QED  BY <1>1, <2>2, <2>3, <2>4 DEF Unborn
  <1>6. ASSUME NEW x \in Sessions PROVE Covered(x)'
    <2>1. CASE x = s
      <3>1. CASE OnRedis(s) /\ KeySuffixes(Algorithm(s)) # <<>>
        <4>1. d.pc = "delete" /\ d.s = s /\ d.todo = KeySuffixes(Algorithm(s))
          BY <3>1 DEF Begun, Begins
        <4>2. \A y \in Held(s) : \E i \in 1..Len(KeySuffixes(Algorithm(s))) :
                  KeySuffixes(Algorithm(s))[i] = y
          BY <3>1, KeyFacts
        <4>3. Deletes(d, s, doomed'[s])
          BY <1>3, <4>1, <4>2 DEF Deletes
        <4>4. QED  BY <1>2, <2>1, <3>1, <4>3 DEF Covered
      <3>2. CASE ~OnRedis(s) /\ s \in sessions'
        <4>1. d.pc = "clear" /\ d.s = s
          BY <3>2 DEF Begun, Begins
        <4>2. QED  BY <1>2, <2>1, <3>2, <4>1 DEF Covered, Resets
      <3>3. QED  BY <2>1, <3>1, <3>2 DEF Covered
    <2>2. CASE x # s
      <3>1. Covered(x) /\ doomed'[x] = doomed[x] /\ (x \in sessions' => x \in sessions)
        BY <1>1, <1>3, <2>2 DEF GoneInv
      <3>2. \A u \in Threads : /\ Deletes(thread[u], x, doomed[x]) => Deletes(thread'[u], x, doomed'[x])
                               /\ Resets(thread[u], x) => Resets(thread'[u], x)
        BY <1>1, <1>2, <3>1 DEF Deletes, Resets
      <3>3. QED  BY <3>1, <3>2 DEF Covered
    <2>3. QED  BY <2>1, <2>2
  <1>7. \A x : Calm(x)
    <2>1. d.pc \notin {"count", "event"}
      BY DEF Begun, Begins
    <2>2. QED  BY <1>1, <2>1, CalmMove
  <1>8. SameMakers
    <2>1. /\ d.pc # "enter" /\ thread[t].pc # "enter"
          /\ Makes(d) <=> Makes(thread[t])
          /\ Makes(d) => d.own = thread[t].own
      BY DEF Begun, Begins
    <2>2. QED  BY <1>1, <2>1, MakersMove
  <1>9. QED  BY <1>4, <1>5, <1>6, <1>7, <1>8 DEF GoneInv

----------------------------------------------------------------------------
(***************************************************************************)
(* Steps that take state away, for one or several calls: they keep the     *)
(* first two parts whatever else they do.                                  *)
(***************************************************************************)
Shrinks ==
    /\ sessions' = sessions /\ SameMade
    /\ keys' \in [Sessions -> SUBSET AllKeys] /\ doomed' \in [Sessions -> SUBSET AllKeys]
    /\ \A x \in Sessions : keys'[x] \subseteq keys[x] /\ doomed'[x] \subseteq doomed[x]
    /\ thread' = [u \in Threads |-> thread'[u]]
    /\ \A u \in Threads :
          /\ Sound(thread'[u])
          /\ Makes(thread'[u]) <=> Makes(thread[u])
          /\ Makes(thread[u]) => thread'[u].own = thread[u].own
          /\ Handles(thread'[u]) => Handles(thread[u]) /\ thread'[u].s = thread[u].s

\* Types and the untouched ids survive such a step.
LEMMA ShrinksHolds ==
    ASSUME GoneInv, Shrinks
    PROVE  WellTyped' /\ Unborn'
  <1>1. WellTyped /\ Unborn
    BY DEF GoneInv
  <1>2. WellTyped'
    BY <1>1 DEF Shrinks, SameMade, WellTyped
  <1>3. \A x \in Sessions : Untouched(x) => Untouched(x)'
    BY DEF Shrinks, Untouched
  <1>4. \A u \in Threads : Makes(thread[u]) => thread[u].own \in Sessions
    BY <1>1 DEF WellTyped, Sound
  <1>5. Unborn'
    BY <1>1, <1>3, <1>4 DEF Shrinks, SameMade, Unborn
  <1>6. QED  BY <1>2, <1>5

\* A step that leaves the sessions alone.
LEMMA SameSession ==
    ASSUME WellTyped, session' = session
    PROVE  SameMade
  BY DEF WellTyped, SameMade

\* Taking keys away.
LEMMA Dropped ==
    ASSUME WellTyped, NEW s \in Sessions, NEW ks, Drop(s, ks)
    PROVE  /\ keys' \in [Sessions -> SUBSET AllKeys] /\ doomed' \in [Sessions -> SUBSET AllKeys]
           /\ \A x \in Sessions : keys'[x] \subseteq keys[x] /\ doomed'[x] \subseteq doomed[x]
           /\ doomed'[s] = doomed[s] \ ks
           /\ \A x \in Sessions \ {s} : doomed'[x] = doomed[x]
  BY DEF WellTyped, Drop

(***************************************************************************)
(* One key after the other; Redis may fail at any of them.                 *)
(***************************************************************************)
LEMMA DeleteKeyHolds ==
    ASSUME GoneInv, NEW t \in Threads, DeleteKey(t)
    PROVE  GoneInv' /\ SameMakers /\ \A x : Calm(x)
  <1> DEFINE c == thread[t]
             s == c.s
             rest == Tail(c.todo)
             d == IF rest = <<>> THEN AfterDeletion(c) ELSE [c EXCEPT !.todo = rest]
  <1>1. /\ WellTyped /\ c.pc = "delete" /\ thread' = [thread EXCEPT ![t] = d]
        /\ Drop(s, {Head(c.todo)}) /\ UNCHANGED <<sessions, session>>
    BY DEF GoneInv, DeleteKey
  <1>2. /\ Sound(c) /\ Shaped(c) /\ s \in Sessions /\ c.op \in {"create", "reset", "close"}
        /\ c.todo \in Seq(AllKeys) /\ c.todo # <<>>
        /\ c.op = "reset" => c.left = 1
        /\ c.op = "create" => c.own \in Sessions
    BY <1>1, CallFacts DEF Sound, Shaped, Makes
  <1>3. /\ rest \in Seq(AllKeys) /\ Len(c.todo) \in Nat
        /\ \A i \in 1..Len(c.todo) : c.todo[i] # Head(c.todo) =>
              rest # <<>> /\ \E j \in 1..Len(rest) : rest[j] = c.todo[i]
    <2> HIDE DEF c
    <2>1. /\ rest \in Seq(AllKeys) /\ Len(rest) = Len(c.todo) - 1 /\ Len(c.todo) \in Nat
          /\ \A j \in 1..Len(rest) : rest[j] = c.todo[j + 1]
          /\ Head(c.todo) = c.todo[1]
      BY <1>2
    <2>2. ASSUME NEW i \in 1..Len(c.todo), c.todo[i] # Head(c.todo)
          PROVE  i - 1 \in 1..Len(rest) /\ rest[i - 1] = c.todo[i]
      BY <2>1, <2>2
    <2> HIDE DEF rest
    <2>3. rest = <<>> => Len(rest) = 0
      OBVIOUS
    <2>4. QED  BY <2>1, <2>2, <2>3
  <1>4. /\ Sound(d) /\ d.pc \notin {"enter", "count", "event"}
        /\ Makes(d) <=> Makes(c)
        /\ Makes(c) => d.own = c.own
        /\ Handles(d) => Handles(c) /\ d.s = s
        /\ rest # <<>> => d.pc = "delete" /\ d.s = s /\ d.todo = rest
    <2>1. Makes(c) <=> c.op = "create"
      BY <1>1 DEF Makes
    <2>2. CASE rest = <<>>
      <3> DEFINE e == AfterDeletion(c)
      <3>1. /\ Sound(e) /\ e.pc \notin {"delete", "enter", "count", "event"}
            /\ Makes(e) <=> c.op = "create"
            /\ c.op = "create" => e.pc = "evict" /\ e.own = c.own
            /\ c.op = "reset" => e.pc = "clear" /\ e.s = s
            /\ c.op = "close" => e = Idle
        BY <1>2, DeletionEnds
      <3>2. d = e
        BY <2>2
      <3> HIDE DEF d, e, c
      <3>3. Handles(e) => c.op = "reset"
        BY <1>2, <3>1, IdleSound DEF Handles, Working
      <3>4. QED  BY <1>1, <2>1, <2>2, <3>1, <3>2, <3>3 DEF Handles
    <2>3. CASE rest # <<>>
      <3> DEFINE e == [c EXCEPT !.todo = rest]
      <3>1. Became(e, "delete", c.op, s, c.left, rest, c.own)
        <4> HIDE DEF rest
        <4>1. QED  BY <1>1, <1>2, <1>3 DEF Shaped, Became
      <3>2. d = e
        BY <2>3
      <3> HIDE DEF d, e, c
      <3>3. QED  BY <1>1, <1>2, <2>3, <3>1, <3>2 DEF Became, Sound, Makes, Handles, Working, None
    <2>4. QED  BY <2>2, <2>3
  <1> HIDE DEF d, rest
  <1>5. /\ thread' = [u \in Threads |-> thread'[u]]
        /\ thread'[t] = d
        /\ \A u \in Threads \ {t} : thread'[u] = thread[u]
        /\ \A u \in Threads : Sound(thread'[u])
    BY <1>1, <1>4, OneMoves
  <1>6. /\ keys' \in [Sessions -> SUBSET AllKeys] /\ doomed' \in [Sessions -> SUBSET AllKeys]
        /\ \A x \in Sessions : keys'[x] \subseteq keys[x] /\ doomed'[x] \subseteq doomed[x]
        /\ doomed'[s] = doomed[s] \ {Head(c.todo)}
        /\ \A x \in Sessions \ {s} : doomed'[x] = doomed[x]
    BY <1>1, <1>2, Dropped
  <1>7. WellTyped' /\ Unborn'
    <2>1. SameMade
      BY <1>1, SameSession
    <2>2. \A u \in Threads :
              /\ Makes(thread'[u]) <=> Makes(thread[u])
              /\ Makes(thread[u]) => thread'[u].own = thread[u].own
              /\ Handles(thread'[u]) => Handles(thread[u]) /\ thread'[u].s = thread[u].s
      BY <1>4, <1>5
    <2>3. Shrinks
      BY <1>1, <1>5, <1>6, <2>1, <2>2 DEF Shrinks
    <2>4. QED  BY <2>3, ShrinksHolds
  <1>8. ASSUME NEW x \in Sessions PROVE Covered(x)'
    <2>1. Covered(x) /\ doomed'[x] \subseteq doomed[x]
      BY <1>6 DEF GoneInv
    <2>2. \A u \in Threads : Resets(thread[u], x) => Resets(thread'[u], x)
      BY <1>1, <1>5 DEF Resets
    <2>3. \A u \in Threads \ {t} :
              Deletes(thread[u], x, doomed[x]) => Deletes(thread'[u], x, doomed'[x])
      BY <1>5, <2>1 DEF Deletes
    <2>4. Deletes(thread[t], x, doomed[x]) =>
              doomed'[x] = {} \/ Deletes(thread'[t], x, doomed'[x])
      <3>1. SUFFICES ASSUME Deletes(c, x, doomed[x]), doomed'[x] # {}
                     PROVE  Deletes(d, x, doomed'[x])
        BY <1>5
      <3>2. x = s
        BY <3>1 DEF Deletes
      <3>3. \A y \in doomed'[x] : \E i \in 1..Len(c.todo) : c.todo[i] = y /\ y # Head(c.todo)
        BY <1>6, <3>1, <3>2 DEF Deletes
      <3>4. rest # <<>> /\ \A y \in doomed'[x] : \E j \in 1..Len(rest) : rest[j] = y
        BY <1>3, <3>1, <3>3
      <3>5. QED  BY <1>4, <3>2, <3>4 DEF Deletes
    <2>5. QED  BY <1>1, <2>1, <2>2, <2>3, <2>4 DEF Covered
  <1>9. \A x : Calm(x)
    BY <1>1, <1>4, CalmMove
  <1>10. SameMakers
    BY <1>1, <1>4, MakersMove
  <1>11. QED  BY <1>7, <1>8, <1>9, <1>10 DEF GoneInv

\* Redis did not answer: what was to be deleted is given up.
LEMMA DeleteFailsHolds ==
    ASSUME GoneInv, NEW t \in Threads, DeleteFails(t)
    PROVE  GoneInv' /\ SameMakers /\ \A x : Calm(x)
  <1> DEFINE c == thread[t]
             s == c.s
             d == IF c.op = "create" THEN AfterDeletion(c) ELSE Idle
  <1>1. /\ WellTyped /\ c.pc = "delete" /\ thread' = [thread EXCEPT ![t] = d]
        /\ doomed' = [doomed EXCEPT ![s] = {}]
        /\ keys' = keys \/ keys' = [keys EXCEPT ![s] = keys[s] \ {Head(c.todo)}]
        /\ UNCHANGED <<sessions, session>>
    BY DEF GoneInv, DeleteFails
  <1>2. /\ Sound(c) /\ Shaped(c) /\ s \in Sessions /\ c.op \in {"create", "reset", "close"}
        /\ c.op = "create" => c.own \in Sessions
    BY <1>1, CallFacts DEF Sound, Shaped, Makes
  <1>3. /\ Sound(d) /\ d.pc \notin {"enter", "count", "event"}
        /\ Makes(d) <=> Makes(c)
        /\ Makes(c) => d.own = c.own
        /\ ~Handles(d)
    <2>1. Makes(c) <=> c.op = "create"
      BY <1>1 DEF Makes
    <2>2. CASE c.op = "create"
      <3> DEFINE e == AfterDeletion(c)
      <3>1. Sound(e) /\ Makes(e) /\ e.pc = "evict" /\ e.own = c.own
        BY <1>2, <2>2, DeletionEnds
      <3>2. d = e
        BY <2>2
      <3> HIDE DEF d, e, c
      <3>3. QED  BY <2>1, <2>2, <3>1, <3>2 DEF Handles, Working
    <2>3. CASE c.op # "create"
      <3>1. d = Idle
        BY <2>3
      <3> HIDE DEF d, c
      <3>2. QED  BY <2>1, <2>3, <3>1, IdleSound DEF Handles, Makes, Working
    <2>4. QED  BY <2>2, <2>3
  <1> HIDE DEF d
  <1>4. /\ thread' = [u \in Threads |-> thread'[u]]
        /\ thread'[t] = d
        /\ \A u \in Threads \ {t} : thread'[u] = thread[u]
        /\ \A u \in Threads : Sound(thread'[u])
    BY <1>1, <1>3, OneMoves
  <1>5. /\ keys' \in [Sessions -> SUBSET AllKeys] /\ doomed' \in [Sessions -> SUBSET AllKeys]
        /\ \A x \in Sessions : keys'[x] \subseteq keys[x] /\ doomed'[x] \subseteq doomed[x]
        /\ doomed'[s] = {}
        /\ \A x \in Sessions \ {s} : doomed'[x] = doomed[x]
    <2>1. keys \in [Sessions -> SUBSET AllKeys] /\ doomed \in [Sessions -> SUBSET AllKeys]
      BY <1>1 DEF WellTyped
    <2> HIDE DEF s, c
    <2>2. QED  BY <1>1, <1>2, <2>1
  <1>6. WellTyped' /\ Unborn'
    <2>1. SameMade
      BY <1>1, SameSession
    <2>2. \A u \in Threads :
              /\ Makes(thread'[u]) <=> Makes(thread[u])
              /\ Makes(thread[u]) => thread'[u].own = thread[u].own
              /\ Handles(thread'[u]) => Handles(thread[u]) /\ thread'[u].s = thread[u].s
      BY <1>3, <1>4
    <2>3. Shrinks
      BY <1>1, <1>4, <1>5, <2>1, <2>2 DEF Shrinks
    <2>4. QED  BY <2>3, ShrinksHolds
  <1>7. ASSUME NEW x \in Sessions PROVE Covered(x)'
    <2>1. Covered(x)
      BY DEF GoneInv
    <2>2. x # s => \A u \in Threads :
              /\ Deletes(thread[u], x, doomed[x]) => Deletes(thread'[u], x, doomed'[x])
              /\ Resets(thread[u], x) => Resets(thread'[u], x)
      BY <1>1, <1>4, <1>5 DEF Deletes, Resets
    <2>3. QED  BY <1>1, <1>5, <2>1, <2>2 DEF Covered
  <1>8. \A x : Calm(x)
    BY <1>1, <1>3, CalmMove
  <1>9. SameMakers
    BY <1>1, <1>3, MakersMove
  <1>10. QED  BY <1>6, <1>7, <1>8, <1>9 DEF GoneInv

(***************************************************************************)
(* A reset replaces the limiter: in process, its state goes with it.       *)
(***************************************************************************)
LEMMA RebuildHolds ==
    ASSUME GoneInv, NEW t \in Threads, Rebuild(t)
    PROVE  GoneInv' /\ SameMade /\ SameMakers /\ \A x \in Sessions : Calm(x) /\ SameCounts(x)
  <1> DEFINE c == thread[t]
             s == c.s
  <1>1. /\ WellTyped /\ c.pc = "rebuild" /\ sessions' = sessions
        /\ session' = [session EXCEPT ![s].cached = FALSE]
        /\ IF OnRedis(s) THEN UNCHANGED <<keys, doomed>> ELSE Drop(s, {Main})
        /\ thread' = [u \in Threads |->
              IF u = t THEN Answering(s)
              ELSE IF thread[u].pc = "allow" /\ thread[u].s = s /\ ~OnRedis(s)
                   THEN [thread[u] EXCEPT !.old = TRUE] ELSE thread[u]]
    BY DEF GoneInv, Rebuild
  <1>2. s \in Sessions /\ Handles(c) /\ ~Makes(c)
    BY <1>1, CallFacts DEF Working, Handles, Makes
  <1>3. ASSUME NEW u \in Threads
        PROVE  /\ Sound(thread'[u])
               /\ \/ thread'[u] = thread[u]
                  \/ thread[u].pc = "allow" /\ thread'[u].pc = "allow"
                  \/ thread[u].pc = "rebuild" /\ thread'[u].pc = "payload"
               /\ Makes(thread'[u]) <=> Makes(thread[u])
               /\ Makes(thread[u]) => thread'[u].own = thread[u].own
               /\ Handles(thread'[u]) => Handles(thread[u]) /\ thread'[u].s = thread[u].s
               /\ u # t /\ thread[u].pc # "allow" => thread'[u] = thread[u]
    <2> DEFINE b == thread[u]
    <2>1. CASE u = t
      <3>1. thread'[u] = Answering(s)
        BY <1>1, <2>1
      <3>2. thread[u].pc = "rebuild"
        BY <1>1, <2>1
      <3>3. QED  BY <1>2, <2>1, <3>1, <3>2, AnsweringSound DEF Makes, Handles, Working
    <2>2. CASE u # t /\ b.pc = "allow" /\ b.s = s /\ ~OnRedis(s)
      <3> DEFINE d == [b EXCEPT !.old = TRUE]
      <3>1. thread'[u] = d
        BY <1>1, <2>2
      <3>2. Sound(b) /\ Shaped(b)
        BY <1>1, CallFacts
      <3>3. Became(d, "allow", b.op, b.s, b.left, b.todo, b.own)
        BY <2>2, <3>2 DEF Shaped, Became, Places
      <3> HIDE DEF d, b
      <3>4. Sound(d) /\ d.pc = "allow" /\ d.s = s /\ ~Makes(d) /\ ~Makes(b) /\ Handles(b)
        BY <1>2, <2>2, <3>3, GoesOn, <1>1 DEF Makes, Handles, Working, Became
      <3>5. QED  BY <2>2, <3>1, <3>4 DEF b
    <2>3. CASE u # t /\ ~(b.pc = "allow" /\ b.s = s /\ ~OnRedis(s))
      <3>1. thread'[u] = thread[u]
        BY <1>1, <2>3
      <3>2. QED  BY <1>1, <3>1 DEF WellTyped
    <2>4. QED  BY <2>1, <2>2, <2>3
  <1>4. thread' = [u \in Threads |-> thread'[u]]
    BY <1>1
  <1>5. /\ keys' \in [Sessions -> SUBSET AllKeys] /\ doomed' \in [Sessions -> SUBSET AllKeys]
        /\ \A x \in Sessions : keys'[x] \subseteq keys[x] /\ doomed'[x] \subseteq doomed[x]
        /\ \A x \in Sessions \ {s} : doomed'[x] = doomed[x]
        /\ IF OnRedis(s) THEN doomed'[s] = doomed[s] ELSE doomed'[s] = doomed[s] \ {Main}
    <2>1. CASE OnRedis(s)
      BY <1>1, <2>1 DEF WellTyped
    <2>2. CASE ~OnRedis(s)
      BY <1>1, <1>2, <2>2, Dropped
    <2>3. QED  BY <2>1, <2>2
  <1>6. SameMade /\ \A x \in Sessions : SameCounts(x)
    <2>1. session \in [Sessions -> Records]
      BY <1>1 DEF WellTyped
    <2>2. s \in Sessions /\ session' = [session EXCEPT ![s].cached = FALSE]
      BY <1>1, <1>2
    <2> HIDE DEF s
    <2>3. session' \in [Sessions -> Records]
      BY <2>1, <2>2 DEF Records
    <2>4. \A x \in Sessions : session'[x].made = session[x].made
      BY <2>1, <2>2 DEF Records
    <2>5. \A x \in Sessions : SameCounts(x)
      BY <2>1, <2>2 DEF Records, SameCounts
    <2>6. QED  BY <2>3, <2>4, <2>5 DEF SameMade
  <1>7. WellTyped' /\ Unborn'
    <2>1. Shrinks
      BY <1>1, <1>3, <1>4, <1>5, <1>6 DEF Shrinks
    <2>2. QED  BY <2>1, ShrinksHolds
  <1>8. ASSUME NEW x \in Sessions PROVE Covered(x)'
    <2>1. Covered(x) /\ doomed'[x] \subseteq doomed[x]
      BY <1>5 DEF GoneInv
    <2>2. \A u \in Threads : Deletes(thread[u], x, doomed[x]) => Deletes(thread'[u], x, doomed'[x])
      BY <1>1, <1>3, <2>1 DEF Deletes
    <2>3. x # s => \A u \in Threads : Resets(thread[u], x) => Resets(thread'[u], x)
      BY <1>1, <1>3 DEF Resets
    <2>4. ~OnRedis(s) => doomed'[s] = {}
      <3>1. ~OnRedis(s) => doomed[s] \subseteq {Main}
        BY <1>1, <1>2, KeyFacts DEF WellTyped
      <3>2. QED  BY <1>5, <3>1
    <2>5. QED  BY <1>1, <2>1, <2>2, <2>3, <2>4 DEF Covered
  <1>9. \A x \in Sessions : Calm(x)
    BY <1>3 DEF Calm, Counts
  <1>10. SameMakers
    BY <1>3 DEF SameMakers, Locks, Makes
  <1>11. QED  BY <1>6, <1>7, <1>8, <1>9, <1>10 DEF GoneInv

\* Redis drops keys by itself.
LEMMA ExpireHolds ==
    ASSUME GoneInv, NEW s \in Sessions, Expire(s)
    PROVE  GoneInv'
  <1>1. WellTyped /\ UNCHANGED <<sessions, session, thread>> /\ \E ks : Drop(s, ks)
    BY DEF GoneInv, Expire
  <1>2. /\ keys' \in [Sessions -> SUBSET AllKeys] /\ doomed' \in [Sessions -> SUBSET AllKeys]
        /\ \A x \in Sessions : keys'[x] \subseteq keys[x] /\ doomed'[x] \subseteq doomed[x]
    BY <1>1, Dropped
  <1>3. WellTyped' /\ Unborn'
    <2>1. Shrinks
      BY <1>1, <1>2, SameSession DEF Shrinks, WellTyped
    <2>2. QED  BY <2>1, ShrinksHolds
  <1>4. ASSUME NEW x \in Sessions PROVE Covered(x)'
    BY <1>1, <1>2 DEF GoneInv, Covered, Deletes, Resets
  <1>5. QED  BY <1>3, <1>4 DEF GoneInv

----------------------------------------------------------------------------
\* An assignment to one counter of a session keeps the records what they are.
LEMMA CounterSet ==
    ASSUME WellTyped, NEW s \in Sessions, NEW n \in Nat,
           \/ session' = [session EXCEPT ![s].allowed = n]
           \/ session' = [session EXCEPT ![s].rejected = n]
           \/ session' = [session EXCEPT ![s].requests = n]
           \/ session' = [session EXCEPT ![s].events = n] /\ n \in 0..MaxEvents
    PROVE  SameMade
  <1>1. session \in [Sessions -> Records]
    BY DEF WellTyped
  <1>2. session' \in [Sessions -> Records]
    BY <1>1 DEF Records
  <1>3. \A x \in Sessions : session'[x].made = session[x].made
    BY <1>1 DEF Records
  <1>4. QED  BY <1>2, <1>3 DEF SameMade

\* The steps of send and reset that set a counter.
LEMMA CountingHolds ==
    ASSUME GoneInv, NEW t \in Threads,
           TallyOutcome(t) \/ CountRequest(t) \/ Record(t) \/ Clear(t)
    PROVE  GoneInv' /\ SameMade
  <1> DEFINE s == thread[t].s
             x == session[s]
  <1>1. /\ WellTyped
        /\ 0 \in 0..MaxEvents /\ 0 \in Nat /\ MaxEvents \in Nat
    BY PlaygroundAssumption DEF GoneInv, PlaygroundAssumption
  <1>2. s \in Sessions /\ \E d : Works(t, s, d, {})
    BY <1>1, OutcomeCounted, RequestCounted, EventRecorded, Cleared
  <1>3. x.allowed \in Nat /\ x.rejected \in Nat /\ x.requests \in Nat /\ x.events \in 0..MaxEvents
    BY <1>1, <1>2 DEF WellTyped, Records
  <1>4. SameMade
    <2>1. CASE TallyOutcome(t)
      <3>1. \E n \in Nat : \/ session' = [session EXCEPT ![s].allowed = n]
                           \/ session' = [session EXCEPT ![s].rejected = n]
        <4>1. \/ session' = [session EXCEPT ![s].allowed = x.allowed + 1]
              \/ session' = [session EXCEPT ![s].rejected = x.rejected + 1]
          BY <1>1, <2>1, OutcomeCounted
        <4>2. x.allowed + 1 \in Nat /\ x.rejected + 1 \in Nat
          BY <1>3
        <4> HIDE DEF x, s
        <4>3. QED  BY <4>1, <4>2
      <3>2. QED  BY <1>1, <1>2, <3>1, CounterSet
    <2>2. CASE CountRequest(t)
      <3>1. session' = [session EXCEPT ![s].requests = x.requests + 1]
        BY <1>1, <2>2, RequestCounted
      <3>2. x.requests + 1 \in Nat
        BY <1>3
      <3> HIDE DEF x, s
      <3>3. QED  BY <1>1, <1>2, <3>1, <3>2, CounterSet
    <2>3. CASE Record(t)
      <3>1. session' = [session EXCEPT ![s].events = EventsPlus(x.events)]
        BY <1>1, <2>3, EventRecorded
      <3>2. EventsPlus(x.events) \in 0..MaxEvents /\ EventsPlus(x.events) \in Nat
        <4> HIDE DEF x
        <4>1. QED  BY <1>1, <1>3 DEF EventsPlus
      <3> HIDE DEF x, s
      <3>3. QED  BY <1>1, <1>2, <3>1, <3>2, CounterSet
    <2>4. CASE Clear(t)
      <3>1. \/ session' = [session EXCEPT ![s].events = 0]
            \/ session' = [session EXCEPT ![s].requests = 0]
            \/ session' = [session EXCEPT ![s].allowed = 0]
            \/ session' = [session EXCEPT ![s].rejected = 0]
        <4> DEFINE n == thread[t].left
        <4>1. /\ n \in 1..4
              /\ n = 1 => session' = [session EXCEPT ![s].events = 0]
              /\ n = 2 => session' = [session EXCEPT ![s].requests = 0]
              /\ n = 3 => session' = [session EXCEPT ![s].allowed = 0]
              /\ n = 4 => session' = [session EXCEPT ![s].rejected = 0]
          BY <1>1, <2>4, Cleared
        <4> HIDE DEF n, s
        <4>2. QED  BY <4>1
      <3> HIDE DEF x, s
      <3>2. QED  BY <1>1, <1>2, <3>1, CounterSet
    <2>5. QED  BY <2>1, <2>2, <2>3, <2>4
  <1> HIDE DEF x, s
  <1>5. QED  BY <1>2, <1>4, WorksHolds

(***************************************************************************)
(* The three parts hold initially, and every step of Next keeps them.      *)
(***************************************************************************)
LEMMA InitGone == Init => GoneInv
  <1> SUFFICES ASSUME Init PROVE GoneInv
    OBVIOUS
  <1>1. \A t \in Threads : thread[t] = Idle
    BY DEF Init
  <1>2. ~Makes(Idle) /\ ~Handles(Idle)
    BY IdleSound DEF Makes, Handles, Working
  <1>3. WellTyped
    BY <1>1, NewFacts, IdleSound DEF Init, WellTyped
  <1>4. Unborn
    BY <1>1, <1>2 DEF Init, Unborn, Untouched
  <1>5. \A s \in Sessions : Covered(s)
    BY DEF Init, Covered
  <1>6. QED  BY <1>3, <1>4, <1>5 DEF GoneInv

\* Nothing happens to sessions and calls.
LEMMA StutterGone ==
    ASSUME GoneInv, UNCHANGED <<sessions, session, keys, thread, doomed>>
    PROVE  GoneInv'
  <1>1. UNCHANGED <<sessions, session, keys, thread, doomed>>
    OBVIOUS
  <1>2. WellTyped'
    BY <1>1 DEF GoneInv, WellTyped
  <1>3. \A s : Untouched(s)' = Untouched(s)
    BY <1>1 DEF Untouched
  <1>4. Unborn'
    BY <1>1, <1>3 DEF GoneInv, Unborn
  <1>5. \A s : Covered(s)' = Covered(s)
    BY <1>1 DEF Covered, Deletes, Resets
  <1>6. QED  BY <1>2, <1>4, <1>5 DEF GoneInv

\* One step for every action of Next.
LEMMA NextGone == GoneInv /\ [Next]_vars => GoneInv'
  <1> SUFFICES ASSUME GoneInv, [Next]_vars PROVE GoneInv'
    OBVIOUS
  <1>1. ASSUME NEW t \in Threads, NEW s \in Sessions,
               \/ \E n \in 1..MaxBurst : Request(t, s, n)
               \/ RequestOutOfRange(t, s) \/ State(t, s)
        PROVE  GoneInv'
    <2>1. WellTyped
      BY DEF GoneInv
    <2>2. (\E d : Works(t, s, d, {})) /\ session' = session
      BY <1>1, <2>1, CallStarts
    <2>3. SameMade
      BY <2>1, <2>2, SameSession
    <2>4. QED  BY <2>2, <2>3, WorksHolds
  <1>2. ASSUME NEW t \in Threads, NEW s \in Sessions, Create(t, s)
        PROVE  GoneInv'
    BY <1>2, CreateHolds
  <1>3. ASSUME NEW t \in Threads, NEW s \in Sessions, Reset(t, s) \/ Close(t, s)
        PROVE  GoneInv'
    BY <1>3, CallDeletes, BegunHolds
  <1>4. ASSUME NEW t \in Threads, NEW s \in Sessions, NotFound(t, s)
        PROVE  GoneInv'
    BY <1>4, StutterGone DEF NotFound, vars
  <1>5. ASSUME NEW t \in Threads, EnterCreate(t) \/ Register(t)
        PROVE  GoneInv'
    BY <1>5, EnterHolds, RegisterHolds
  <1>6. ASSUME NEW t \in Threads, EvictStale(t) \/ EvictOldest(t)
        PROVE  GoneInv'
    BY <1>6, EvictionBegins, BegunHolds
  <1>7. ASSUME NEW t \in Threads, DeleteKey(t) \/ DeleteFails(t) \/ Rebuild(t)
        PROVE  GoneInv'
    BY <1>7, DeleteKeyHolds, DeleteFailsHolds, RebuildHolds
  <1>8. ASSUME NEW t \in Threads,
               \/ Send(t) \/ AllowFails(t) \/ ReadAnswers(t) \/ ReadFails(t) \/ Payload(t)
               \/ \E ok \in BOOLEAN : Allow(t, ok)
        PROVE  GoneInv'
    <2>1. WellTyped
      BY DEF GoneInv
    <2>2. /\ thread[t].s \in Sessions /\ SameMade
          /\ \E d, ks : Works(t, thread[t].s, d, ks)
      BY <1>8, <2>1, LimiterAsked
    <2>3. QED  BY <2>2, WorksHolds
  <1>9. ASSUME NEW t \in Threads, TallyOutcome(t) \/ CountRequest(t) \/ Record(t) \/ Clear(t)
        PROVE  GoneInv'
    BY <1>9, CountingHolds
  <1>10. ASSUME NEW s \in Sessions, Expire(s)
         PROVE  GoneInv'
    BY <1>10, ExpireHolds
  <1>11. CASE UNCHANGED vars \/ \E t \in Threads : StartScan(t) \/ LookAt(t)
    BY <1>11, StutterGone DEF vars, StartScan, LookAt
  <1>12. QED
    BY <1>1, <1>2, <1>3, <1>4, <1>5, <1>6, <1>7, <1>8, <1>9, <1>10, <1>11 DEF Next

(***************************************************************************)
(* After a reset, a close or an eviction nothing is left of what the       *)
(* limiter had recorded: whatever calls are inside the limiter meanwhile,  *)
(* and at whichever key Redis drops the state by itself.  An id nobody     *)
(* registered has no state, and what a deletion has not removed yet is     *)
(* still on its list or goes with the limiter object.                      *)
(***************************************************************************)
THEOREM DeletionComplete == Spec => []DeletedStateIsGone
  <1>1. GoneInv => DeletedStateIsGone
    <2> SUFFICES ASSUME GoneInv, NEW s \in Sessions, Deletable(s), ~Deleting(s)
                 PROVE  doomed[s] = {}
      BY DEF DeletedStateIsGone
    <2>1. Covered(s)
      BY DEF GoneInv
    <2>2. ~\E t \in Threads : Deletes(thread[t], s, doomed[s]) \/ Resets(thread[t], s)
      BY DEF Deleting, At, Deletes, Resets
    <2>3. QED  BY <2>1, <2>2 DEF Covered, Deletable
  <1>2. QED  BY InitGone, NextGone, <1>1, PTL DEF Spec

----------------------------------------------------------------------------
(***************************************************************************)
(* The counters of a session against the calls that are between two of     *)
(* their assignments: a reset that is under way excuses one comparison.    *)
(***************************************************************************)
Users(s, p) == {t \in Threads : thread[t].pc = p /\ thread[t].s = s}
Clears(s, n) ==
    \E t \in Threads : thread[t].pc = "clear" /\ thread[t].s = s /\ thread[t].left = n

BackedFor(s) ==
    LET x == session[s]
        counting == Cardinality(Users(s, "count"))
        recording == Cardinality(Users(s, "event"))
    IN  /\ x.requests <= x.events + recording \/ x.events = MaxEvents \/ Clears(s, 2)
        /\ x.allowed <= x.requests + counting \/ Clears(s, 3)
        /\ x.allowed + x.rejected <= x.requests + counting \/ Clears(s, 3) \/ Clears(s, 4)

TallyInv == GoneInv /\ \A s \in Sessions : BackedFor(s)

\* There are finitely many threads.
LEMMA UsersFinite ==
    /\ \A S \in SUBSET Threads : IsFiniteSet(S) /\ Cardinality(S) \in Nat
    /\ \A s, p : Users(s, p) \in SUBSET Threads
  <1>1. \A S \in SUBSET Threads : IsFiniteSet(S)
    BY PlaygroundAssumption, FS_Subset DEF PlaygroundAssumption
  <1>2. QED  BY <1>1, FS_CardinalityType DEF Users

\* What a session counts are numbers.
LEMMA CountTypes ==
    ASSUME WellTyped, NEW s \in Sessions
    PROVE  /\ session[s].allowed \in Nat /\ session[s].rejected \in Nat
           /\ session[s].requests \in Nat /\ session[s].events \in Nat
           /\ session[s].events <= MaxEvents /\ MaxEvents \in Nat
  <1>1. MaxEvents \in Nat /\ session[s] \in Records
    BY PlaygroundAssumption DEF PlaygroundAssumption, WellTyped
  <1>2. session[s].events \in 0..MaxEvents
    BY <1>1 DEF Records
  <1>3. QED  BY <1>1, <1>2 DEF Records

(***************************************************************************)
(* Steps that do not count for the session keep what backs its counters.   *)
(***************************************************************************)
LEMMA CalmBacked ==
    ASSUME NEW s \in Sessions, BackedFor(s), Calm(s), SameCounts(s)
    PROVE  BackedFor(s)'
  <1>1. /\ Users(s, "count")' = Users(s, "count")
        /\ Users(s, "event")' = Users(s, "event")
    BY DEF Users, Calm, Counts
  <1>2. \A n : Clears(s, n) => Clears(s, n)'
    BY DEF Clears, Calm
  <1>3. QED  BY <1>1, <1>2 DEF BackedFor, SameCounts

(***************************************************************************)
(* self.allowed += 1 or self.rejected += 1: one call more is counting.     *)
(***************************************************************************)
LEMMA OutcomeBacked ==
    ASSUME TallyInv, NEW t \in Threads, TallyOutcome(t),
           NEW s \in Sessions, s = thread[t].s
    PROVE  BackedFor(s)'
  <1> DEFINE x == session[s]
             y == session'[s]
             C == Users(s, "count")
             E == Users(s, "event")
  <1>1. WellTyped
    BY DEF TallyInv, GoneInv
  <1>2. /\ thread[t].pc = "tally"
        /\ \E d : Works(t, s, d, {}) /\ d.pc = "count" /\ d.s = s
        /\ \/ session' = [session EXCEPT ![s].allowed = session[s].allowed + 1]
           \/ session' = [session EXCEPT ![s].rejected = session[s].rejected + 1]
    BY <1>1, OutcomeCounted
  <1>3. PICK d : /\ thread' = [thread EXCEPT ![t] = d] /\ Sound(d)
                 /\ d.pc = "count" /\ d.s = s
    BY <1>2 DEF Works
  <1>4. thread'[t] = d /\ \A u \in Threads \ {t} : thread'[u] = thread[u]
    BY <1>1, <1>3, OneMoves
  <1>5. BackedFor(s)
    BY <1>2 DEF TallyInv
  <1>6. /\ y.requests = x.requests /\ y.events = x.events
        /\ \/ y.allowed = x.allowed + 1 /\ y.rejected = x.rejected
           \/ y.allowed = x.allowed /\ y.rejected = x.rejected + 1
    <2>1. session \in [Sessions -> Records]
      BY <1>1 DEF WellTyped
    <2>2. QED  BY <1>2, <2>1 DEF Records
  <1>7. /\ \A n : Clears(s, n) => Clears(s, n)'
        /\ {u \in Threads : thread'[u].pc = "event" /\ thread'[u].s = s} = E
        /\ {u \in Threads : thread'[u].pc = "count" /\ thread'[u].s = s} = C \cup {t}
        /\ t \notin C
    <2>1. \A n : Clears(s, n) => Clears(s, n)'
      BY <1>2, <1>4 DEF Clears
    <2>2. \A u \in Threads : /\ thread'[u].pc = "event" <=> thread[u].pc = "event"
                             /\ thread'[u].pc = "count" <=> thread[u].pc = "count" \/ u = t
                             /\ thread'[u].s = thread[u].s
      BY <1>2, <1>3, <1>4
    <2>3. t \notin C
      BY <1>2 DEF Users
    <2>4. QED  BY <2>1, <2>2, <2>3 DEF Users
  <1>8. /\ Cardinality(C) \in Nat /\ Cardinality(E) \in Nat
        /\ Cardinality(C \cup {t}) = Cardinality(C) + 1
    <2>1. IsFiniteSet(C) /\ Cardinality(C) \in Nat /\ Cardinality(E) \in Nat
      BY UsersFinite
    <2>2. QED  BY <1>7, <2>1, FS_AddElement
  <1>9. /\ x.allowed \in Nat /\ x.rejected \in Nat /\ x.requests \in Nat /\ x.events \in Nat
    BY <1>1, <1>2, CountTypes
  <1>10. /\ x.requests <= x.events + Cardinality(E) \/ x.events = MaxEvents \/ Clears(s, 2)
         /\ x.allowed <= x.requests + Cardinality(C) \/ Clears(s, 3)
         /\ x.allowed + x.rejected <= x.requests + Cardinality(C) \/ Clears(s, 3) \/ Clears(s, 4)
    BY <1>5 DEF BackedFor
  <1>11. /\ y.requests <= y.events + Cardinality(E) \/ y.events = MaxEvents \/ Clears(s, 2)
         /\ y.allowed <= y.requests + (Cardinality(C) + 1) \/ Clears(s, 3)
         /\ y.allowed + y.rejected <= y.requests + (Cardinality(C) + 1)
            \/ Clears(s, 3) \/ Clears(s, 4)
    <2> HIDE DEF x, y, C, E
    <2>1. QED  BY <1>6, <1>8, <1>9, <1>10
  <1>12. /\ Users(s, "event")' = E
         /\ Users(s, "count")' = C \cup {t}
    BY <1>7 DEF Users
  <1> HIDE DEF C, E
  <1>13. QED  BY <1>7, <1>8, <1>11, <1>12 DEF BackedFor

\* self.requests += 1: the call is done counting and has an event to record.
LEMMA RequestBacked ==
    ASSUME TallyInv, NEW t \in Threads, CountRequest(t),
           NEW s \in Sessions, s = thread[t].s
    PROVE  BackedFor(s)'
  <1> DEFINE x == session[s]
             y == session'[s]
             C == Users(s, "count")
             E == Users(s, "event")
  <1>1. WellTyped
    BY DEF TallyInv, GoneInv
  <1>2. /\ thread[t].pc = "count"
        /\ \E d : Works(t, s, d, {}) /\ d.pc = "event" /\ d.s = s
        /\ session' = [session EXCEPT ![s].requests = session[s].requests + 1]
    BY <1>1, RequestCounted
  <1>3. PICK d : /\ thread' = [thread EXCEPT ![t] = d] /\ Sound(d)
                 /\ d.pc = "event" /\ d.s = s
    BY <1>2 DEF Works
  <1>4. thread'[t] = d /\ \A u \in Threads \ {t} : thread'[u] = thread[u]
    BY <1>1, <1>3, OneMoves
  <1>5. BackedFor(s)
    BY DEF TallyInv
  <1>6. /\ y.requests = x.requests + 1 /\ y.events = x.events
        /\ y.allowed = x.allowed /\ y.rejected = x.rejected
    <2>1. session \in [Sessions -> Records]
      BY <1>1 DEF WellTyped
    <2>2. QED  BY <1>2, <2>1 DEF Records
  <1>7. /\ \A n : Clears(s, n) => Clears(s, n)'
        /\ Users(s, "event")' = E \cup {t} /\ t \notin E
        /\ Users(s, "count")' = C \ {t} /\ t \in C
    <2>1. \A n : Clears(s, n) => Clears(s, n)'
      BY <1>2, <1>4 DEF Clears
    <2>2. \A u \in Threads : /\ thread'[u].pc = "event" <=> thread[u].pc = "event" \/ u = t
                             /\ thread'[u].pc = "count" <=> thread[u].pc = "count" /\ u # t
                             /\ thread'[u].s = thread[u].s
      BY <1>2, <1>3, <1>4
    <2>3. t \notin E /\ t \in C
      BY <1>2 DEF Users
    <2>4. QED  BY <2>1, <2>2, <2>3 DEF Users
  <1>8. /\ Cardinality(C) \in Nat /\ Cardinality(E) \in Nat
        /\ Cardinality(C \ {t}) = Cardinality(C) - 1
        /\ Cardinality(E \cup {t}) = Cardinality(E) + 1
    <2>1. /\ IsFiniteSet(C) /\ IsFiniteSet(E)
          /\ Cardinality(C) \in Nat /\ Cardinality(E) \in Nat
      BY UsersFinite
    <2>2. QED  BY <1>7, <2>1, FS_AddElement, FS_RemoveElement
  <1>9. /\ x.allowed \in Nat /\ x.rejected \in Nat /\ x.requests \in Nat /\ x.events \in Nat
    BY <1>1, CountTypes
  <1>10. /\ x.requests <= x.events + Cardinality(E) \/ x.events = MaxEvents \/ Clears(s, 2)
         /\ x.allowed <= x.requests + Cardinality(C) \/ Clears(s, 3)
         /\ x.allowed + x.rejected <= x.requests + Cardinality(C) \/ Clears(s, 3) \/ Clears(s, 4)
    BY <1>5 DEF BackedFor
  <1>11. /\ y.requests <= y.events + (Cardinality(E) + 1) \/ y.events = MaxEvents \/ Clears(s, 2)
         /\ y.allowed <= y.requests + (Cardinality(C) - 1) \/ Clears(s, 3)
         /\ y.allowed + y.rejected <= y.requests + (Cardinality(C) - 1)
            \/ Clears(s, 3) \/ Clears(s, 4)
    <2> HIDE DEF x, y, C, E
    <2>1. QED  BY <1>6, <1>8, <1>9, <1>10
  <1> HIDE DEF C, E
  <1>12. QED  BY <1>7, <1>8, <1>11 DEF BackedFor

\* self.events.append: one event more, unless the deque is full.
LEMMA RecordBacked ==
    ASSUME TallyInv, NEW t \in Threads, Record(t),
           NEW s \in Sessions, s = thread[t].s
    PROVE  BackedFor(s)'
  <1> DEFINE x == session[s]
             y == session'[s]
             C == Users(s, "count")
             E == Users(s, "event")
  <1>1. WellTyped
    BY DEF TallyInv, GoneInv
  <1>2. /\ thread[t].pc = "event"
        /\ \E d : Works(t, s, d, {}) /\ d.pc \in {"payload", "allow"} /\ d.s = s
        /\ session' = [session EXCEPT ![s].events = EventsPlus(session[s].events)]
    BY <1>1, EventRecorded
  <1>3. PICK d : /\ thread' = [thread EXCEPT ![t] = d] /\ Sound(d)
                 /\ d.pc \in {"payload", "allow"} /\ d.s = s
    BY <1>2 DEF Works
  <1>4. thread'[t] = d /\ \A u \in Threads \ {t} : thread'[u] = thread[u]
    BY <1>1, <1>3, OneMoves
  <1>5. BackedFor(s)
    BY DEF TallyInv
  <1>6. /\ y.requests = x.requests /\ y.events = EventsPlus(x.events)
        /\ y.allowed = x.allowed /\ y.rejected = x.rejected
    <2>1. session \in [Sessions -> Records]
      BY <1>1 DEF WellTyped
    <2>2. QED  BY <1>2, <2>1 DEF Records
  <1>7. /\ \A n : Clears(s, n) => Clears(s, n)'
        /\ Users(s, "event")' = E \ {t} /\ t \in E
        /\ Users(s, "count")' = C
    <2>1. \A n : Clears(s, n) => Clears(s, n)'
      BY <1>2, <1>4 DEF Clears
    <2>2. \A u \in Threads : /\ thread'[u].pc = "event" <=> thread[u].pc = "event" /\ u # t
                             /\ thread'[u].pc = "count" <=> thread[u].pc = "count"
                             /\ thread'[u].s = thread[u].s
      BY <1>2, <1>3, <1>4
    <2>3. t \in E
      BY <1>2 DEF Users
    <2>4. QED  BY <2>1, <2>2, <2>3 DEF Users
  <1>8. /\ Cardinality(C) \in Nat /\ Cardinality(E) \in Nat
        /\ Cardinality(E \ {t}) = Cardinality(E) - 1
    <2>1. /\ IsFiniteSet(E) /\ Cardinality(C) \in Nat /\ Cardinality(E) \in Nat
      BY UsersFinite
    <2>2. QED  BY <1>7, <2>1, FS_RemoveElement
  <1>9. /\ x.allowed \in Nat /\ x.rejected \in Nat /\ x.requests \in Nat /\ x.events \in Nat
        /\ x.events <= MaxEvents /\ MaxEvents \in Nat
    BY <1>1, CountTypes
  <1>10. /\ x.requests <= x.events + Cardinality(E) \/ x.events = MaxEvents \/ Clears(s, 2)
         /\ x.allowed <= x.requests + Cardinality(C) \/ Clears(s, 3)
         /\ x.allowed + x.rejected <= x.requests + Cardinality(C) \/ Clears(s, 3) \/ Clears(s, 4)
    BY <1>5 DEF BackedFor
  <1>11. /\ y.requests <= y.events + (Cardinality(E) - 1) \/ y.events = MaxEvents \/ Clears(s, 2)
         /\ y.allowed <= y.requests + Cardinality(C) \/ Clears(s, 3)
         /\ y.allowed + y.rejected <= y.requests + Cardinality(C) \/ Clears(s, 3) \/ Clears(s, 4)
    <2> HIDE DEF x, y, C, E
    <2>1. QED  BY <1>6, <1>8, <1>9, <1>10 DEF EventsPlus
  <1> HIDE DEF C, E
  <1>12. QED  BY <1>7, <1>8, <1>11 DEF BackedFor

(***************************************************************************)
(* reset: what it has cleared no longer exceeds what it clears next.       *)
(***************************************************************************)
LEMMA ClearBacked ==
    ASSUME TallyInv, NEW t \in Threads, Clear(t),
           NEW s \in Sessions, s = thread[t].s
    PROVE  BackedFor(s)'
  <1> DEFINE x == session[s]
             y == session'[s]
             n == thread[t].left
             C == Users(s, "count")
             E == Users(s, "event")
  <1>1. WellTyped
    BY DEF TallyInv, GoneInv
  <1>2. /\ thread[t].pc = "clear" /\ n \in 1..4
        /\ \E d : /\ Works(t, s, d, {}) /\ d.s = s
                  /\ IF n < 4 THEN d.pc = "clear" /\ d.left = n + 1 ELSE d.pc = "rebuild"
        /\ n = 1 => session' = [session EXCEPT ![s].events = 0]
        /\ n = 2 => session' = [session EXCEPT ![s].requests = 0]
        /\ n = 3 => session' = [session EXCEPT ![s].allowed = 0]
        /\ n = 4 => session' = [session EXCEPT ![s].rejected = 0]
    BY <1>1, Cleared
  <1>3. PICK d : /\ thread' = [thread EXCEPT ![t] = d] /\ Sound(d) /\ d.s = s
                 /\ IF n < 4 THEN d.pc = "clear" /\ d.left = n + 1 ELSE d.pc = "rebuild"
    BY <1>2 DEF Works
  <1>4. thread'[t] = d /\ \A u \in Threads \ {t} : thread'[u] = thread[u]
    BY <1>1, <1>3, OneMoves
  <1>5. BackedFor(s)
    BY DEF TallyInv
  <1>6. /\ y.events = IF n = 1 THEN 0 ELSE x.events
        /\ y.requests = IF n = 2 THEN 0 ELSE x.requests
        /\ y.allowed = IF n = 3 THEN 0 ELSE x.allowed
        /\ y.rejected = IF n = 4 THEN 0 ELSE x.rejected
    <2>1. session \in [Sessions -> Records]
      BY <1>1 DEF WellTyped
    <2> HIDE DEF n
    <2>2. QED  BY <1>2, <2>1 DEF Records
  <1>7. /\ \A m \in {2, 3, 4} : m # n /\ Clears(s, m) => Clears(s, m)'
        /\ \A m \in {2, 3, 4} : m = n + 1 => Clears(s, m)'
        /\ Users(s, "event")' = E
        /\ Users(s, "count")' = C
    <2>1. \A m \in {2, 3, 4} : m # n /\ Clears(s, m) => Clears(s, m)'
      BY <1>4 DEF Clears
    <2>2. \A m \in {2, 3, 4} : m = n + 1 => Clears(s, m)'
      BY <1>2, <1>3, <1>4 DEF Clears
    <2>3. \A u \in Threads : /\ thread'[u].pc = "event" <=> thread[u].pc = "event"
                             /\ thread'[u].pc = "count" <=> thread[u].pc = "count"
                             /\ thread'[u].s = thread[u].s
      BY <1>2, <1>3, <1>4
    <2>4. QED  BY <2>1, <2>2, <2>3 DEF Users
  <1>8. Cardinality(C) \in Nat /\ Cardinality(E) \in Nat
    BY UsersFinite
  <1>9. /\ x.allowed \in Nat /\ x.rejected \in Nat /\ x.requests \in Nat /\ x.events \in Nat
    BY <1>1, CountTypes
  <1>10. /\ x.requests <= x.events + Cardinality(E) \/ x.events = MaxEvents \/ Clears(s, 2)
         /\ x.allowed <= x.requests + Cardinality(C) \/ Clears(s, 3)
         /\ x.allowed + x.rejected <= x.requests + Cardinality(C) \/ Clears(s, 3) \/ Clears(s, 4)
    BY <1>5 DEF BackedFor
  <1>11. /\ \/ y.requests <= y.events + Cardinality(E) \/ y.events = MaxEvents
            \/ n = 1 \/ (n # 2 /\ Clears(s, 2))
         /\ \/ y.allowed <= y.requests + Cardinality(C)
            \/ n = 2 \/ (n # 3 /\ Clears(s, 3))
         /\ \/ y.allowed + y.rejected <= y.requests + Cardinality(C)
            \/ n = 2 \/ n = 3 \/ (n # 3 /\ Clears(s, 3)) \/ (n # 4 /\ Clears(s, 4))
    <2> HIDE DEF x, y, C, E, n
    <2>1. QED  BY <1>2, <1>6, <1>8, <1>9, <1>10
  <1>12. /\ n = 1 \/ (n # 2 /\ Clears(s, 2)) => Clears(s, 2)'
         /\ n = 2 \/ (n # 3 /\ Clears(s, 3)) => Clears(s, 3)'
         /\ n = 3 \/ (n # 4 /\ Clears(s, 4)) => Clears(s, 4)'
    <2> HIDE DEF n
    <2>1. QED  BY <1>7
  <1> HIDE DEF C, E, n
  <1>13. QED  BY <1>7, <1>11, <1>12 DEF BackedFor

\* Counting for one session is nothing to the others.
LEMMA OthersBacked ==
    ASSUME TallyInv, NEW t \in Threads,
           TallyOutcome(t) \/ CountRequest(t) \/ Record(t) \/ Clear(t),
           NEW s \in Sessions, s # thread[t].s
    PROVE  BackedFor(s)'
  <1> DEFINE r == thread[t].s
  <1>1. WellTyped /\ BackedFor(s)
    BY DEF TallyInv, GoneInv
  <1>2. r \in Sessions /\ \E d : Works(t, r, d, {}) /\ d.s = r
    <2>1. CASE TallyOutcome(t)
      BY <1>1, <2>1, OutcomeCounted
    <2>2. CASE CountRequest(t)
      BY <1>1, <2>2, RequestCounted
    <2>3. CASE Record(t)
      BY <1>1, <2>3, EventRecorded
    <2>4. CASE Clear(t)
      BY <1>1, <2>4, Cleared
    <2>5. QED  BY <2>1, <2>2, <2>3, <2>4
  <1>3. Calm(s)
    <2>1. PICK d : thread' = [thread EXCEPT ![t] = d] /\ Sound(d) /\ d.s = r
      BY <1>2 DEF Works
    <2>2. thread'[t] = d /\ \A u \in Threads \ {t} : thread'[u] = thread[u]
      BY <1>1, <2>1, OneMoves
    <2>3. QED  BY <2>1, <2>2 DEF Calm, Counts
  <1>4. SameCounts(s)
    <2>1. session'[s] = session[s]
      <3>1. \E v : session' = [session EXCEPT ![r] = v]
        BY DEF TallyOutcome, CountRequest, Record, Clear, Increment, Store
      <3>2. session \in [Sessions -> Records]
        BY <1>1 DEF WellTyped
      <3>3. s # r
        OBVIOUS
      <3> HIDE DEF r
      <3>4. QED  BY <3>1, <3>2, <3>3
    <2>2. QED  BY <2>1 DEF SameCounts
  <1>5. QED  BY <1>1, <1>3, <1>4, CalmBacked

\* The session that is counted for, and the others.
LEMMA CountingBacked ==
    ASSUME TallyInv, NEW t \in Threads,
           TallyOutcome(t) \/ CountRequest(t) \/ Record(t) \/ Clear(t)
    PROVE  TallyInv'
  <1>1. GoneInv'
    BY CountingHolds DEF TallyInv
  <1>2. ASSUME NEW s \in Sessions PROVE BackedFor(s)'
    <2>1. CASE s = thread[t].s
      BY <2>1, OutcomeBacked, RequestBacked, RecordBacked, ClearBacked
    <2>2. CASE s # thread[t].s
      BY <2>2, OthersBacked
    <2>3. QED  BY <2>1, <2>2
  <1>3. QED  BY <1>1, <1>2 DEF TallyInv

\* A step in which no session counts.
LEMMA CalmTally ==
    ASSUME TallyInv, GoneInv', \A s \in Sessions : Calm(s) /\ SameCounts(s)
    PROVE  TallyInv'
  BY CalmBacked DEF TallyInv

\* A new session has counted nothing.
LEMMA CreateBacked ==
    ASSUME TallyInv, NEW t \in Threads, NEW s \in Sessions, Create(t, s)
    PROVE  TallyInv'
  <1>1. /\ GoneInv' /\ \A x : Calm(x)
        /\ session'[s] = NewSession
        /\ \A x \in Sessions \ {s} : session'[x] = session[x]
    BY CreateHolds DEF TallyInv
  <1>2. BackedFor(s)'
    <2>1. \A p : Cardinality(Users(s, p)') \in Nat
      <3>1. \A p : Users(s, p)' \in SUBSET Threads
        BY DEF Users
      <3>2. QED  BY <3>1, UsersFinite
    <2> DEFINE C == Cardinality(Users(s, "count")')
               E == Cardinality(Users(s, "event")')
               y == session'[s]
    <2>2. C \in Nat /\ E \in Nat
      BY <2>1
    <2>3. y.allowed = 0 /\ y.rejected = 0 /\ y.requests = 0 /\ y.events = 0
      BY <1>1, NewFacts
    <2> HIDE DEF C, E, y
    <2>4. /\ y.requests <= y.events + E
          /\ y.allowed <= y.requests + C
          /\ y.allowed + y.rejected <= y.requests + C
      BY <2>2, <2>3
    <2>5. QED  BY <2>4 DEF BackedFor, C, E, y
  <1>3. ASSUME NEW x \in Sessions \ {s} PROVE BackedFor(x)'
    BY <1>1, CalmBacked DEF TallyInv, SameCounts
  <1>4. QED  BY <1>1, <1>2, <1>3 DEF TallyInv

\* Nobody has counted anything.
LEMMA InitTally == Init => TallyInv
  <1> SUFFICES ASSUME Init, NEW s \in Sessions PROVE BackedFor(s)
    BY InitGone DEF TallyInv
  <1> DEFINE C == Cardinality(Users(s, "count"))
             E == Cardinality(Users(s, "event"))
             x == session[s]
  <1>1. C \in Nat /\ E \in Nat
    BY UsersFinite
  <1>2. x.allowed = 0 /\ x.rejected = 0 /\ x.requests = 0 /\ x.events = 0
    BY DEF Init, NoSession
  <1> HIDE DEF C, E, x
  <1>3. /\ x.requests <= x.events + E
        /\ x.allowed <= x.requests + C
        /\ x.allowed + x.rejected <= x.requests + C
    BY <1>1, <1>2
  <1>4. QED  BY <1>3 DEF BackedFor, C, E, x

\* One step for every action of Next: four count, the others are calm.
LEMMA NextTally == TallyInv /\ [Next]_vars => TallyInv'
  <1> SUFFICES ASSUME TallyInv, [Next]_vars PROVE TallyInv'
    OBVIOUS
  <1>1. GoneInv /\ GoneInv' /\ WellTyped
    BY NextGone DEF TallyInv, GoneInv
  <1>2. session' = session => \A s \in Sessions : SameCounts(s)
    BY DEF SameCounts
  <1>3. thread' = thread => \A s : Calm(s)
    BY DEF Calm
  <1>4. ASSUME NEW t \in Threads, NEW s \in Sessions,
               \/ \E n \in 1..MaxBurst : Request(t, s, n)
               \/ RequestOutOfRange(t, s) \/ State(t, s)
        PROVE  TallyInv'
    <2>1. PICK d : Works(t, s, d, {}) /\ d.pc \notin {"count", "event"}
      BY <1>1, <1>4, CallStarts
    <2>2. session' = session /\ thread[t].pc = "idle"
      BY <1>4 DEF Request, RequestOutOfRange, State, Get
    <2>3. \A x : Calm(x)
      BY <1>1, <2>1, <2>2, CalmMove DEF Works
    <2>4. QED  BY <1>1, <1>2, <2>2, <2>3, CalmTally
  <1>5. ASSUME NEW t \in Threads, NEW s \in Sessions, Create(t, s)
        PROVE  TallyInv'
    BY <1>5, CreateBacked
  <1>6. ASSUME NEW t \in Threads, NEW s \in Sessions, Reset(t, s) \/ Close(t, s)
        PROVE  TallyInv'
    <2>1. \A x : Calm(x)
      BY <1>1, <1>6, CallDeletes, BegunHolds
    <2>2. session' = session
      BY <1>6 DEF Reset, Close
    <2>3. QED  BY <1>1, <1>2, <2>1, <2>2, CalmTally
  <1>7. ASSUME NEW t \in Threads, EvictStale(t) \/ EvictOldest(t)
        PROVE  TallyInv'
    <2>1. \A x : Calm(x)
      BY <1>1, <1>7, EvictionBegins, BegunHolds
    <2>2. session' = session
      BY <1>7 DEF EvictStale, EvictOldest, Evict
    <2>3. QED  BY <1>1, <1>2, <2>1, <2>2, CalmTally
  <1>8. ASSUME NEW t \in Threads,
               EnterCreate(t) \/ Register(t) \/ DeleteKey(t) \/ DeleteFails(t)
        PROVE  TallyInv'
    <2>1. \A x : Calm(x)
      BY <1>1, <1>8, EnterHolds, RegisterHolds, DeleteKeyHolds, DeleteFailsHolds
    <2>2. session' = session
      BY <1>8 DEF EnterCreate, Register, DeleteKey, DeleteFails
    <2>3. QED  BY <1>1, <1>2, <2>1, <2>2, CalmTally
  <1>9. ASSUME NEW t \in Threads, Rebuild(t)
        PROVE  TallyInv'
    BY <1>1, <1>9, RebuildHolds, CalmTally
  <1>10. ASSUME NEW t \in Threads,
                \/ Send(t) \/ AllowFails(t) \/ ReadAnswers(t) \/ ReadFails(t) \/ Payload(t)
                \/ \E ok \in BOOLEAN : Allow(t, ok)
         PROVE  TallyInv'
    <2>1. \A x \in Sessions : SameCounts(x)
      BY <1>1, <1>10, LimiterAsked
    <2>2. \E d, ks : /\ Works(t, thread[t].s, d, ks)
                     /\ thread[t].pc \notin {"count", "event", "clear"}
                     /\ d.pc \notin {"count", "event"}
      BY <1>1, <1>10, LimiterAsked
    <2>3. \A x : Calm(x)
      BY <1>1, <2>2, CalmMove DEF Works
    <2>4. QED  BY <1>1, <2>1, <2>3, CalmTally
  <1>11. ASSUME NEW t \in Threads, TallyOutcome(t) \/ CountRequest(t) \/ Record(t) \/ Clear(t)
         PROVE  TallyInv'
    BY <1>11, CountingBacked
  <1>12. CASE UNCHANGED <<session, thread>>
    BY <1>1, <1>2, <1>3, <1>12, CalmTally
  <1>13. QED
    BY <1>4, <1>5, <1>6, <1>7, <1>8, <1>9, <1>10, <1>11, <1>12
       DEF Next, NotFound, Expire, StartScan, LookAt, vars

(***************************************************************************)
(* A session that no call counts for or resets shows no more outcomes than *)
(* requests, and no more requests than recorded events up to the cap,      *)
(* however many calls and resets have run into each other before.          *)
(***************************************************************************)
THEOREM CountersBacked == Spec => []TallyBacked
  <1>1. TallyInv => TallyBacked
    <2> SUFFICES ASSUME TallyInv, NEW s \in sessions, ~At(s, {"count", "event", "clear"})
                 PROVE  /\ session[s].allowed + session[s].rejected <= session[s].requests
                        /\ \/ session[s].requests <= session[s].events
                           \/ session[s].events = MaxEvents
                        /\ session[s].events <= MaxEvents
      BY DEF TallyBacked
    <2>1. WellTyped /\ s \in Sessions /\ BackedFor(s)
      BY DEF TallyInv, GoneInv, WellTyped
    <2>2. /\ Users(s, "count") = {} /\ Users(s, "event") = {}
          /\ ~Clears(s, 2) /\ ~Clears(s, 3) /\ ~Clears(s, 4)
      BY DEF At, Users, Clears
    <2>3. Cardinality({}) = 0
      BY FS_EmptySet
    <2> DEFINE x == session[s]
    <2>4. /\ x.requests <= x.events + 0 \/ x.events = MaxEvents
          /\ x.allowed + x.rejected <= x.requests + 0
      BY <2>1, <2>2, <2>3 DEF BackedFor
    <2>5. /\ x.allowed \in Nat /\ x.rejected \in Nat /\ x.requests \in Nat
          /\ x.events \in Nat /\ x.events <= MaxEvents
      BY <2>1, CountTypes
    <2> HIDE DEF x
    <2>6. /\ x.requests <= x.events \/ x.events = MaxEvents
          /\ x.allowed + x.rejected <= x.requests /\ x.events <= MaxEvents
      BY <2>4, <2>5
    <2>7. QED  BY <2>6 DEF x
  <1>2. QED  BY InitTally, NextTally, <1>1, PTL DEF Spec

----------------------------------------------------------------------------
(***************************************************************************)
(* The registry: the sessions are on the list of last accesses, which      *)
(* names nobody twice and nobody who is not registered yet; the lock is    *)
(* with the one call that evicts; while it is, there is room for the       *)
(* session it makes next to the MaxSessions - 1 most recent ones; and      *)
(* while that call looks for the oldest session, none that is older than   *)
(* the best so far has been passed over, unless that one was used since.   *)
(***************************************************************************)
Ordered ==
    /\ order \in Seq(Sessions)
    /\ \A i, j \in 1..Len(order) : order[i] = order[j] => i = j
Listed(s) == \E i \in 1..Len(order) : order[i] = s
Recent(k) == \A i \in 1..Len(order) : i + k > Len(order) => order[i] \in sessions \cup released

Enlisted ==
    /\ \A s \in sessions : Listed(s)
    /\ \A s \in Sessions : Listed(s) => session[s].made
    /\ \A t \in Threads : Makes(thread[t]) => ~Listed(thread[t].own)

LockHeld == \A t \in Threads : Locks(thread[t]) => lock = t

Kept ==
    /\ Cardinality(sessions) <= MaxSessions
    /\ Recent(MaxSessions - 1)
    /\ lock = Nobody => Recent(MaxSessions)

Underway ==
    /\ lock # Nobody /\ Full
    /\ scan.best \in sessions
    /\ scan.unread \subseteq sessions /\ scan.ahead \subseteq scan.unread
    /\ \A i, j \in 1..Len(order) :
          /\ i < j /\ order[i] \in sessions
          /\ order[j] \in scan.ahead \/ (~scan.late /\ order[j] = scan.best)
          => order[i] \in scan.ahead

Scanned ==
    /\ scan \in [best : Sessions \cup {None}, unread : SUBSET Sessions,
                ahead : SUBSET Sessions, late : BOOLEAN]
    /\ scan # NoScan => Underway

RegistryInv == GoneInv /\ Ordered /\ Enlisted /\ LockHeld /\ Kept /\ Scanned

\* Where a listed session stands.
LEMMA PositionIs ==
    ASSUME Ordered, NEW s, Listed(s)
    PROVE  /\ Position(s) \in 1..Len(order) /\ order[Position(s)] = s
           /\ \A i \in 1..Len(order) : order[i] = s => i = Position(s)
           /\ Len(order) \in Nat
  <1>1. Position(s) \in 1..Len(order) /\ order[Position(s)] = s
    BY DEF Listed, Position
  <1>2. QED  BY <1>1 DEF Ordered

(***************************************************************************)
(* The list with one session moved to the end: nobody is lost or doubled,  *)
(* and who was among the last k still is, but for the one that gave way.   *)
(***************************************************************************)
LEMMA MovedLastIs ==
    ASSUME Ordered, NEW s \in Sessions, Listed(s)
    PROVE  LET q == MovedLast(s)
               n == Len(order)
           IN  /\ q \in Seq(Sessions) /\ Len(q) = n /\ n \in Nat
               /\ \A i, j \in 1..n : q[i] = q[j] => i = j
               /\ \A i \in 1..n : \/ i = n /\ q[i] = s
                                  \/ q[i] = order[i]
                                  \/ i + 1 \in 1..n /\ q[i] = order[i + 1]
               /\ \A i \in 1..n : \E j \in 1..n : q[j] = order[i]
               /\ \A i, j \in 1..n : i < j /\ q[i] # s /\ q[j] # s =>
                     \E k, l \in 1..n : k < l /\ order[k] = q[i] /\ order[l] = q[j]
               /\ \A i, j \in 1..n : i < j => q[i] # s
  <1> DEFINE q == MovedLast(s)
             n == Len(order)
             p == Position(s)
  <1>1. /\ p \in 1..n /\ order[p] = s /\ n \in Nat
        /\ \A i \in 1..n : order[i] \in Sessions
        /\ \A i, j \in 1..n : order[i] = order[j] => i = j
    BY PositionIs DEF Ordered
  <1>2. q = [i \in 1..n |-> IF i < p THEN order[i] ELSE IF i < n THEN order[i + 1] ELSE s]
    BY DEF MovedLast
  <1> HIDE DEF q, n, p
  <1>3. ASSUME NEW i \in 1..n
        PROVE  /\ i < p => q[i] = order[i]
               /\ ~(i < p) /\ i < n => i + 1 \in 1..n /\ q[i] = order[i + 1] /\ i + 1 # p
               /\ ~(i < n) => i = n /\ q[i] = s
    BY <1>1, <1>2
  <1>4. q \in Seq(Sessions) /\ Len(q) = n
    <2>1. \A i \in 1..n : q[i] \in Sessions
      BY <1>1, <1>3
    <2>2. q = [i \in 1..n |-> q[i]]
      BY <1>2
    <2>3. q \in [1..n -> Sessions]
      BY <2>1, <2>2
    <2>4. QED  BY <1>1, <2>3
  <1>5. ASSUME NEW i \in 1..n, NEW j \in 1..n, q[i] = q[j]
        PROVE  i = j
    <2> DEFINE at(k) == IF k < p THEN k ELSE IF k < n THEN k + 1 ELSE p
    <2>1. \A k \in 1..n : at(k) \in 1..n /\ q[k] = order[at(k)]
      BY <1>1, <1>3
    <2>2. at(i) = at(j)
      <3> HIDE DEF at
      <3>1. QED  BY <1>1, <1>5, <2>1
    <2>3. QED  BY <1>1, <2>2
  <1>6. \A i \in 1..n : \/ i = n /\ q[i] = s
                        \/ q[i] = order[i]
                        \/ i + 1 \in 1..n /\ q[i] = order[i + 1]
    BY <1>1, <1>3
  <1>7. ASSUME NEW i \in 1..n
        PROVE  \E j \in 1..n : q[j] = order[i]
    <2>1. CASE i < p
      BY <1>3, <2>1
    <2>2. CASE i = p
      <3>1. n \in 1..n /\ ~(n < n)
        BY <1>1
      <3>2. q[n] = s
        BY <1>3, <3>1
      <3>3. QED  BY <1>1, <2>2, <3>1, <3>2
    <2>3. CASE i > p
      <3>1. i - 1 \in 1..n /\ ~(i - 1 < p) /\ i - 1 < n /\ (i - 1) + 1 = i
        BY <1>1, <2>3
      <3>2. q[i - 1] = order[i]
        BY <1>3, <3>1
      <3>3. QED  BY <3>1, <3>2
    <2>4. QED  BY <1>1, <2>1, <2>2, <2>3
  <1>8. ASSUME NEW i \in 1..n, NEW j \in 1..n, i < j
        PROVE  /\ q[i] # s
               /\ q[j] # s => \E k, l \in 1..n : k < l /\ order[k] = q[i] /\ order[l] = q[j]
    <2> DEFINE at(k) == IF k < p THEN k ELSE k + 1
    <2>1. q[n] = s /\ n \in 1..n
      BY <1>1, <1>3
    <2>2. i # n /\ q[i] # s
      BY <1>1, <1>5, <1>8, <2>1
    <2>3. q[j] # s => j # n
      BY <2>1
    <2>4. \A k \in 1..n : k # n => at(k) \in 1..n /\ order[at(k)] = q[k]
      BY <1>1, <1>3
    <2>5. at(i) < at(j)
      BY <1>1, <1>8
    <2> HIDE DEF at
    <2>6. QED  BY <2>2, <2>3, <2>4, <2>5
  <1>9. QED  BY <1>1, <1>4, <1>5, <1>6, <1>7, <1>8 DEF q, n, p

(***************************************************************************)
(* As many listed sessions as there are places for them.                   *)
(***************************************************************************)
LEMMA Placed ==
    ASSUME Ordered, NEW S, NEW m \in 1..Len(order),
           \A s \in S : Listed(s) /\ Position(s) >= m
    PROVE  /\ IsFiniteSet(S) /\ Cardinality(S) \in Nat
           /\ Cardinality(S) <= Len(order) - m + 1
  <1> DEFINE n == Len(order)
             f == [s \in S |-> Position(s)]
  <1>1. n \in Nat /\ m \in Int /\ m <= n
    BY DEF Ordered
  <1>2. IsFiniteSet(m..n) /\ Cardinality(m..n) = n - m + 1
    BY <1>1, FS_Interval
  <1>3. \A s \in S : Position(s) \in m..n /\ order[Position(s)] = s
    BY <1>1, PositionIs
  <1>4. f \in Injection(S, m..n)
    <2>1. f \in [S -> m..n]
      BY <1>3
    <2>2. \A a, b \in S : f[a] = f[b] => a = b
      <3>1. \A a, b \in S : Position(a) = Position(b) => a = b
        BY <1>3
      <3>2. QED  BY <3>1
    <2> HIDE DEF f
    <2>3. QED  BY <2>1, <2>2 DEF Injection, IsInjective
  <1>5. IsFiniteSet(S) /\ Cardinality(S) <= Cardinality(m..n)
    BY <1>2, <1>4, FS_Injection
  <1>6. QED  BY <1>2, <1>5, FS_CardinalityType

\* The registry is finite.
LEMMA RegistryFinite ==
    ASSUME Ordered, \A s \in sessions : Listed(s)
    PROVE  IsFiniteSet(sessions) /\ Cardinality(sessions) \in Nat
  <1>1. CASE sessions = {}
    BY <1>1, FS_EmptySet
  <1>2. CASE sessions # {}
    <2>1. \A s \in sessions : Position(s) \in 1..Len(order)
      BY PositionIs
    <2>2. 1 \in 1..Len(order)
      BY <1>2, <2>1 DEF Ordered
    <2>3. \A s \in sessions : Position(s) >= 1
      BY <2>1
    <2>4. QED  BY <2>2, <2>3, Placed
  <1>3. QED  BY <1>1, <1>2

\* Who is listed when the list has the same members.
LEMMA SameListed ==
    ASSUME WellTyped, Enlisted, sessions' \subseteq sessions, SameMade, SameMakers,
           \A s \in Sessions : Listed(s)' <=> Listed(s)
    PROVE  Enlisted'
  <1>1. \A t \in Threads : Makes(thread[t]) => thread[t].own \in Sessions
    BY DEF WellTyped, Sound
  <1>2. \A t \in Threads : Makes(thread'[t]) =>
            Makes(thread[t]) /\ thread'[t].own = thread[t].own
    BY DEF SameMakers
  <1>3. \A s \in sessions' : Listed(s)'
    BY DEF Enlisted, WellTyped
  <1>4. \A s \in Sessions : Listed(s)' => session'[s].made
    BY DEF Enlisted, SameMade
  <1>5. \A t \in Threads : Makes(thread'[t]) => ~Listed(thread[t].own)'
    BY <1>1, <1>2 DEF Enlisted
  <1>6. QED  BY <1>2, <1>3, <1>4, <1>5 DEF Enlisted, Listed

\* Who holds the lock keeps it.
LEMMA SameLock ==
    ASSUME LockHeld, SameMakers, lock' = lock
    PROVE  LockHeld'
  BY DEF LockHeld, SameMakers

\* A scan that nothing concerns goes on, and none is no problem.
LEMMA SameScan ==
    ASSUME Scanned, UNCHANGED scan,
           UNCHANGED <<sessions, lock, order>> \/ scan = NoScan
    PROVE  Scanned'
  <1>1. CASE UNCHANGED <<sessions, lock, order>>
    BY <1>1 DEF Scanned, Underway, Full
  <1>2. CASE scan = NoScan
    BY <1>2 DEF Scanned
  <1>3. QED  BY <1>1, <1>2

\* Without a selection under way there is nothing to keep in step.
LEMMA ScanEnds ==
    ASSUME scan' = NoScan
    PROVE  Scanned'
  BY DEF Scanned, NoScan

(***************************************************************************)
(* Touching a session, with the lock or without it.                        *)
(***************************************************************************)
LEMMA TouchKeeps ==
    ASSUME RegistryInv, GoneInv', SameMade, SameMakers,
           UNCHANGED <<sessions, lock, released>>,
           UNCHANGED <<order, scan>> \/ \E s \in Sessions : Touch(s)
    PROVE  RegistryInv'
  <1>1. /\ WellTyped /\ Ordered /\ Enlisted /\ LockHeld /\ Kept /\ Scanned
        /\ sessions \subseteq Sessions
    BY DEF RegistryInv, GoneInv, WellTyped
  <1>2. LockHeld'
    BY <1>1, SameLock
  <1>3. CASE UNCHANGED <<order, scan>>
    <2>1. Ordered' /\ \A s \in Sessions : Listed(s)' <=> Listed(s)
      BY <1>1, <1>3 DEF Ordered, Listed
    <2>2. \A k : Recent(k)' <=> Recent(k)
      BY <1>3 DEF Recent
    <2>3. Kept'
      BY <1>1, <2>2 DEF Kept
    <2>4. Scanned'
      BY <1>1, <1>3, SameScan
    <2>5. QED  BY <1>1, <1>2, <2>1, <2>3, <2>4, SameListed DEF RegistryInv
  <1>4. CASE \E s \in sessions : Touch(s)
    <2>1. PICK s \in sessions :
              /\ order' = MovedLast(s)
              /\ scan' = [scan EXCEPT !.ahead = scan.ahead \ {s},
                                      !.late = scan.late \/ s = scan.best]
      BY <1>4 DEF Touch
    <2> DEFINE n == Len(order)
    <2>2. /\ order' \in Seq(Sessions) /\ Len(order') = n /\ n \in Nat
          /\ \A i, j \in 1..n : order'[i] = order'[j] => i = j
          /\ \A i \in 1..n : \/ i = n /\ order'[i] = s
                             \/ order'[i] = order[i]
                             \/ i + 1 \in 1..n /\ order'[i] = order[i + 1]
          /\ \A i \in 1..n : \E j \in 1..n : order'[j] = order[i]
          /\ \A i, j \in 1..n : i < j /\ order'[i] # s /\ order'[j] # s =>
                \E k, l \in 1..n : k < l /\ order[k] = order'[i] /\ order[l] = order'[j]
          /\ \A i, j \in 1..n : i < j => order'[i] # s
      <3>1. s \in Sessions /\ Listed(s)
        BY <1>1 DEF Enlisted
      <3> DEFINE q == MovedLast(s)
      <3>2. /\ q \in Seq(Sessions) /\ Len(q) = n /\ n \in Nat
            /\ \A i, j \in 1..n : q[i] = q[j] => i = j
            /\ \A i \in 1..n : \/ i = n /\ q[i] = s
                               \/ q[i] = order[i]
                               \/ i + 1 \in 1..n /\ q[i] = order[i + 1]
            /\ \A i \in 1..n : \E j \in 1..n : q[j] = order[i]
            /\ \A i, j \in 1..n : i < j /\ q[i] # s /\ q[j] # s =>
                  \E k, l \in 1..n : k < l /\ order[k] = q[i] /\ order[l] = q[j]
            /\ \A i, j \in 1..n : i < j => q[i] # s
        BY <1>1, <3>1, MovedLastIs
      <3>3. order' = q
        BY <2>1
      <3> HIDE DEF q
      <3>4. QED  BY <3>2, <3>3
    <2>3. Ordered'
      BY <2>2 DEF Ordered
    <2>4. ASSUME NEW x \in Sessions PROVE Listed(x)' <=> Listed(x)
      <3>1. Listed(x)' <=> \E i \in 1..n : order'[i] = x
        BY <2>2 DEF Listed
      <3>2. Listed(s)
        BY <1>1 DEF Enlisted
      <3>3. Listed(x) => Listed(x)'
        <4>1. \A i \in 1..n : \E j \in 1..n : order'[j] = order[i]
          BY <2>2
        <4>2. QED  BY <3>1, <4>1 DEF Listed
      <3>4. ASSUME NEW i \in 1..n, order'[i] = x PROVE Listed(x)
        <4>1. CASE order'[i] = s
          BY <3>2, <3>4, <4>1
        <4>2. CASE order'[i] = order[i]
          BY <3>4, <4>2 DEF Listed
        <4>3. CASE i + 1 \in 1..n /\ order'[i] = order[i + 1]
          BY <3>4, <4>3 DEF Listed
        <4>4. QED  BY <2>2, <4>1, <4>2, <4>3
      <3>5. QED  BY <3>1, <3>3, <3>4
    <2>5. ASSUME NEW k \in Int, Recent(k) PROVE Recent(k)'
      <3>1. ASSUME NEW i \in 1..n, i + k > n
            PROVE  order'[i] \in sessions \cup released
        <4>1. CASE order'[i] = s
          BY <4>1
        <4>2. CASE order'[i] = order[i]
          BY <2>5, <3>1, <4>2 DEF Recent
        <4>3. CASE i + 1 \in 1..n /\ order'[i] = order[i + 1]
          <5>1. (i + 1) + k > n
            BY <2>2, <3>1
          <5>2. QED  BY <2>5, <4>3, <5>1 DEF Recent
        <4>4. QED  BY <2>2, <4>1, <4>2, <4>3
      <3>2. QED  BY <2>2, <3>1 DEF Recent
    <2>6. Kept'
      <3>1. MaxSessions \in Int /\ MaxSessions - 1 \in Int
        BY PlaygroundAssumption DEF PlaygroundAssumption
      <3>2. QED  BY <1>1, <2>5, <3>1 DEF Kept
    <2>7. Scanned'
      <3>1. CASE scan = NoScan
        <4>1. s # None
          BY <1>1, PlaygroundAssumption DEF PlaygroundAssumption
        <4>2. scan' = scan
          <5>1. /\ scan.ahead = {} /\ scan.late = FALSE /\ s # scan.best
                /\ scan \in [best : Sessions \cup {None}, unread : SUBSET Sessions,
                             ahead : SUBSET Sessions, late : BOOLEAN]
            BY <1>1, <3>1, <4>1 DEF Scanned, NoScan
          <5>2. QED  BY <2>1, <5>1
        <4>3. QED  BY <1>1, <3>1, <4>2, SameScan
      <3>2. CASE scan # NoScan
        <4>1. Underway /\ scan \in [best : Sessions \cup {None}, unread : SUBSET Sessions,
                                   ahead : SUBSET Sessions, late : BOOLEAN]
          BY <1>1, <3>2 DEF Scanned
        <4>2. /\ scan' \in [best : Sessions \cup {None}, unread : SUBSET Sessions,
                            ahead : SUBSET Sessions, late : BOOLEAN]
              /\ scan'.best = scan.best /\ scan'.unread = scan.unread
              /\ scan'.ahead = scan.ahead \ {s}
              /\ scan'.late <=> scan.late \/ s = scan.best
          BY <2>1, <4>1
        <4>3. ASSUME NEW i \in 1..n, NEW j \in 1..n, i < j, order'[i] \in sessions,
                     order'[j] \in scan'.ahead \/ (~scan'.late /\ order'[j] = scan.best)
              PROVE  order'[i] \in scan'.ahead
          <5>1. order'[i] # s /\ order'[j] # s
            BY <2>2, <4>2, <4>3
          <5>2. PICK k \in 1..n, l \in 1..n :
                    k < l /\ order[k] = order'[i] /\ order[l] = order'[j]
            BY <2>2, <4>3, <5>1
          <5>3. order[l] \in scan.ahead \/ (~scan.late /\ order[l] = scan.best)
            BY <4>2, <4>3, <5>2
          <5>4. order'[i] \in scan.ahead
            BY <4>1, <4>3, <5>2, <5>3 DEF Underway
          <5>5. QED  BY <4>2, <5>1, <5>4
        <4>4. Full' <=> Full
          BY DEF Full
        <4>5. Underway'
          BY <2>2, <4>1, <4>2, <4>3, <4>4 DEF Underway
        <4>6. QED  BY <4>2, <4>5 DEF Scanned
      <3>3. QED  BY <3>1, <3>2
    <2>8. QED  BY <1>1, <1>2, <2>3, <2>4, <2>6, <2>7, SameListed DEF RegistryInv
  <1>5. QED  BY <1>1, <1>3, <1>4 DEF Touch

(***************************************************************************)
(* A session leaves the registry while nobody looks for the oldest: it is  *)
(* released, or it is the oldest of at least MaxSessions.                  *)
(***************************************************************************)
LEMMA LeavingKeeps ==
    ASSUME RegistryInv, GoneInv', SameMade, SameMakers, NEW s \in Sessions,
           UNCHANGED <<lock, order>>, sessions' = sessions \ {s}, scan' = NoScan,
           \/ released' = released \cup {s}
           \/ /\ released' = released /\ lock # Nobody
              /\ Full /\ s \in sessions
              /\ \A r \in sessions : Position(s) <= Position(r)
    PROVE  RegistryInv'
  <1>1. WellTyped /\ Ordered /\ Enlisted /\ LockHeld /\ Kept
    BY DEF RegistryInv, GoneInv
  <1>2. LockHeld' /\ Ordered' /\ Enlisted' /\ Scanned'
    <2>1. \A x \in Sessions : Listed(x)' <=> Listed(x)
      BY DEF Listed
    <2>2. Ordered'
      BY <1>1 DEF Ordered
    <2>3. QED  BY <1>1, <2>1, <2>2, SameLock, SameListed, ScanEnds
  <1>3. MaxSessions \in Nat
    BY PlaygroundAssumption DEF PlaygroundAssumption
  <1>4. IsFiniteSet(sessions) /\ Cardinality(sessions) \in Nat
    BY <1>1, RegistryFinite DEF Enlisted
  <1>5. Cardinality(sessions') <= MaxSessions
    <2>1. Cardinality(sessions \ {s}) =
              IF s \in sessions THEN Cardinality(sessions) - 1 ELSE Cardinality(sessions)
      BY <1>4, FS_RemoveElement
    <2>2. Cardinality(sessions) <= MaxSessions
      BY <1>1 DEF Kept
    <2>3. QED  BY <1>3, <1>4, <2>1, <2>2
  <1>6. CASE released' = released \cup {s}
    <2>1. \A k : Recent(k) => Recent(k)'
      BY <1>6 DEF Recent
    <2>2. Kept'
      BY <1>1, <1>5, <2>1 DEF Kept
    <2>3. QED  BY <1>2, <2>2 DEF RegistryInv
  <1>7. CASE /\ released' = released /\ lock # Nobody
             /\ Full /\ s \in sessions
             /\ \A r \in sessions : Position(s) <= Position(r)
    <2> DEFINE n == Len(order)
               m == Position(s)
    <2>1. m \in 1..n /\ order[m] = s /\ n \in Nat
          /\ \A i \in 1..n : order[i] = s => i = m
      BY <1>1, <1>7, PositionIs DEF Enlisted
    <2>2. Cardinality(sessions) <= n - m + 1
      <3>1. \A r \in sessions : Listed(r) /\ m <= Position(r) /\ Position(r) \in 1..n
        BY <1>1, <1>7, PositionIs DEF Enlisted
      <3>2. \A r \in sessions : Position(r) >= m
        BY <2>1, <3>1
      <3>3. QED  BY <1>1, <2>1, <3>1, <3>2, Placed
    <2>3. MaxSessions <= n - m + 1
      BY <1>3, <1>4, <1>7, <2>1, <2>2 DEF Full
    <2>4. Recent(MaxSessions - 1)'
      <3>1. ASSUME NEW i \in 1..n, i + (MaxSessions - 1) > n
            PROVE  order[i] \in (sessions \ {s}) \cup released
        <4>1. i # m
          BY <1>3, <2>1, <2>3, <3>1
        <4>2. order[i] \in sessions \cup released
          BY <1>1, <3>1 DEF Kept, Recent
        <4>3. QED  BY <2>1, <4>1, <4>2
      <3>2. QED  BY <1>7, <3>1 DEF Recent
    <2>5. Kept'
      BY <1>5, <1>7, <2>4 DEF Kept
    <2>6. QED  BY <1>2, <2>5 DEF RegistryInv
  <1>8. QED  BY <1>6, <1>7

(***************************************************************************)
(* Looking for the oldest: min() takes the first session, and then each    *)
(* one that is ahead of the best so far.                                   *)
(***************************************************************************)
LEMMA LookingKeeps ==
    ASSUME RegistryInv, NEW t \in Threads, StartScan(t) \/ LookAt(t)
    PROVE  RegistryInv'
  <1>1. /\ GoneInv /\ WellTyped /\ Ordered /\ Enlisted /\ LockHeld /\ Kept /\ Scanned
        /\ UNCHANGED <<sessions, lock, session, order, keys, thread, doomed, released>>
        /\ thread[t].pc = "evict" /\ sessions \subseteq Sessions
    BY DEF RegistryInv, GoneInv, WellTyped, StartScan, LookAt
  <1>2. GoneInv' /\ Ordered' /\ Enlisted' /\ LockHeld' /\ Kept'
    BY <1>1, StutterGone DEF Ordered, Enlisted, Listed, LockHeld, Kept, Recent
  <1>3. lock # Nobody
    BY <1>1, PlaygroundAssumption DEF PlaygroundAssumption, LockHeld, Locks, Makes
  <1>4. ASSUME NEW s \in sessions, NEW rest \in SUBSET sessions, Ahead(s) \subseteq rest,
               Full, scan' = Took(s, rest)
        PROVE  Scanned'
    <2>1. /\ scan'.best = s /\ scan'.unread = rest /\ scan'.ahead = Ahead(s)
          /\ scan' \in [best : Sessions \cup {None}, unread : SUBSET Sessions,
                        ahead : SUBSET Sessions, late : BOOLEAN]
      BY <1>1, <1>4 DEF Took, Ahead
    <2>2. ASSUME NEW i \in 1..Len(order), NEW j \in 1..Len(order),
                 i < j, order[i] \in sessions, order[j] \in Ahead(s) \/ order[j] = s
          PROVE  order[i] \in Ahead(s)
      <3>1. order[j] \in sessions
        BY <2>2 DEF Ahead
      <3>2. /\ i = Position(order[i]) /\ j = Position(order[j])
            /\ Position(s) \in Int
        BY <1>1, <2>2, <3>1, PositionIs DEF Enlisted
      <3>3. j <= Position(s)
        BY <2>2, <3>2 DEF Ahead
      <3>4. QED  BY <2>2, <3>2, <3>3 DEF Ahead
    <2>3. Full'
      BY <1>1, <1>4 DEF Full
    <2>4. Underway'
      BY <1>1, <1>3, <1>4, <2>1, <2>2, <2>3 DEF Underway
    <2>5. QED  BY <2>1, <2>4 DEF Scanned
  <1>5. CASE StartScan(t)
    <2>1. PICK s \in sessions : scan' = Took(s, sessions \ {s})
      BY <1>5 DEF StartScan
    <2>2. Full /\ sessions \ {s} \in SUBSET sessions
      BY <1>5 DEF StartScan
    <2>3. Ahead(s) \subseteq sessions \ {s}
      <3>1. Position(s) \in Int
        BY <1>1, PositionIs DEF Enlisted
      <3>2. ~(Position(s) < Position(s))
        BY <3>1
      <3>3. QED  BY <3>2 DEF Ahead
    <2>4. QED  BY <1>2, <1>4, <2>1, <2>2, <2>3 DEF RegistryInv
  <1>6. CASE LookAt(t)
    <2>1. PICK s \in scan.unread :
              scan' = IF s \in scan.ahead THEN Took(s, scan.unread \ {s})
                      ELSE [scan EXCEPT !.unread = scan.unread \ {s}]
      BY <1>6 DEF LookAt
    <2>2. Underway
      BY <1>1, <2>1 DEF Scanned, NoScan
    <2>3. CASE s \in scan.ahead
      <3>1. s \in sessions /\ Full /\ scan.unread \ {s} \in SUBSET sessions
        BY <2>1, <2>2 DEF Underway
      <3>2. Ahead(s) \subseteq scan.unread \ {s}
        <4>1. ASSUME NEW r \in Ahead(s) PROVE r \in scan.ahead /\ r # s
          <5>1. /\ r \in sessions /\ Position(r) < Position(s)
                /\ Position(r) \in 1..Len(order) /\ order[Position(r)] = r
                /\ Position(s) \in 1..Len(order) /\ order[Position(s)] = s
            BY <1>1, <3>1, <4>1, PositionIs DEF Ahead, Enlisted
          <5>2. r # s
            BY <5>1
          <5>3. QED  BY <2>2, <2>3, <5>1, <5>2 DEF Underway
        <4>2. QED  BY <2>2, <4>1 DEF Underway
      <3>3. QED  BY <1>2, <1>4, <2>1, <2>3, <3>1, <3>2 DEF RegistryInv
    <2>4. CASE s \notin scan.ahead
      <3>1. /\ scan'.best = scan.best /\ scan'.unread = scan.unread \ {s}
            /\ scan'.ahead = scan.ahead /\ scan'.late = scan.late
            /\ scan' \in [best : Sessions \cup {None}, unread : SUBSET Sessions,
                          ahead : SUBSET Sessions, late : BOOLEAN]
        BY <1>1, <2>1, <2>4 DEF Scanned
      <3>2. Full'
        BY <1>1, <2>2 DEF Full, Underway
      <3>3. Underway'
        BY <1>1, <2>2, <2>4, <3>1, <3>2 DEF Underway
      <3>4. Scanned'
        BY <3>1, <3>3 DEF Scanned
      <3>5. QED  BY <1>2, <3>4 DEF RegistryInv
    <2>5. QED  BY <2>3, <2>4
  <1>7. QED  BY <1>5, <1>6

(***************************************************************************)
(* The three steps of create_session: made, in, registered.                *)
(***************************************************************************)
LEMMA CreateKeeps ==
    ASSUME RegistryInv, NEW t \in Threads, NEW s \in Sessions, Create(t, s)
    PROVE  RegistryInv'
  <1> DEFINE d == [Idle EXCEPT !.pc = "enter", !.op = "create", !.own = s]
  <1>1. /\ WellTyped /\ Ordered /\ Enlisted /\ LockHeld /\ Kept
        /\ thread' = [thread EXCEPT ![t] = d] /\ ~session[s].made
        /\ UNCHANGED <<sessions, lock, order, released>> /\ thread[t].pc = "idle"
    BY DEF RegistryInv, GoneInv, Create
  <1>2. /\ GoneInv' /\ session'[s] = NewSession
        /\ \A x \in Sessions \ {s} : session'[x] = session[x]
    BY CreateHolds DEF RegistryInv
  <1>3. d.pc = "enter" /\ d.own = s
    <2>1. Shaped(Idle)
      BY IdleSound DEF Sound
    <2>2. QED  BY <2>1 DEF Shaped
  <1> HIDE DEF d
  <1>4. thread'[t] = d /\ \A u \in Threads \ {t} : thread'[u] = thread[u]
    BY <1>1 DEF WellTyped
  <1>5. \A x : Listed(x)' <=> Listed(x)
    BY <1>1 DEF Listed
  <1>6. ~Listed(s)
    BY <1>1 DEF Enlisted
  <1>7. Enlisted'
    <2>1. \A x \in Sessions : Listed(x) => session'[x].made
      BY <1>1, <1>2, <1>6 DEF Enlisted
    <2>2. \A u \in Threads : Makes(thread'[u]) => ~Listed(thread'[u].own)
      BY <1>1, <1>3, <1>4, <1>6 DEF Enlisted
    <2>3. \A x \in sessions : Listed(x)
      BY <1>1 DEF Enlisted
    <2>4. QED  BY <1>1, <2>1, <2>2, <2>3 DEF Enlisted, Listed
  <1>8. LockHeld'
    BY <1>1, <1>3, <1>4 DEF LockHeld, Locks
  <1>9. Ordered' /\ Kept'
    BY <1>1 DEF Ordered, Kept, Recent
  <1>10. Scanned'
    BY SameScan DEF RegistryInv, Create
  <1>11. QED  BY <1>2, <1>7, <1>8, <1>9, <1>10 DEF RegistryInv

\* Who takes the free lock is the only one to evict.
LEMMA EnterKeeps ==
    ASSUME RegistryInv, NEW t \in Threads, EnterCreate(t)
    PROVE  RegistryInv'
  <1>1. /\ WellTyped /\ Ordered /\ Enlisted /\ LockHeld /\ Kept /\ GoneInv'
        /\ thread[t].pc = "enter" /\ lock = Nobody /\ lock' = t
        /\ UNCHANGED <<sessions, session, order, released>>
    BY EnterHolds DEF RegistryInv, GoneInv, EnterCreate
  <1>2. t # Nobody /\ \A u \in Threads : ~Locks(thread[u])
    BY <1>1, PlaygroundAssumption DEF PlaygroundAssumption, LockHeld
  <1>3. /\ thread'[t].own = thread[t].own /\ Makes(thread[t])
        /\ \A u \in Threads \ {t} : thread'[u] = thread[u]
    <2>1. PICK n \in 0..Len(order) :
              thread' = [thread EXCEPT ![t].pc = "evict",
                                       ![t].stale = {s \in sessions : Position(s) <= n}]
      BY DEF EnterCreate
    <2>2. Shaped(thread[t])
      BY <1>1, CallFacts
    <2>3. QED  BY <1>1, <2>1, <2>2 DEF WellTyped, Shaped, Makes
  <1>4. LockHeld'
    BY <1>1, <1>2, <1>3 DEF LockHeld
  <1>5. Enlisted'
    <2>1. \A u \in Threads : Makes(thread'[u]) => ~Listed(thread'[u].own)
      BY <1>1, <1>3 DEF Enlisted
    <2>2. QED  BY <1>1, <2>1 DEF Enlisted, Listed
  <1>6. Ordered'
    BY <1>1 DEF Ordered
  <1>7. Kept'
    BY <1>1, <1>2 DEF Kept, Recent
  <1>8. Scanned'
    <2>1. scan = NoScan
      BY <1>1 DEF RegistryInv, Scanned, Underway
    <2>2. QED  BY <2>1, SameScan DEF RegistryInv, EnterCreate
  <1>9. QED  BY <1>1, <1>4, <1>5, <1>6, <1>7, <1>8 DEF RegistryInv

\* The new session takes the place that was kept free, as the most recent one.
LEMMA RegisterKeeps ==
    ASSUME RegistryInv, NEW t \in Threads, Register(t)
    PROVE  RegistryInv'
  <1> DEFINE s == thread[t].own
             n == Len(order)
  <1>1. /\ WellTyped /\ Unborn /\ Ordered /\ Enlisted /\ LockHeld /\ Kept /\ GoneInv'
        /\ thread[t].pc = "evict" /\ ~Full /\ lock' = Nobody
        /\ sessions' = sessions \cup {s} /\ order' = Append(order, s)
        /\ thread' = [thread EXCEPT ![t] = Answering(s)]
        /\ UNCHANGED <<session, released>>
    BY RegisterHolds DEF RegistryInv, GoneInv, Register
  <1>2. /\ Makes(thread[t]) /\ Locks(thread[t]) /\ s \in Sessions
        /\ session[s].made /\ ~Listed(s)
    BY <1>1, CallFacts DEF Makes, Locks, Sound, Unborn, Enlisted
  <1>3. /\ ~Makes(thread'[t])
        /\ \A u \in Threads \ {t} :
              /\ thread'[u] = thread[u] /\ ~Locks(thread[u])
              /\ Makes(thread[u]) => thread[u].own # s
    <2>1. thread'[t] = Answering(s) /\ \A u \in Threads \ {t} : thread'[u] = thread[u]
      BY <1>1 DEF WellTyped
    <2>2. ~Makes(Answering(s))
      BY <1>2, AnsweringSound DEF Makes
    <2>3. \A u \in Threads \ {t} : /\ ~Locks(thread[u])
                                   /\ Makes(thread[u]) => thread[u].own # s
      BY <1>1, <1>2 DEF LockHeld, Unborn
    <2>4. QED  BY <2>1, <2>2, <2>3
  <1> HIDE DEF s
  <1>4. /\ order' \in Seq(Sessions) /\ Len(order') = n + 1 /\ n \in Nat
        /\ \A i \in 1..n : i \in 1..(n + 1) /\ order'[i] = order[i]
        /\ order'[n + 1] = s /\ n + 1 \in 1..(n + 1)
        /\ \A i \in 1..(n + 1) : i \in 1..n \/ i = n + 1
    BY <1>1, <1>2 DEF Ordered
  <1>5. Ordered'
    <2>1. ASSUME NEW i \in 1..(n + 1), NEW j \in 1..(n + 1), order'[i] = order'[j]
          PROVE  i = j
      <3>1. \A k \in 1..n : order[k] # s
        BY <1>2 DEF Listed
      <3>2. \A a, b \in 1..n : order[a] = order[b] => a = b
        BY <1>1 DEF Ordered
      <3> HIDE DEF n
      <3>3. CASE i \in 1..n /\ j \in 1..n
        BY <1>4, <2>1, <3>2, <3>3
      <3>4. CASE i = n + 1 /\ j \in 1..n
        BY <1>4, <2>1, <3>1, <3>4
      <3>5. CASE i \in 1..n /\ j = n + 1
        BY <1>4, <2>1, <3>1, <3>5
      <3>6. QED  BY <1>4, <3>3, <3>4, <3>5
    <2>2. QED  BY <1>4, <2>1 DEF Ordered
  <1>6. \A x : Listed(x)' <=> Listed(x) \/ x = s
    <2>1. \A x : Listed(x)' <=> \E i \in 1..(n + 1) : order'[i] = x
      BY <1>4 DEF Listed
    <2>2. \A x : Listed(x) <=> \E i \in 1..n : order[i] = x
      BY DEF Listed
    <2> HIDE DEF n
    <2>3. QED  BY <1>4, <2>1, <2>2
  <1>7. Enlisted'
    <2>1. \A x \in sessions' : Listed(x)'
      BY <1>1, <1>6 DEF Enlisted
    <2>2. \A x \in Sessions : Listed(x)' => session'[x].made
      BY <1>1, <1>2, <1>6 DEF Enlisted
    <2>3. \A u \in Threads : Makes(thread'[u]) =>
              /\ thread'[u] = thread[u]
              /\ ~Listed(thread[u].own) /\ thread[u].own # s
      BY <1>1, <1>3 DEF Enlisted
    <2>4. \A x : (\E i \in 1..Len(order') : order'[i] = x) <=> Listed(x) \/ x = s
      BY <1>6 DEF Listed
    <2>5. \A u \in Threads : Makes(thread'[u]) =>
              ~\E i \in 1..Len(order') : order'[i] = thread'[u].own
      BY <2>3, <2>4
    <2>6. QED  BY <2>1, <2>2, <2>5 DEF Enlisted, Listed
  <1>8. LockHeld'
    BY <1>3 DEF LockHeld, Locks
  <1>9. Kept'
    <2>1. MaxSessions \in Nat
      BY PlaygroundAssumption DEF PlaygroundAssumption
    <2>2. IsFiniteSet(sessions) /\ Cardinality(sessions) \in Nat
      BY <1>1, RegistryFinite DEF Enlisted
    <2>3. Cardinality(sessions') <= MaxSessions
      <3>1. Cardinality(sessions \cup {s}) =
                IF s \in sessions THEN Cardinality(sessions) ELSE Cardinality(sessions) + 1
        BY <2>2, FS_AddElement
      <3>2. Cardinality(sessions) < MaxSessions
        BY <1>1, <2>1, <2>2 DEF Full
      <3>3. QED  BY <1>1, <2>1, <2>2, <3>1, <3>2
    <2>4. ASSUME NEW k \in {MaxSessions - 1, MaxSessions}, NEW i \in 1..(n + 1), i + k > n + 1
          PROVE  order'[i] \in sessions' \cup released'
      <3>1. CASE i = n + 1
        BY <1>1, <1>4, <3>1
      <3>2. CASE i \in 1..n
        <4>1. i + (MaxSessions - 1) > n
          BY <1>4, <2>1, <2>4, <3>2
        <4>2. order[i] \in sessions \cup released
          BY <1>1, <3>2, <4>1 DEF Kept, Recent
        <4>3. QED  BY <1>1, <1>4, <3>2, <4>2
      <3>3. QED  BY <1>4, <3>1, <3>2
    <2>5. QED  BY <1>4, <2>3, <2>4 DEF Kept, Recent
  <1>10. Scanned'
    <2>1. scan = NoScan
      BY <1>1 DEF RegistryInv, Scanned, Underway
    <2>2. QED  BY <2>1, SameScan DEF RegistryInv, Register
  <1>11. QED  BY <1>1, <1>5, <1>7, <1>8, <1>9, <1>10 DEF RegistryInv

\* A call on its session neither takes the lock nor gives it back.
LEMMA WorksMakers ==
    ASSUME WellTyped, NEW t \in Threads, NEW s, NEW d, NEW ks, Works(t, s, d, ks)
    PROVE  SameMakers
  <1>1. /\ thread' = [thread EXCEPT ![t] = d] /\ Sound(d) /\ ~Makes(thread[t]) /\ ~Makes(d)
    BY DEF Works
  <1>2. thread[t].pc # "enter" /\ d.pc # "enter"
    BY <1>1 DEF Makes
  <1>3. QED  BY <1>1, <1>2, MakersMove

\* The registry is empty and its lock is free.
LEMMA InitRegistry == Init => RegistryInv
  <1> SUFFICES ASSUME Init PROVE RegistryInv
    OBVIOUS
  <1>1. GoneInv
    BY InitGone
  <1>2. order = <<>> /\ Len(order) = 0 /\ order \in Seq(Sessions)
    BY DEF Init
  <1>3. Ordered /\ \A s : ~Listed(s)
    BY <1>2 DEF Ordered, Listed
  <1>4. Enlisted
    BY <1>3 DEF Init, Enlisted
  <1>5. LockHeld
    BY IdleSound DEF Init, LockHeld, Locks, Makes
  <1>6. Kept
    <2>1. Cardinality(sessions) = 0 /\ MaxSessions \in Nat
      BY FS_EmptySet, PlaygroundAssumption DEF Init, PlaygroundAssumption
    <2>2. QED  BY <1>2, <2>1 DEF Kept, Recent
  <1>7. Scanned
    BY DEF Init, Scanned, NoScan
  <1>8. QED  BY <1>1, <1>3, <1>4, <1>5, <1>6, <1>7 DEF RegistryInv

\* One step for every action of Next: most only touch sessions.
LEMMA NextRegistry == RegistryInv /\ [Next]_vars => RegistryInv'
  <1> SUFFICES ASSUME RegistryInv, [Next]_vars PROVE RegistryInv'
    OBVIOUS
  <1>1. GoneInv /\ GoneInv' /\ WellTyped
    BY NextGone DEF RegistryInv, GoneInv
  <1>2. session' = session => SameMade
    BY <1>1, SameSession
  <1>3. thread' = thread => SameMakers
    BY DEF SameMakers
  <1>4. ASSUME NEW t \in Threads, NEW s \in Sessions,
               \/ \E n \in 1..MaxBurst : Request(t, s, n)
               \/ RequestOutOfRange(t, s) \/ State(t, s)
        PROVE  RegistryInv'
    <2>1. SameMakers
      BY <1>1, <1>4, CallStarts, WorksMakers
    <2>2. Touch(s) /\ UNCHANGED <<sessions, session, lock, released>>
      BY <1>4 DEF Request, RequestOutOfRange, State
    <2>3. QED  BY <1>1, <1>2, <2>1, <2>2, TouchKeeps
  <1>5. ASSUME NEW t \in Threads, NEW s \in Sessions, Create(t, s)
        PROVE  RegistryInv'
    BY <1>5, CreateKeeps
  <1>6. ASSUME NEW t \in Threads, NEW s \in Sessions, Reset(t, s) \/ Close(t, s)
        PROVE  RegistryInv'
    <2>1. SameMakers
      BY <1>1, <1>6, CallDeletes, BegunHolds
    <2>2. CASE Reset(t, s)
      <3>1. Touch(s) /\ UNCHANGED <<sessions, session, lock, released>>
        BY <2>2 DEF Reset
      <3>2. QED  BY <1>1, <1>2, <2>1, <3>1, TouchKeeps
    <2>3. CASE Close(t, s)
      <3>1. /\ sessions' = sessions \ {s} /\ released' = released \cup {s}
            /\ UNCHANGED <<session, lock, order>>
        BY <2>3 DEF Close
      <3>2. scan' = NoScan
        <4>1. lock = Nobody /\ scan' = scan
          BY <2>3 DEF Close, Get
        <4>2. QED  BY <4>1 DEF RegistryInv, Scanned, Underway
      <3>3. QED  BY <1>1, <1>2, <2>1, <3>1, <3>2, LeavingKeeps
    <2>4. QED  BY <1>6, <2>2, <2>3
  <1>7. ASSUME NEW t \in Threads, EnterCreate(t) \/ Register(t)
        PROVE  RegistryInv'
    BY <1>7, EnterKeeps, RegisterKeeps
  <1>8. ASSUME NEW t \in Threads, EvictStale(t) \/ EvictOldest(t)
        PROVE  RegistryInv'
    <2>1. SameMakers
      BY <1>1, <1>8, EvictionBegins, BegunHolds
    <2>2. UNCHANGED <<session, lock, order>> /\ thread[t].pc = "evict"
      BY <1>8 DEF EvictStale, EvictOldest, Evict
    <2>3. CASE EvictStale(t)
      <3>1. PICK s \in thread[t].stale :
                sessions' = sessions \ {s} /\ released' = released \cup {s}
        BY <2>3 DEF EvictStale, Evict
      <3>2. s \in Sessions
        BY <1>1, <3>1, CallFacts DEF Shaped
      <3>3. scan' = NoScan
        BY <2>3 DEF EvictStale
      <3>4. QED  BY <1>1, <1>2, <2>1, <2>2, <3>1, <3>2, <3>3, LeavingKeeps
    <2>4. CASE EvictOldest(t)
      <3>1. /\ scan.best \in sessions /\ scan.unread = {} /\ scan' = NoScan
            /\ sessions' = sessions \ {scan.best}
            /\ released' = IF scan.late THEN released \cup {scan.best} ELSE released
        BY <2>4 DEF EvictOldest, Evict
      <3>2. sessions \subseteq Sessions /\ scan.best # None
        BY <1>1, <3>1, PlaygroundAssumption DEF WellTyped, PlaygroundAssumption
      <3>3. Underway /\ lock # Nobody /\ Full
        BY <3>2 DEF RegistryInv, Scanned, Underway, NoScan
      <3>4. CASE scan.late
        BY <1>1, <1>2, <2>1, <2>2, <3>1, <3>2, <3>4, LeavingKeeps
      <3>5. CASE ~scan.late
        <4>1. ASSUME NEW r \in sessions PROVE Position(scan.best) <= Position(r)
          <5>1. /\ Position(r) \in 1..Len(order) /\ order[Position(r)] = r
                /\ Position(scan.best) \in 1..Len(order)
                /\ order[Position(scan.best)] = scan.best
            BY <3>1, PositionIs DEF RegistryInv, Enlisted
          <5>2. scan.ahead = {}
            BY <3>1, <3>3 DEF Underway
          <5>3. ~(Position(r) < Position(scan.best))
            BY <3>3, <3>5, <5>1, <5>2 DEF Underway
          <5>4. QED  BY <5>1, <5>3
        <4>2. QED  BY <1>1, <1>2, <2>1, <2>2, <3>1, <3>2, <3>3, <3>5, <4>1, LeavingKeeps
      <3>6. QED  BY <3>4, <3>5
    <2>5. QED  BY <1>8, <2>3, <2>4
  <1>9. ASSUME NEW t \in Threads, DeleteKey(t) \/ DeleteFails(t)
        PROVE  RegistryInv'
    <2>1. SameMakers
      BY <1>1, <1>9, DeleteKeyHolds, DeleteFailsHolds
    <2>2. UNCHANGED <<sessions, session, lock, order, scan, released>>
      BY <1>9 DEF DeleteKey, DeleteFails
    <2>3. QED  BY <1>1, <1>2, <2>1, <2>2, TouchKeeps
  <1>10. ASSUME NEW t \in Threads, Rebuild(t)
         PROVE  RegistryInv'
    <2>1. SameMade /\ SameMakers
      BY <1>1, <1>10, RebuildHolds
    <2>2. Touch(thread[t].s) /\ UNCHANGED <<sessions, lock, released>>
      BY <1>10 DEF Rebuild
    <2>3. thread[t].s \in Sessions
      BY <1>1, <1>10, CallFacts DEF Rebuild, Working
    <2>4. QED  BY <1>1, <2>1, <2>2, <2>3, TouchKeeps
  <1>11. ASSUME NEW t \in Threads,
                \/ Send(t) \/ AllowFails(t) \/ ReadAnswers(t) \/ ReadFails(t) \/ Payload(t)
                \/ \E ok \in BOOLEAN : Allow(t, ok)
         PROVE  RegistryInv'
    <2>1. /\ thread[t].s \in Sessions /\ SameMade
          /\ \E d, ks : Works(t, thread[t].s, d, ks)
      BY <1>1, <1>11, LimiterAsked
    <2>2. SameMakers
      BY <1>1, <2>1, WorksMakers
    <2>3. /\ UNCHANGED <<order, scan>> \/ Touch(thread[t].s)
          /\ UNCHANGED <<sessions, lock, released>>
      BY <1>11 DEF Send, AllowFails, ReadAnswers, ReadFails, Payload, Allow
    <2>4. QED  BY <1>1, <2>1, <2>2, <2>3, TouchKeeps
  <1>12. ASSUME NEW t \in Threads, TallyOutcome(t) \/ CountRequest(t) \/ Record(t) \/ Clear(t)
         PROVE  RegistryInv'
    <2>1. SameMade /\ \E s, d : Works(t, s, d, {})
      BY <1>1, <1>12, CountingHolds, OutcomeCounted, RequestCounted, EventRecorded, Cleared
    <2>2. SameMakers
      BY <1>1, <2>1, WorksMakers
    <2>3. UNCHANGED <<sessions, lock, order, scan, released>>
      BY <1>12 DEF TallyOutcome, CountRequest, Record, Clear
    <2>4. QED  BY <1>1, <2>1, <2>2, <2>3, TouchKeeps
  <1>13. CASE UNCHANGED <<sessions, lock, session, order, scan, thread, released>>
    BY <1>1, <1>2, <1>3, <1>13, TouchKeeps
  <1>14. ASSUME NEW t \in Threads, StartScan(t) \/ LookAt(t)
         PROVE  RegistryInv'
    BY <1>14, LookingKeeps
  <1>15. QED
    BY <1>4, <1>5, <1>6, <1>7, <1>8, <1>9, <1>10, <1>11, <1>12, <1>13, <1>14
       DEF Next, NotFound, Expire, vars

(***************************************************************************)
(* The registry never exceeds its cap, and the MaxSessions most recently   *)
(* used sessions are in it unless someone closed them, they were stale, or *)
(* they were used after min() had read their last_access: whatever calls   *)
(* touch sessions while a creator looks for the oldest, in whichever order *)
(* it reads them, and however many creators wait for the lock.             *)
(***************************************************************************)
THEOREM RecentSessionsStay == Spec => []MostRecentKept
  <1>1. RegistryInv => MostRecentKept
    BY DEF RegistryInv, Kept, Recent, MostRecentKept
  <1>2. QED  BY InitRegistry, NextRegistry, <1>1, PTL DEF Spec
=============================================================================
