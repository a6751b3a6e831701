---------------------------- MODULE RateLimiter ----------------------------
(***************************************************************************)
(* The facade of app/middleware/rate_limiter.py: an ordered map from       *)
(* internal keys (route and client) to limiter objects, bounded by         *)
(* max_keys (least recently used first) and key_ttl.                       *)
(*                                                                         *)
(* A call resolves the policy and reads the clock before it takes the      *)
(* facade's lock, and uses the limiter after it has released the lock.     *)
(* _retune writes the attributes of a live limiter one by one under the    *)
(* lock; a call of another thread may read them in between.                *)
(***************************************************************************)
EXTENDS Integers, SequencesExt

CONSTANTS
    Threads,
    Keys,      \* internal keys
    Configs,   \* policies: pairs <<limit, window>>
    Objects,   \* identities of limiter objects
    MaxKeys,   \* max_keys
    KeyTTL,    \* key_ttl, in ticks
    MaxWait    \* longest wait for the lock, in ticks (bound of the model)

None == "none"
Nobody == "nobody"

ASSUME FacadeAssumption ==
    /\ MaxKeys \in Nat \ {0} /\ KeyTTL \in Nat \ {0} /\ MaxWait \in Nat
    /\ IsFiniteSet(Threads) /\ Nobody \notin Threads
    /\ IsFiniteSet(Objects) /\ Cardinality(Objects) > MaxKeys + Cardinality(Threads)
    /\ \A c \in Configs : c = <<c[1], c[2]>>

VARIABLES
    config,    \* the effective policy, as the resolver returns it
    limiters,  \* the OrderedDict, oldest use first: entries with key, obj and the age
               \* of their time stamp
    heap,      \* limiter objects: their attributes and _rg_tuned, Blank if unused
    lock,      \* the thread inside the facade's lock while it retunes, or none
    thread,    \* thread -> what its call is doing
    recency    \* history: all keys used so far, most recently used last

vars == <<config, limiters, heap, lock, thread, recency>>

Positions(k) == {i \in 1..Len(limiters) : limiters[i].key = k}
InMap == {limiters[i].key : i \in 1..Len(limiters)}

\* pop(key, None): where is the set of the positions of the key, which has one at most
Popped(seq, where) == IF where = {} THEN seq ELSE RemoveAt(seq, CHOOSE i \in where : TRUE)

Referenced(map, ths) ==
    {map[i].obj : i \in 1..Len(map)} \cup {ths[t].obj : t \in Threads}
Blank == [limit |-> 0, window |-> 0, tuned |-> <<0, 0>>]

\* Objects nobody refers to any more are garbage
Collect(h, map, ths) == [o \in Objects |-> IF o \in Referenced(map, ths) THEN h[o] ELSE Blank]

\* others and replaced are history: keys other calls have looked up since this one
\* left the map, and whether one of them found this key's entry expired
Idle == [pc |-> "idle", key |-> None, obj |-> None, config |-> <<0, 0>>, wait |-> 0,
         others |-> {}, replaced |-> FALSE]

Limits == {c[1] : c \in Configs}
Windows == {c[2] : c \in Configs}

TypeOK ==
    /\ config \in Configs
    /\ limiters \in Seq([key : Keys, obj : Objects, age : 0..(KeyTTL + MaxWait)])
    /\ heap \in [Objects -> [limit : Limits, window : Windows, tuned : Configs] \cup {Blank}]
    /\ lock \in Threads \cup {Nobody}
    /\ thread \in [Threads -> [pc : {"idle", "lock", "limit", "window", "call"},
                               key : Keys \cup {None}, obj : Objects \cup {None},
                               config : Configs \cup {<<0, 0>>}, wait : 0..MaxWait,
                               others : SUBSET Keys, replaced : BOOLEAN]]
    /\ recency \in Seq(Keys)

Init ==
    /\ config \in Configs
    /\ limiters = <<>>
    /\ heap = [o \in Objects |-> Blank]
    /\ lock = Nobody
    /\ thread = [t \in Threads |-> Idle]
    /\ recency = <<>>

\* _route_config: what the resolver answers at this moment
RouteConfig == config

\* _get_limiter before it takes the lock: the policy and the clock
Resolve(t, k) ==
    /\ thread[t].pc = "idle"
    /\ thread' = [thread EXCEPT ![t] = [Idle EXCEPT !.pc = "lock", !.key = k, !.config = RouteConfig]]
    /\ UNCHANGED <<config, limiters, heap, lock, recency>>

\* now - entry[1] < key_ttl, where now was read wait ticks ago
Alive(e, wait) == e.age - wait < KeyTTL

\* popitem(last=False) while there are more than max_keys entries
TrimmedTooFar(s) == IF Len(s) >= MaxKeys THEN SubSeq(s, Len(s) - MaxKeys + 2, Len(s)) ELSE s
Trimmed(s) == IF Len(s) > MaxKeys THEN SubSeq(s, Len(s) - MaxKeys + 1, Len(s)) ELSE s

\* A hit puts the old entry, with its old time stamp, at the end of the map
ReinsertedInPlace(e) == limiters
Reinserted(e) == Append(Popped(limiters, Positions(e.key)), e)

Uses(k) == {i \in 1..Len(recency) : recency[i] = k}
Touch(k) == recency' = Append(Popped(recency, Uses(k)), k)

\* History: every other call that holds a limiter sees that t looked up k
Holding(s) == s.pc \in {"limit", "window", "call"}
Noted(ths, t, k, expired) ==
    [u \in Threads |->
        IF u = t \/ ~Holding(ths[u]) THEN ths[u]
        ELSE [ths[u] EXCEPT !.others = @ \cup {k}, !.replaced = @ \/ (expired /\ ths[u].key = k)]]

NeedsRetuneIfRaised(o, c) == heap[o].tuned[1] < c[1]
NeedsRetune(o, c) == heap[o].tuned # c

\* _get_limiter under the lock: a hit on an entry that is still alive
Found(t) ==
    /\ thread[t].pc = "lock" /\ lock = Nobody
    /\ \E i \in Positions(thread[t].key) :
          LET e == limiters[i]
              retune == NeedsRetune(e.obj, thread[t].config)
          IN  /\ Alive(e, thread[t].wait)
              /\ limiters' = Reinserted(e)
              /\ lock' = IF retune THEN t ELSE Nobody
              /\ thread' = Noted([thread EXCEPT ![t].obj = e.obj, ![t].wait = 0,
                                               ![t].pc = IF retune THEN "limit" ELSE "call"],
                                t, e.key, FALSE)
    /\ Touch(thread[t].key)
    /\ UNCHANGED <<config, heap>>

\* _get_limiter under the lock: no entry, or one that is too old
Created(t) ==
    LET k == thread[t].key
        c == thread[t].config
    IN  /\ thread[t].pc = "lock" /\ lock = Nobody
        /\ \A i \in Positions(k) : ~Alive(limiters[i], thread[t].wait)
        /\ LET o == CHOOSE x \in Objects : x \notin Referenced(limiters, thread)
               entry == [key |-> k, obj |-> o, age |-> thread[t].wait]
               new == [limit |-> c[1], window |-> c[2], tuned |-> c]
           IN  /\ limiters' = Trimmed(Append(Popped(limiters, Positions(k)), entry))
               /\ thread' = Noted([thread EXCEPT ![t].obj = o, ![t].wait = 0, ![t].pc = "call"],
                                 t, k, k \in InMap)
               /\ heap' = Collect([heap EXCEPT ![o] = new], limiters', thread')
        /\ Touch(k)
        /\ UNCHANGED <<config, lock>>

\* _retune, first assignment
RetuneLimit(t) ==
    /\ thread[t].pc = "limit"
    /\ heap' = [heap EXCEPT ![thread[t].obj].limit = thread[t].config[1]]
    /\ thread' = [thread EXCEPT ![t].pc = "window"]
    /\ UNCHANGED <<config, limiters, lock, recency>>

\* _retune, the other assignments; then the lock is released
Rewritten(t) ==
    [heap[thread[t].obj] EXCEPT !.window = thread[t].config[2], !.tuned = thread[t].config]

RetuneWindow(t) ==
    /\ thread[t].pc = "window"
    /\ heap' = [heap EXCEPT ![thread[t].obj] = Rewritten(t)]
    /\ thread' = [thread EXCEPT ![t].pc = "call"]
    /\ lock' = Nobody
    /\ UNCHANGED <<config, limiters, recency>>

\* The limiter's own call, outside the facade's lock
Call(t) ==
    /\ thread[t].pc = "call"
    /\ thread' = [thread EXCEPT ![t] = Idle]
    /\ heap' = Collect(heap, limiters, thread')
    /\ UNCHANGED <<config, limiters, lock, recency>>

\* An administrator changes the policy
Reconfigure(c) ==
    /\ c # config
    /\ config' = c
    /\ UNCHANGED <<limiters, heap, lock, thread, recency>>

\* From KeyTTL + MaxWait on an entry has expired for every caller, however long it waited
Older(n) == IF n < KeyTTL + MaxWait THEN n + 1 ELSE n

Tick ==
    /\ \A t \in Threads : thread[t].pc = "lock" => thread[t].wait < MaxWait
    /\ limiters' = [i \in 1..Len(limiters) |-> [limiters[i] EXCEPT !.age = Older(@)]]
    /\ thread' = [t \in Threads |->
          IF thread[t].pc = "lock" THEN [thread[t] EXCEPT !.wait = @ + 1] ELSE thread[t]]
    /\ UNCHANGED <<config, heap, lock, recency>>

Next ==
    \/ \E t \in Threads :
          \/ \E k \in Keys : Resolve(t, k)
          \/ Found(t) \/ Created(t)
          \/ RetuneLimit(t) \/ RetuneWindow(t)
          \/ Call(t)
    \/ \E c \in Configs : Reconfigure(c)
    \/ Tick

Spec == Init /\ [][Next]_vars

----------------------------------------------------------------------------
(***************************************************************************)
(* The map holds at most max_keys limiters, and they are those of the most *)
(* recently used keys: whoever is evicted was idle for longer than every   *)
(* key that stays, whatever calls raced for the lock.  (Docstring: "Idle   *)
(* keys are evicted (LRU + TTL) so memory stays bounded".)                 *)
(***************************************************************************)
LeastRecentlyUsedGoes ==
    /\ Len(limiters) <= MaxKeys
    /\ Len(limiters) <= Len(recency)
    /\ \A i \in 1..Len(limiters) :
          limiters[i].key = recency[Len(recency) - Len(limiters) + i]

(***************************************************************************)
(* Whatever changes were made since a limiter was last used, and whatever  *)
(* other threads do meanwhile, the limiter a call leaves the lock with     *)
(* enforces exactly the policy that call resolved: the mark _rg_tuned that *)
(* decides whether to retune never differs from the attributes.  (Another  *)
(* thread may retune it again before the call uses it.)                    *)
(***************************************************************************)
HandedOut(t) == thread[t].pc # "call" /\ thread'[t].pc = "call"
HandedOutAsResolved ==
    [][\A t \in Threads :
          HandedOut(t) =>
              LET o == heap'[thread'[t].obj] IN <<o.limit, o.window>> = thread[t].config]_vars

ObjectOf(k) == {limiters[i].obj : i \in Positions(k)}

(***************************************************************************)
(* Two calls of one client never use two limiters, and so two budgets, at  *)
(* a time, unless during one of them at least max_keys other clients were  *)
(* looked up, or the client's entry outlived key_ttl: the limiter is used  *)
(* after the lock is released, when its entry may be gone already.         *)
(***************************************************************************)
OneBudget ==
    \A t, u \in Threads :
        (/\ Holding(thread[t]) /\ Holding(thread[u])
         /\ thread[t].key = thread[u].key /\ thread[t].obj # thread[u].obj)
        => \E c \in {t, u} :
              \/ thread[c].replaced
              \/ Cardinality(thread[c].others \ {thread[c].key}) >= MaxKeys

(***************************************************************************)
(* The recorded state of a client survives: its limiter leaves the map     *)
(* only as the least recently used one of a full map, or when key_ttl has  *)
(* passed since it was created: a hit keeps the time stamp, so that using  *)
(* a limiter does not prolong its life.                                    *)
(***************************************************************************)
StateSurvives ==
    [][\A k \in InMap :
          \/ ObjectOf(k)' = ObjectOf(k)
          \/ limiters[1].key = k /\ Len(limiters) = MaxKeys
          \/ \E i \in Positions(k) : limiters[i].age >= KeyTTL]_vars
=============================================================================
