------------------------ MODULE PolicyControl_proofs ------------------------
(***************************************************************************)
(* Proofs about the control plane, for every set of routes, workers and    *)
(* threads, every sequence of admin calls, races, faults and lost answers. *)
(***************************************************************************)
EXTENDS PolicyControl, FiniteSetTheorems, TLAPS

(***************************************************************************)
(* The document a create request stores is one RoutePolicy accepts.        *)
(***************************************************************************)
LEMMA NewPolicyValid ==
    ASSUME NEW body, Creatable(body)
    PROVE  NewPolicy(body) \in Policies
  BY DEF Creatable, Normalizable, NewPolicy, Policies, ValidLimit, ValidWindow

(***************************************************************************)
(* Merging an acceptable partial update into a stored document yields one  *)
(* that RoutePolicy accepts.                                               *)
(***************************************************************************)
LEMMA MergeValid ==
    ASSUME NEW doc \in Policies, NEW body, Normalizable(body)
    PROVE  Merge(doc, body) \in Policies
  <1>1. DOMAIN doc = {"limit", "window", "enabled"}
    BY DEF Policies
  <1>2. /\ doc.limit \in 1..MaxLimit /\ doc.window \in 1..MaxWindow
        /\ doc.enabled \in BOOLEAN
    BY DEF Policies
  <1> DEFINE m == Merge(doc, body)
  <1>3. m = [x \in {"limit", "window", "enabled"} |->
                IF x \in DOMAIN body THEN body[x] ELSE doc[x]]
    BY <1>1 DEF Merge
  <1>4. /\ m.limit \in 1..MaxLimit /\ m.window \in 1..MaxWindow /\ m.enabled \in BOOLEAN
    BY <1>2, <1>3 DEF Normalizable, ValidLimit, ValidWindow
  <1>5. m = [limit |-> m.limit, window |-> m.window, enabled |-> m.enabled]
    BY <1>3
  <1>6. QED  BY <1>4, <1>5 DEF Policies

(***************************************************************************)
(* What is in force for a route is always a limit and a window in range.   *)
(***************************************************************************)
LEMMA EffectiveTyped ==
    ASSUME NEW r \in Routes, NEW doc \in Documents
    PROVE  Effective(r, doc) \in Resolutions
  <1>1. CASE doc # NoPolicy /\ doc.enabled
    <2>1. doc \in Policies
      BY <1>1 DEF Documents
    <2>2. QED  BY <1>1, <2>1 DEF Effective, InForce, Resolutions, Policies, Documents
  <1>2. CASE ~(doc # NoPolicy /\ doc.enabled) /\ r \in DOMAIN Static
    BY <1>2, StoreAssumption DEF StoreAssumption, Effective, InForce, Resolutions
  <1>3. CASE ~(doc # NoPolicy /\ doc.enabled) /\ r \notin DOMAIN Static
    BY <1>3, StoreAssumption DEF StoreAssumption, Effective, InForce, Resolutions
  <1>4. QED  BY <1>1, <1>2, <1>3

(***************************************************************************)
(* A thread that rests, and an entry that is not there, are well typed.    *)
(***************************************************************************)
LEMMA IdleTyped == Idle \in ThreadStates
  BY DEF Idle, ThreadStates, Pcs, Ops, Documents

\* An empty place of the cache is one of its entries.
LEMMA EmptyTyped == Empty \in Entries
  BY ControlAssumption DEF Empty, Entries, ControlAssumption

----------------------------------------------------------------------------
(***************************************************************************)
(* What a handler relies on from one of its steps to the next: a thread    *)
(* that goes on has a route to go on with, one that is about to write      *)
(* holds a valid document, and what was read from the store is no staler   *)
(* than the time since the read.                                           *)
(***************************************************************************)
Shaped(s) ==
    /\ s.pc \in {"write", "invalidate", "check", "read", "fill"} => s.routes # {}
    /\ s.pc = "write" => s.op \in {"create", "update"} /\ s.doc \in Policies
    /\ s.pc = "fill" => s.stale <= s.waited /\ s.waited <= ReadBound

ThreadsShaped == \A t \in Threads : Shaped(thread[t])

WellTyped == TypeOK /\ ThreadsShaped

(***************************************************************************)
(* The parts of a thread's state, one by one.                              *)
(***************************************************************************)
LEMMA ThreadFields ==
    ASSUME NEW s \in ThreadStates
    PROVE  /\ s.pc \in Pcs /\ s.op \in Ops /\ s.doc \in Documents
           /\ s.routes \in SUBSET Routes /\ s.gone \in SUBSET Routes
           /\ s.ver \in Nat /\ s.stale \in Nat /\ s.waited \in Nat
  BY DEF ThreadStates

(***************************************************************************)
(* The route a handler works on is one of its routes, and the worker a     *)
(* thread belongs to is a worker.                                          *)
(***************************************************************************)
LEMMA RouteOfThread ==
    ASSUME TypeOK, NEW t \in Threads, thread[t].routes # {}
    PROVE  TheRoute(t) \in thread[t].routes /\ TheRoute(t) \in Routes
  <1>1. thread[t].routes \in SUBSET Routes
    BY ThreadFields DEF TypeOK
  <1>2. QED  BY <1>1 DEF TheRoute

\* Every thread runs in one of the workers.
LEMMA WorkerOfThread ==
    ASSUME NEW t \in Threads
    PROVE  Home(t) \in Workers
  BY ControlAssumption DEF ControlAssumption, Home

(***************************************************************************)
(* A handler step moves one thread, to a state that is shaped again; only  *)
(* the reads of a listing lead to a prune.                                 *)
(***************************************************************************)
Moves(t) ==
    \E s \in ThreadStates :
        /\ Shaped(s)
        /\ thread' = [thread EXCEPT ![t] = s]
        /\ s.pc = "prune" => ListGets(t)

\* The end of a handler is a move.
LEMMA GotoIdle ==
    ASSUME NEW t, Goto(t, Idle)
    PROVE  Moves(t)
  BY IdleTyped DEF Moves, Goto, Shaped, Idle

(***************************************************************************)
(* The states a handler starts or goes on with: Idle with some fields      *)
(* filled in, shaped when there is a route and a document to write.        *)
(***************************************************************************)
LEMMA GotoCheck ==
    ASSUME NEW t, NEW op \in Ops, NEW routes \in SUBSET Routes, routes # {},
           Goto(t, [Idle EXCEPT !.pc = "check", !.op = op, !.routes = routes])
    PROVE  Moves(t)
  <1> DEFINE n == [Idle EXCEPT !.pc = "check", !.op = op, !.routes = routes]
  <1>1. n \in ThreadStates
    BY IdleTyped DEF ThreadStates, Pcs
  <1>2. Shaped(n) /\ n.pc # "prune"
    BY IdleTyped DEF ThreadStates, Shaped
  <1>3. QED  BY <1>1, <1>2 DEF Moves, Goto

\* So is a create or an update on its way to the audited write,
LEMMA GotoWrite ==
    ASSUME NEW t, NEW op \in {"create", "update"}, NEW doc \in Policies, NEW r \in Routes,
           Goto(t, [Idle EXCEPT !.pc = "write", !.op = op, !.routes = {r}, !.doc = doc])
    PROVE  Moves(t)
  <1> DEFINE n == [Idle EXCEPT !.pc = "write", !.op = op, !.routes = {r}, !.doc = doc]
  <1>1. n \in ThreadStates
    BY IdleTyped DEF ThreadStates, Pcs, Ops, Operations, Documents
  <1>2. Shaped(n) /\ n.pc # "prune"
    BY IdleTyped DEF ThreadStates, Shaped
  <1>3. QED  BY <1>1, <1>2 DEF Moves, Goto

\* and a delete on its way to the invalidation.
LEMMA GotoInvalidate ==
    ASSUME NEW t, NEW r \in Routes, NEW ver \in Nat,
           Goto(t, [Idle EXCEPT !.pc = "invalidate", !.op = "delete", !.routes = {r},
                                !.ver = ver])
    PROVE  Moves(t)
  <1> DEFINE n == [Idle EXCEPT !.pc = "invalidate", !.op = "delete", !.routes = {r},
                               !.ver = ver]
  <1>1. n \in ThreadStates
    BY IdleTyped DEF ThreadStates, Pcs, Ops, Operations
  <1>2. Shaped(n) /\ n.pc # "prune"
    BY IdleTyped DEF ThreadStates, Shaped
  <1>3. QED  BY <1>1, <1>2 DEF Moves, Goto

(***************************************************************************)
(* After a route is resolved, and after a listing found its routes, the    *)
(* thread rests or goes on with a route that is left.                      *)
(***************************************************************************)
LEMMA ResolvedMoves ==
    ASSUME NEW t, NEW s \in ThreadStates, NEW r, Resolved(t, s, r)
    PROVE  Moves(t)
  <1> DEFINE rest == s.routes \ {r}
  <1>1. rest \in SUBSET Routes /\ s.op \in Ops
    BY ThreadFields
  <1>2. CASE rest = {}
    BY <1>2, GotoIdle DEF Resolved
  <1>3. CASE rest # {}
    <2>1. Goto(t, [Idle EXCEPT !.pc = "check", !.op = s.op, !.routes = rest])
      BY <1>3 DEF Resolved
    <2>2. QED  BY <1>1, <1>3, <2>1, GotoCheck
  <1>4. QED  BY <1>2, <1>3

\* So is a listing that has found its routes.
LEMMA ShowMoves ==
    ASSUME NEW t, NEW found \in SUBSET Routes, Show(t, found)
    PROVE  Moves(t)
  <1>1. CASE found = {}
    BY <1>1, GotoIdle DEF Show
  <1>2. CASE found # {}
    <2>1. Goto(t, [Idle EXCEPT !.pc = "check", !.op = "list", !.routes = found])
      BY <1>2 DEF Show
    <2>2. "list" \in Ops
      BY DEF Ops
    <2>3. QED  BY <1>2, <2>1, <2>2, GotoCheck
  <1>3. QED  BY <1>1, <1>2

(***************************************************************************)
(* The lookup of the resolver moves the thread on, by a hit or to a read.  *)
(***************************************************************************)
LEMMA LookupMoves ==
    ASSUME NEW t, NEW s \in ThreadStates, s.routes # {}, NEW r, Lookup(t, s, r)
    PROVE  Moves(t)
  <1>1. CASE Resolved(t, s, r)
    BY <1>1, ResolvedMoves
  <1>2. CASE Goto(t, [s EXCEPT !.pc = "read"])
    <2> DEFINE n == [s EXCEPT !.pc = "read"]
    <2>1. n \in ThreadStates /\ Shaped(n) /\ n.pc # "prune"
      BY DEF ThreadStates, Pcs, Shaped
    <2>2. QED  BY <1>2, <2>1 DEF Moves, Goto
  <1>3. QED  BY <1>1, <1>2 DEF Lookup

(***************************************************************************)
(* Every step of a handler, and every start of one, moves its thread.      *)
(***************************************************************************)
LEMMA WriteMoves ==
    ASSUME WellTyped, NEW t \in Threads, Write(t)
    PROVE  Moves(t)
  <1> DEFINE s == thread[t]
             r == TheRoute(t)
  <1>1. s \in ThreadStates /\ Shaped(s) /\ s.pc = "write"
    BY DEF WellTyped, TypeOK, ThreadsShaped, Write, At
  <1>2. s.routes # {} /\ r \in Routes
    BY <1>1, RouteOfThread DEF Shaped, WellTyped
  <1>3. CASE Goto(t, Idle)
    BY <1>3, GotoIdle
  <1>4. CASE Goto(t, [s EXCEPT !.pc = "invalidate", !.ver = version[r] + 1])
    <2>1. version[r] + 1 \in Nat
      BY <1>2 DEF WellTyped, TypeOK, StoreTypeOK
    <2> DEFINE n == [s EXCEPT !.pc = "invalidate", !.ver = version[r] + 1]
    <2>2. n \in ThreadStates
      BY <1>1, <2>1 DEF ThreadStates, Pcs
    <2>3. Shaped(n) /\ n.pc # "prune"
      BY <1>1, <1>2 DEF Shaped, ThreadStates
    <2>4. QED  BY <1>4, <2>2, <2>3 DEF Moves, Goto
  <1>5. QED  BY <1>3, <1>4 DEF Write, FailedWrite

\* The store read of a resolution is a move, with the document it found.
LEMMA ReadStoreMoves ==
    ASSUME WellTyped, NEW t \in Threads, ReadStore(t)
    PROVE  Moves(t)
  <1> DEFINE s == thread[t]
             r == TheRoute(t)
  <1>1. s \in ThreadStates /\ Shaped(s) /\ s.pc = "read"
    BY DEF WellTyped, TypeOK, ThreadsShaped, ReadStore, At
  <1>2. s.routes # {} /\ r \in Routes
    BY <1>1, RouteOfThread DEF Shaped, WellTyped
  <1> DEFINE n == [s EXCEPT !.pc = "fill", !.doc = store[r], !.ver = version[r],
                            !.stale = 0, !.waited = 0]
  <1>3. CASE Goto(t, Idle)
    BY <1>3, GotoIdle
  <1>4. CASE Goto(t, n)
    <2>1. store[r] \in Documents /\ version[r] \in Nat
      BY <1>2 DEF WellTyped, TypeOK, StoreTypeOK
    <2>2. n \in ThreadStates
      BY <1>1, <2>1 DEF ThreadStates, Pcs
    <2>3. n.pc = "fill" /\ n.routes = s.routes /\ n.stale = 0 /\ n.waited = 0
      BY <1>1 DEF ThreadStates
    <2>4. Shaped(n)
      BY <2>3, <1>2, ControlAssumption DEF Shaped, ControlAssumption
    <2>5. QED  BY <1>4, <2>2, <2>3, <2>4 DEF Moves, Goto
  <1>5. QED  BY <1>3, <1>4 DEF ReadStore

\* The GETs of a listing are a move, with the routes that were gone.
LEMMA ListGetsMoves ==
    ASSUME WellTyped, NEW t \in Threads, ListGets(t)
    PROVE  Moves(t)
  <1> DEFINE s == thread[t]
             found == s.routes
             n == [s EXCEPT !.pc = "prune", !.routes = found \cap Stored,
                            !.gone = found \ Stored]
  <1>1. s \in ThreadStates /\ found \in SUBSET Routes
    BY ThreadFields DEF WellTyped, TypeOK
  <1>2. CASE Goto(t, Idle)
    BY <1>2, GotoIdle
  <1>3. CASE Show(t, found)
    BY <1>1, <1>3, ShowMoves
  <1>4. CASE Goto(t, n)
    <2>1. n \in ThreadStates
      BY <1>1 DEF ThreadStates, Pcs
    <2>2. Shaped(n)
      BY <1>1 DEF Shaped, ThreadStates
    <2>3. QED  BY <1>4, <2>1, <2>2 DEF Moves, Goto
  <1>5. QED  BY <1>2, <1>3, <1>4 DEF ListGets

\* The first step of each handler is a move.  Create:
LEMMA CreateMoves ==
    ASSUME NEW t \in Threads, NEW r \in Routes, NEW body, Create(t, r, body)
    PROVE  Moves(t)
  <1>1. NewPolicy(body) \in Policies
    BY NewPolicyValid DEF Create
  <1>2. CASE Goto(t, [Idle EXCEPT !.pc = "write", !.op = "create", !.routes = {r},
                                  !.doc = NewPolicy(body)])
    BY <1>1, <1>2, GotoWrite
  <1>3. CASE Refuse(t)
    BY <1>3, GotoIdle DEF Refuse
  <1>4. QED  BY <1>2, <1>3 DEF Create

\* Update, with the document it merged the body into:
LEMMA UpdateMoves ==
    ASSUME WellTyped, NEW t \in Threads, NEW r \in Routes, NEW body, Update(t, r, body)
    PROVE  Moves(t)
  <1>1. CASE /\ store[r] # NoPolicy
             /\ Goto(t, [Idle EXCEPT !.pc = "write", !.op = "update", !.routes = {r},
                                     !.doc = Merge(store[r], body)])
    <2>1. store[r] \in Policies
      BY <1>1 DEF WellTyped, TypeOK, StoreTypeOK, Documents
    <2>2. Merge(store[r], body) \in Policies
      BY <2>1, MergeValid DEF Update
    <2>3. QED  BY <1>1, <2>2, GotoWrite
  <1>2. CASE Refuse(t)
    BY <1>2, GotoIdle DEF Refuse
  <1>3. QED  BY <1>1, <1>2 DEF Update

\* Delete, which is the audited write as well:
LEMMA DeleteMoves ==
    ASSUME WellTyped, NEW t \in Threads, NEW r \in Routes, Delete(t, r)
    PROVE  Moves(t)
  <1>1. version[r] + 1 \in Nat
    BY DEF WellTyped, TypeOK, StoreTypeOK
  <1>2. CASE Goto(t, [Idle EXCEPT !.pc = "invalidate", !.op = "delete", !.routes = {r},
                                  !.ver = version[r] + 1])
    BY <1>1, <1>2, GotoInvalidate
  <1>3. CASE Goto(t, Idle)
    BY <1>3, GotoIdle
  <1>4. QED  BY <1>2, <1>3 DEF Delete, Refuse, FailedWrite

\* A resolution:
LEMMA ResolveMoves ==
    ASSUME NEW t \in Threads, NEW r \in Routes, Resolve(t, r)
    PROVE  Moves(t)
  <1> DEFINE s == [Idle EXCEPT !.op = "resolve", !.routes = {r}]
  <1>1. s \in ThreadStates /\ s.routes # {}
    BY IdleTyped DEF ThreadStates, Ops
  <1>2. Lookup(t, s, r)
    BY DEF Resolve
  <1>3. QED  BY <1>1, <1>2, LookupMoves

\* Whatever a thread does, it moves on.
LEMMA StepMoves ==
    ASSUME WellTyped, NEW t \in Threads, Step(t) \/ Start(t)
    PROVE  Moves(t)
  <1>1. thread[t] \in ThreadStates /\ Shaped(thread[t])
    BY DEF WellTyped, TypeOK, ThreadsShaped
  <1>2. CASE Write(t)
    BY <1>2, WriteMoves
  <1>3. CASE Invalidate(t)
    BY <1>3, GotoIdle DEF Invalidate
  <1>4. CASE ListEntry(t)
    BY <1>1, <1>4, LookupMoves DEF ListEntry, At, Shaped
  <1>5. CASE ReadStore(t)
    BY <1>5, ReadStoreMoves
  <1>6. CASE FillCache(t)
    BY <1>1, <1>6, ResolvedMoves DEF FillCache
  <1>7. CASE ListGets(t)
    BY <1>7, ListGetsMoves
  <1>8. CASE ListPrune(t)
    BY <1>1, <1>8, GotoIdle, ShowMoves, ThreadFields DEF ListPrune
  <1>9. CASE \E r \in Routes, body \in Bodies : Create(t, r, body) \/ Update(t, r, body)
    BY <1>9, CreateMoves, UpdateMoves
  <1>10. CASE \E r \in Routes : Delete(t, r)
    BY <1>10, DeleteMoves
  <1>11. CASE \E r \in Routes : Resolve(t, r)
    BY <1>11, ResolveMoves
  <1>12. CASE List(t)
    <2>1. CASE Goto(t, Idle)
      BY <2>1, GotoIdle
    <2>2. CASE Show(t, Stored)
      BY <2>2, ShowMoves DEF Stored
    <2>3. CASE Goto(t, [Idle EXCEPT !.pc = "gets", !.op = "list", !.routes = index])
      <3> DEFINE n == [Idle EXCEPT !.pc = "gets", !.op = "list", !.routes = index]
      <3>1. n \in ThreadStates
        BY IdleTyped DEF ThreadStates, Pcs, Ops, WellTyped, TypeOK, StoreTypeOK
      <3>2. Shaped(n) /\ n.pc # "prune"
        BY IdleTyped DEF ThreadStates, Shaped
      <3>3. QED  BY <2>3, <3>1, <3>2 DEF Moves, Goto
    <2>4. QED  BY <1>12, <2>1, <2>2, <2>3 DEF List
  <1>13. QED
    BY <1>2, <1>3, <1>4, <1>5, <1>6, <1>7, <1>8, <1>9, <1>10, <1>11, <1>12 DEF Step, Start

----------------------------------------------------------------------------
(***************************************************************************)
(* What a step does to the store: nothing, or one audited write, which     *)
(* reads the document it replaces; a delete has something to remove.       *)
(***************************************************************************)
Written(op, r, doc) ==
    /\ store' = [store EXCEPT ![r] = doc]
    /\ audit' = Recorded(Event(op, r, doc))
    /\ version' = [version EXCEPT ![r] = @ + 1]

Audited ==
    \E op \in Operations, r \in Routes, doc \in Documents :
        /\ Written(op, r, doc)
        /\ op = "delete" => store[r] # NoPolicy /\ doc = NoPolicy

\* Documents, trail and versions change in audited writes only.
LEMMA StoreStep ==
    ASSUME WellTyped, NEW t \in Threads, Step(t) \/ Start(t)
    PROVE  UNCHANGED <<store, audit, version>> \/ Audited
  <1>1. CASE Write(t)
    <2> DEFINE s == thread[t]
               r == TheRoute(t)
    <2>1. s \in ThreadStates /\ Shaped(s) /\ s.pc = "write"
      BY <1>1 DEF WellTyped, TypeOK, ThreadsShaped, Write, At
    <2>2. r \in Routes
      BY <2>1, RouteOfThread DEF Shaped, WellTyped
    <2>3. CASE Store(s.op, r, s.doc)
      <3>1. Written(s.op, r, s.doc)
        BY <2>3 DEF Store, SetWithAudit, Written
      <3>2. s.op \in Operations /\ s.op # "delete" /\ s.doc \in Documents
        BY <2>1 DEF Shaped, Operations, Documents
      <3>3. QED  BY <2>2, <3>1, <3>2 DEF Audited
    <2>4. CASE UNCHANGED storeVars
      BY <2>4 DEF storeVars
    <2>5. QED  BY <1>1, <2>3, <2>4 DEF Write, FailedWrite
  <1>2. CASE \E r \in Routes : Delete(t, r)
    <2>1. PICK r \in Routes : Delete(t, r)
      BY <1>2
    <2>2. CASE Deletable(r) /\ DeleteWithAudit(r)
      <3>1. Written("delete", r, NoPolicy)
        BY <2>2 DEF DeleteWithAudit, Written
      <3>2. "delete" \in Operations /\ NoPolicy \in Documents
        BY DEF Operations, Documents
      <3>3. QED  BY <2>2, <3>1, <3>2 DEF Audited, Deletable
    <2>3. CASE UNCHANGED storeVars
      BY <2>3 DEF storeVars
    <2>4. QED  BY <2>1, <2>2, <2>3 DEF Delete, FailedWrite
  <1>3. CASE Invalidate(t)
    BY <1>3 DEF Invalidate, storeVars
  <1>4. CASE ListEntry(t)
    BY <1>4 DEF ListEntry, Lookup, ReadOnly, storeVars
  <1>5. CASE ReadStore(t) \/ FillCache(t) \/ ListGets(t) \/ List(t)
    BY <1>5 DEF ReadStore, FillCache, ListGets, List, ReadOnly, storeVars
  <1>6. CASE ListPrune(t)
    BY <1>6 DEF ListPrune
  <1>7. CASE \E r \in Routes, body \in Bodies : Create(t, r, body) \/ Update(t, r, body)
    BY <1>7 DEF Create, Update, storeVars
  <1>8. CASE \E r \in Routes : Resolve(t, r)
    BY <1>8 DEF Resolve, Lookup, ReadOnly, storeVars
  <1>9. QED
    BY <1>1, <1>2, <1>3, <1>4, <1>5, <1>6, <1>7, <1>8 DEF Step, Start

----------------------------------------------------------------------------
(***************************************************************************)
(* What a step does to the caches: nothing, or one entry is dropped or     *)
(* filled.  A filled entry is no staler than its read took.                *)
(***************************************************************************)
Fresh(e) == e.left > 0 => e.stale + e.left <= TTL + ReadBound

Cached ==
    \E w \in Workers, r \in Routes : \E e \in Entries :
        Fresh(e) /\ cache' = [cache EXCEPT ![w][r] = e]

\* To drop an entry changes one place of the cache, which is no staler than allowed.
LEMMA DroppedCached ==
    ASSUME NEW w \in Workers, NEW r \in Routes, cache' = Dropped(w, r)
    PROVE  Cached
  <1>1. Empty \in Entries /\ Fresh(Empty)
    BY EmptyTyped DEF Empty, Fresh
  <1>2. QED  BY <1>1 DEF Dropped, Cached

\* So does a fill, which caches what was read, as stale as it has become.
LEMMA FillCached ==
    ASSUME WellTyped, NEW t \in Threads, FillCache(t)
    PROVE  Cached
  <1> DEFINE s == thread[t]
             r == TheRoute(t)
             e == [left |-> TTL, effective |-> Effective(r, s.doc),
                   ver |-> s.ver, stale |-> s.stale]
  <1>1. s \in ThreadStates /\ Shaped(s) /\ s.pc = "fill"
    BY DEF WellTyped, TypeOK, ThreadsShaped, FillCache, At
  <1>2. s.routes # {} /\ r \in Routes
    BY <1>1, RouteOfThread DEF Shaped, WellTyped
  <1>3. s.doc \in Documents /\ s.ver \in Nat /\ s.stale \in Nat /\ s.waited \in Nat
    BY <1>1, ThreadFields
  <1>4. TTL \in Nat \ {0} /\ ReadBound \in Nat
    BY ControlAssumption DEF ControlAssumption
  <1>5. e \in Entries
    BY <1>2, <1>3, <1>4, EffectiveTyped DEF Entries
  <1>6. s.stale <= s.waited /\ s.waited <= ReadBound
    BY <1>1 DEF Shaped
  <1>7. Fresh(e)
    BY <1>3, <1>4, <1>6 DEF Fresh
  <1>8. cache' = [cache EXCEPT ![Home(t)][r] = e]
    BY DEF FillCache
  <1>9. QED  BY <1>2, <1>5, <1>7, <1>8, WorkerOfThread DEF Cached

\* A step of a thread changes one entry of the cache at most.
LEMMA CacheStep ==
    ASSUME WellTyped, NEW t \in Threads, Step(t) \/ Start(t)
    PROVE  UNCHANGED cache \/ Cached
  <1>1. CASE Write(t)
    BY <1>1 DEF Write
  <1>2. CASE Invalidate(t)
    <2>1. TheRoute(t) \in Routes
      BY <1>2, RouteOfThread DEF Invalidate, At, WellTyped, ThreadsShaped, Shaped
    <2>2. QED  BY <1>2, <2>1, WorkerOfThread, DroppedCached DEF Invalidate
  <1>3. CASE ListEntry(t) \/ \E r \in Routes : Resolve(t, r)
    BY <1>3 DEF ListEntry, Resolve, Lookup, Hit
  <1>4. CASE FillCache(t)
    BY <1>4, FillCached
  <1>5. CASE ReadStore(t) \/ ListGets(t) \/ ListPrune(t) \/ List(t)
    BY <1>5 DEF ReadStore, ListGets, ListPrune, List
  <1>6. CASE \E r \in Routes, body \in Bodies : Create(t, r, body) \/ Update(t, r, body)
    BY <1>6 DEF Create, Update
  <1>7. CASE \E r \in Routes : Delete(t, r)
    BY <1>7 DEF Delete
  <1>8. QED
    BY <1>1, <1>2, <1>3, <1>4, <1>5, <1>6, <1>7 DEF Step, Start

(***************************************************************************)
(* The trail after a write, trimmed or not.                                *)
(***************************************************************************)
LEMMA RecordedTyped ==
    ASSUME StoreTypeOK, NEW e \in Events
    PROVE  Recorded(e) \in Seq(Events)
  <1>1. MaxEvents \in Nat \ {0} /\ audit \in Seq(Events)
    BY StoreAssumption DEF StoreAssumption, StoreTypeOK
  <1>2. CASE Len(audit) < MaxEvents
    BY <1>1, <1>2 DEF Recorded
  <1>3. CASE ~(Len(audit) < MaxEvents)
    <2>1. audit # <<>>
      BY <1>1, <1>3
    <2>2. Tail(audit) \in Seq(Events)
      BY <1>1, <2>1
    <2>3. QED  BY <1>3, <2>2 DEF Recorded
  <1>4. QED  BY <1>2, <1>3

\* The event of a write is well formed.
LEMMA EventTyped ==
    ASSUME StoreTypeOK, NEW op \in Operations, NEW r \in Routes, NEW doc \in Documents
    PROVE  Event(op, r, doc) \in Events
  BY DEF StoreTypeOK, Event, Events

\* An audited write keeps documents, trail and versions well formed.
LEMMA AuditedTyped ==
    ASSUME StoreTypeOK, UNCHANGED <<store, audit, version>> \/ Audited
    PROVE  /\ store' \in [Routes -> Documents]
           /\ audit' \in Seq(Events)
           /\ version' \in [Routes -> Nat]
  <1>1. CASE UNCHANGED <<store, audit, version>>
    BY <1>1 DEF StoreTypeOK
  <1>2. CASE Audited
    <2>1. PICK op \in Operations, r \in Routes, doc \in Documents : Written(op, r, doc)
      BY <1>2 DEF Audited
    <2>2. store' \in [Routes -> Documents] /\ version' \in [Routes -> Nat]
      BY <2>1 DEF Written, StoreTypeOK
    <2>3. audit' \in Seq(Events)
      BY <2>1, RecordedTyped, EventTyped DEF Written
    <2>4. QED  BY <2>2, <2>3
  <1>3. QED  BY <1>1, <1>2

\* A change of the cache keeps it well formed.
LEMMA CachedTyped ==
    ASSUME TypeOK, UNCHANGED cache \/ Cached
    PROVE  cache' \in [Workers -> [Routes -> Entries]]
  <1>1. CASE UNCHANGED cache
    BY <1>1 DEF TypeOK
  <1>2. CASE Cached
    <2>1. PICK w \in Workers, r \in Routes : \E e \in Entries :
                  cache' = [cache EXCEPT ![w][r] = e]
      BY <1>2 DEF Cached
    <2>2. PICK e \in Entries : cache' = [cache EXCEPT ![w][r] = e]
      BY <2>1
    <2>3. [cache[w] EXCEPT ![r] = e] \in [Routes -> Entries]
      BY DEF TypeOK
    <2>4. cache' = [cache EXCEPT ![w] = [cache[w] EXCEPT ![r] = e]]
      BY <2>2 DEF TypeOK
    <2>5. QED  BY <2>3, <2>4 DEF TypeOK
  <1>3. QED  BY <1>1, <1>2

(***************************************************************************)
(* The remaining variables keep their types in every handler step.         *)
(***************************************************************************)
LEMMA CountTyped ==
    ASSUME NEW c \in Outcomes, NEW o \in {"success", "error"}
    PROVE  Count(c, o) \in Outcomes
  BY DEF Count, Outcomes

CountersMove ==
    /\ operations' \in {operations, Count(operations, "success"), Count(operations, "error")}
    /\ audited' \in {audited, Count(audited, "success"), Count(audited, "error")}

\* A step of a thread counts each counter once at most.
LEMMA StepMovesCounters ==
    ASSUME NEW t, Step(t) \/ Start(t)
    PROVE  CountersMove
  <1>1. CASE Write(t)
    BY <1>1 DEF Write, FailedWrite, CountersMove, metrics
  <1>2. CASE Invalidate(t)
    BY <1>2 DEF Invalidate, CountersMove
  <1>3. CASE ListEntry(t) \/ ReadStore(t) \/ FillCache(t) \/ ListGets(t) \/ ListPrune(t)
    BY <1>3 DEF ListEntry, Lookup, ReadStore, FillCache, ListGets, ListPrune, ReadOnly,
                metrics, CountersMove
  <1>4. CASE \E r \in Routes, body \in Bodies : Create(t, r, body) \/ Update(t, r, body)
    BY <1>4 DEF Create, Update, Refuse, CountersMove, metrics
  <1>5. CASE \E r \in Routes : Delete(t, r)
    BY <1>5 DEF Delete, Refuse, FailedWrite, CountersMove
  <1>6. CASE (\E r \in Routes : Resolve(t, r)) \/ List(t)
    BY <1>6 DEF Resolve, Lookup, List, ReadOnly, metrics, CountersMove
  <1>7. QED
    BY <1>1, <1>2, <1>3, <1>4, <1>5, <1>6 DEF Step, Start

\* The index and the raced routes stay sets of routes.
LEMMA StepTypesRoutes ==
    ASSUME WellTyped, NEW t \in Threads, Step(t) \/ Start(t)
    PROVE  index' \in SUBSET Routes /\ raced' \in SUBSET Routes
  <1>1. index \in SUBSET Routes /\ raced \in SUBSET Routes
    BY DEF WellTyped, TypeOK, StoreTypeOK
  <1>2. CASE Write(t)
    <2> DEFINE s == thread[t]
               r == TheRoute(t)
    <2>1. r \in Routes
      BY <1>2, RouteOfThread DEF Write, At, WellTyped, ThreadsShaped, Shaped
    <2>2. CASE Store(s.op, r, s.doc)
      BY <1>1, <2>1, <2>2 DEF Store, SetWithAudit
    <2>3. CASE UNCHANGED <<storeVars, raced>>
      BY <1>1, <2>3 DEF storeVars
    <2>4. QED  BY <1>2, <2>2, <2>3 DEF Write, FailedWrite
  <1>3. CASE \E r \in Routes : Delete(t, r)
    BY <1>1, <1>3 DEF Delete, FailedWrite, DeleteWithAudit, storeVars
  <1>4. CASE ListPrune(t)
    BY <1>1, <1>4 DEF ListPrune, Pruned
  <1>5. CASE Invalidate(t)
    BY <1>1, <1>5 DEF Invalidate, storeVars
  <1>6. CASE ListEntry(t) \/ ReadStore(t) \/ FillCache(t) \/ ListGets(t)
    BY <1>1, <1>6 DEF ListEntry, Lookup, ReadStore, FillCache, ListGets, ReadOnly, storeVars
  <1>7. CASE \E r \in Routes, body \in Bodies : Create(t, r, body) \/ Update(t, r, body)
    BY <1>1, <1>7 DEF Create, Update, storeVars
  <1>8. CASE (\E r \in Routes : Resolve(t, r)) \/ List(t)
    BY <1>1, <1>8 DEF Resolve, Lookup, List, ReadOnly, storeVars
  <1>9. QED
    BY <1>2, <1>3, <1>4, <1>5, <1>6, <1>7, <1>8 DEF Step, Start

\* The backend stays; acknowledged versions and writes are well formed.
LEMMA StepTypesRest ==
    ASSUME WellTyped, NEW t \in Threads, Step(t) \/ Start(t)
    PROVE  /\ backend' = backend
           /\ acked' \in [Workers -> [Routes -> Nat]]
           /\ writes' \in 0..MaxWrites
  <1>1. /\ acked \in [Workers -> [Routes -> Nat]]
        /\ writes \in 0..MaxWrites /\ MaxWrites \in Nat
    BY ControlAssumption DEF WellTyped, TypeOK, ControlAssumption
  <1>2. CASE Invalidate(t)
    <2> DEFINE w == Home(t)
               r == TheRoute(t)
               v == thread[t].ver
               n == IF v > acked[w][r] THEN v ELSE acked[w][r]
    <2>1. w \in Workers /\ r \in Routes
      BY <1>2, RouteOfThread, WorkerOfThread
      DEF Invalidate, At, WellTyped, ThreadsShaped, Shaped
    <2>2. v \in Nat
      BY ThreadFields DEF WellTyped, TypeOK
    <2>3. [acked[w] EXCEPT ![r] = n] \in [Routes -> Nat]
      BY <1>1, <2>1, <2>2
    <2>4. acked' = [acked EXCEPT ![w] = [acked[w] EXCEPT ![r] = n]]
      BY <1>1, <1>2, <2>1 DEF Invalidate
    <2>5. acked' \in [Workers -> [Routes -> Nat]]
      BY <1>1, <2>3, <2>4
    <2>6. QED  BY <1>1, <1>2, <2>5 DEF Invalidate
  <1>3. CASE Write(t) \/ ListPrune(t)
    BY <1>1, <1>3 DEF Write, ListPrune
  <1>4. CASE ListEntry(t) \/ ReadStore(t) \/ FillCache(t) \/ ListGets(t)
    BY <1>1, <1>4 DEF ListEntry, Lookup, ReadStore, FillCache, ListGets, ReadOnly
  <1>5. CASE \E r \in Routes, body \in Bodies : Create(t, r, body) \/ Update(t, r, body)
    BY <1>1, <1>5 DEF Create, Update, Attempt
  <1>6. CASE \E r \in Routes : Delete(t, r)
    BY <1>1, <1>6 DEF Delete, Attempt
  <1>7. CASE (\E r \in Routes : Resolve(t, r)) \/ List(t)
    BY <1>1, <1>7 DEF Resolve, Lookup, List, ReadOnly
  <1>8. QED
    BY <1>2, <1>3, <1>4, <1>5, <1>6, <1>7 DEF Step, Start

----------------------------------------------------------------------------
(***************************************************************************)
(* A tick wears the entries and the reads under way.                       *)
(***************************************************************************)
LEMMA AgedTyped ==
    ASSUME StoreTypeOK, NEW r \in Routes, NEW e \in Entries
    PROVE  Aged(e, r) \in Entries /\ (Fresh(e) => Fresh(Aged(e, r)))
  <1>1. /\ TTL \in Nat \ {0} /\ ReadBound \in Nat
        /\ e.left \in 0..TTL /\ e.stale \in Nat /\ e.ver \in Nat
        /\ version[r] \in Nat
    BY ControlAssumption DEF ControlAssumption, Entries, StoreTypeOK
  <1>2. CASE e.left <= 1
    BY <1>1, <1>2, EmptyTyped DEF Aged, Empty, Fresh
  <1>3. CASE ~(e.left <= 1)
    <2> DEFINE st == IF e.ver < version[r] THEN e.stale + 1 ELSE e.stale
               n == [e EXCEPT !.left = e.left - 1, !.stale = st]
    <2>1. e.left - 1 \in 0..TTL /\ st \in Nat /\ st <= e.stale + 1
      BY <1>1, <1>3
    <2>2. Aged(e, r) = n
      BY <1>3 DEF Aged, Entries
    <2>3. n \in Entries /\ n.left = e.left - 1 /\ n.stale = st
      BY <2>1 DEF Entries
    <2>4. Fresh(e) => Fresh(n)
      BY <1>1, <1>3, <2>1, <2>3 DEF Fresh
    <2>5. QED  BY <2>2, <2>3, <2>4
  <1>4. QED  BY <1>2, <1>3

\* The clock moves no thread on; what a thread has read grows older.
LEMMA TickThread ==
    ASSUME WellTyped, Tick, NEW t \in Threads
    PROVE  thread'[t] \in ThreadStates /\ Shaped(thread'[t]) /\ thread'[t].pc = thread[t].pc
           /\ thread'[t].gone = thread[t].gone
  <1> DEFINE s == thread[t]
  <1>1. s \in ThreadStates /\ Shaped(s)
    BY DEF WellTyped, TypeOK, ThreadsShaped
  <1>2. CASE ~Reading(t)
    BY <1>1, <1>2 DEF Tick
  <1>3. CASE Reading(t)
    <2> DEFINE st == IF s.ver < version[TheRoute(t)] THEN s.stale + 1 ELSE s.stale
               n == [s EXCEPT !.waited = s.waited + 1, !.stale = st]
    <2>1. s.waited \in Nat /\ s.stale \in Nat /\ ReadBound \in Nat
      BY <1>1, ThreadFields, ControlAssumption DEF ControlAssumption
    <2>2. s.pc = "fill" /\ s.stale <= s.waited /\ s.waited < ReadBound /\ s.routes # {}
      BY <1>1, <1>3 DEF Reading, At, Tick, Shaped
    <2>3. st \in Nat /\ st <= s.waited + 1 /\ s.waited + 1 <= ReadBound
      BY <2>1, <2>2
    <2>4. thread'[t] = n
      BY <1>1, <1>3 DEF Tick, ThreadStates
    <2>5. n \in ThreadStates
      <3>1. s.waited + 1 \in Nat
        BY <2>1
      <3> HIDE DEF st
      <3>2. QED  BY <1>1, <2>3, <3>1 DEF ThreadStates
    <2>6. /\ n.pc = s.pc /\ n.routes = s.routes /\ n.waited = s.waited + 1 /\ n.stale = st
          /\ n.gone = s.gone
      BY <1>1 DEF ThreadStates
    <2>7. Shaped(n)
      BY <2>2, <2>3, <2>6 DEF Shaped
    <2>8. QED  BY <2>4, <2>5, <2>6, <2>7
  <1>4. QED  BY <1>2, <1>3

----------------------------------------------------------------------------
(***************************************************************************)
(* The typing invariant: TypeOK with what handlers rely on.                *)
(***************************************************************************)
LEMMA InitWellTyped == Init => WellTyped
  <1> SUFFICES ASSUME Init PROVE WellTyped
    OBVIOUS
  <1>1. StoreTypeOK
    BY DEF Init, StoreInit, StoreTypeOK, Documents
  <1>2. cache \in [Workers -> [Routes -> Entries]]
    BY EmptyTyped DEF Init
  <1>3. thread \in [Threads -> ThreadStates]
    BY IdleTyped DEF Init
  <1>4. operations \in Outcomes /\ audited \in Outcomes
    BY DEF Init, Outcomes
  <1>5. /\ backend \in Backends
        /\ acked \in [Workers -> [Routes -> Nat]]
        /\ raced \in SUBSET Routes
        /\ writes \in 0..MaxWrites
    BY ControlAssumption DEF Init, ControlAssumption
  <1>6. ThreadsShaped
    BY DEF Init, ThreadsShaped, Shaped, Idle
  <1>7. QED  BY <1>1, <1>2, <1>3, <1>4, <1>5, <1>6 DEF WellTyped, TypeOK

\* A move keeps the threads well formed.
LEMMA MovesTyped ==
    ASSUME WellTyped, NEW t \in Threads, Moves(t)
    PROVE  thread' \in [Threads -> ThreadStates] /\ ThreadsShaped'
  <1>1. PICK s \in ThreadStates : Shaped(s) /\ thread' = [thread EXCEPT ![t] = s]
    BY DEF Moves
  <1>2. thread \in [Threads -> ThreadStates] /\ \A u \in Threads : Shaped(thread[u])
    BY DEF WellTyped, TypeOK, ThreadsShaped
  <1>3. thread' \in [Threads -> ThreadStates]
    BY <1>1, <1>2
  <1>4. \A u \in Threads : Shaped(thread'[u])
    BY <1>1, <1>2
  <1>5. QED  BY <1>3, <1>4 DEF ThreadsShaped, Shaped

\* A step of a thread keeps the state well formed.
LEMMA HandlerTyped ==
    ASSUME WellTyped, NEW t \in Threads, Step(t) \/ Start(t)
    PROVE  WellTyped'
  <1>1. TypeOK /\ StoreTypeOK
    BY DEF WellTyped, TypeOK
  <1>2. /\ store' \in [Routes -> Documents]
        /\ audit' \in Seq(Events)
        /\ version' \in [Routes -> Nat]
    BY <1>1, StoreStep, AuditedTyped
  <1>3. index' \in SUBSET Routes /\ raced' \in SUBSET Routes
    BY StepTypesRoutes
  <1>4. cache' \in [Workers -> [Routes -> Entries]]
    BY <1>1, CacheStep, CachedTyped
  <1>5. thread' \in [Threads -> ThreadStates] /\ ThreadsShaped'
    BY StepMoves, MovesTyped
  <1>6. operations' \in Outcomes /\ audited' \in Outcomes
    <2>1. CountersMove
      BY StepMovesCounters
    <2>2. operations \in Outcomes /\ audited \in Outcomes
      BY <1>1 DEF TypeOK
    <2>3. QED  BY <2>1, <2>2, CountTyped DEF CountersMove
  <1>7. /\ backend' \in Backends
        /\ acked' \in [Workers -> [Routes -> Nat]]
        /\ writes' \in 0..MaxWrites
    BY <1>1, StepTypesRest DEF TypeOK
  <1>8. StoreTypeOK'
    BY <1>2, <1>3 DEF StoreTypeOK
  <1>9. TypeOK'
    BY <1>3, <1>4, <1>5, <1>6, <1>7, <1>8 DEF TypeOK
  <1>10. QED  BY <1>5, <1>9 DEF WellTyped

\* So does the clock.
LEMMA TickTyped ==
    ASSUME WellTyped, Tick
    PROVE  WellTyped'
  <1>1. TypeOK /\ StoreTypeOK
    BY DEF WellTyped, TypeOK
  <1>2. /\ UNCHANGED <<store, index, audit, version, backend, operations, audited>>
        /\ UNCHANGED <<acked, raced, writes>>
    BY DEF Tick, ReadOnly, storeVars, metrics
  <1>3. cache' \in [Workers -> [Routes -> Entries]]
    <2>1. \A w \in Workers, r \in Routes : Aged(cache[w][r], r) \in Entries
      BY <1>1, AgedTyped DEF TypeOK
    <2>2. QED  BY <2>1 DEF Tick
  <1>4. thread' \in [Threads -> ThreadStates]
    <2>1. \A t \in Threads : thread'[t] \in ThreadStates
      BY TickThread
    <2>2. \E f : thread' = [t \in Threads |-> f[t]]
      <3>1. thread' = [t \in Threads |-> thread'[t]]
        BY DEF Tick
      <3>2. QED  BY <3>1
    <2>3. QED  BY <2>1, <2>2
  <1>5. ThreadsShaped'
    <2>1. \A t \in Threads : Shaped(thread'[t])
      BY TickThread
    <2>2. QED  BY <2>1 DEF ThreadsShaped, Shaped
  <1>6. TypeOK'
    BY <1>1, <1>2, <1>3, <1>4 DEF TypeOK, StoreTypeOK
  <1>7. QED  BY <1>5, <1>6 DEF WellTyped

\* Every step keeps the state well formed.
LEMMA StepWellTyped == WellTyped /\ [Next]_vars => WellTyped'
  <1> SUFFICES ASSUME WellTyped, [Next]_vars PROVE WellTyped'
    OBVIOUS
  <1>1. CASE Tick
    BY <1>1, TickTyped
  <1>2. CASE \E t \in Threads : Step(t) \/ Start(t)
    BY <1>2, HandlerTyped
  <1>3. CASE \E w \in Workers, r \in Routes : PushedOut(w, r)
    <2>1. PICK w \in Workers, r \in Routes : PushedOut(w, r)
      BY <1>3
    <2>2. /\ UNCHANGED <<store, index, audit, version, backend, thread, operations, audited>>
          /\ UNCHANGED <<acked, raced, writes>>
      BY <2>1 DEF PushedOut, ReadOnly, storeVars, metrics
    <2>3. cache' \in [Workers -> [Routes -> Entries]]
      BY <2>1, DroppedCached, CachedTyped DEF PushedOut, WellTyped
    <2>4. QED  BY <2>2, <2>3 DEF WellTyped, TypeOK, StoreTypeOK, ThreadsShaped, Shaped
  <1>4. CASE UNCHANGED vars
    BY <1>4 DEF vars, WellTyped, TypeOK, StoreTypeOK, ThreadsShaped, Shaped
  <1>5. QED  BY <1>1, <1>2, <1>3, <1>4 DEF Next

(***************************************************************************)
(* Whatever admins send, in whatever order, every document that is stored, *)
(* cached, recorded or about to be written is one RoutePolicy accepts, and *)
(* every limit in force is in range.  (model.py: "invalid data can never   *)
(* reach a store or the limiter hot path".)                                *)
(***************************************************************************)
THEOREM TypeCorrect == Spec => []TypeOK
  <1>1. WellTyped => TypeOK
    BY DEF WellTyped
  <1>2. QED  BY <1>1, InitWellTyped, StepWellTyped, PTL DEF Spec

----------------------------------------------------------------------------
(***************************************************************************)
(* The bound on staleness is inductive once reads under way are known to   *)
(* be no staler than they are old: a fill starts at most ReadBound behind, *)
(* and while an entry ages by one tick it also loses one.                  *)
(***************************************************************************)
StaleInv == WellTyped /\ BoundedStaleness

\* Every step keeps the bound on staleness.
LEMMA StalenessStep == StaleInv /\ [Next]_vars => BoundedStaleness'
  <1> SUFFICES ASSUME StaleInv, [Next]_vars PROVE BoundedStaleness'
    OBVIOUS
  <1>1. /\ WellTyped /\ StoreTypeOK
        /\ cache \in [Workers -> [Routes -> Entries]]
        /\ \A w \in Workers, r \in Routes : Fresh(cache[w][r])
    BY DEF StaleInv, WellTyped, TypeOK, BoundedStaleness, Fresh
  <1>2. CASE Cached
    <2>1. PICK w \in Workers, r \in Routes : \E e \in Entries :
                  Fresh(e) /\ cache' = [cache EXCEPT ![w][r] = e]
      BY <1>2 DEF Cached
    <2>2. PICK e \in Entries : Fresh(e) /\ cache' = [cache EXCEPT ![w][r] = e]
      BY <2>1
    <2>3. \A v \in Workers, q \in Routes : cache'[v][q] \in {e, cache[v][q]}
      BY <1>1, <2>2
    <2>4. \A v \in Workers, q \in Routes : Fresh(cache'[v][q])
      BY <1>1, <2>2, <2>3
    <2>5. QED  BY <2>4 DEF BoundedStaleness, Fresh
  <1>3. CASE UNCHANGED cache
    BY <1>1, <1>3 DEF BoundedStaleness, Fresh
  <1>4. CASE Tick
    <2>1. \A w \in Workers, r \in Routes : cache'[w][r] = Aged(cache[w][r], r)
      BY <1>4 DEF Tick
    <2>2. \A w \in Workers, r \in Routes : Fresh(cache'[w][r])
      BY <1>1, <2>1, AgedTyped
    <2>3. QED  BY <2>2 DEF BoundedStaleness, Fresh
  <1>5. CASE \E t \in Threads : Step(t) \/ Start(t)
    BY <1>1, <1>2, <1>3, <1>5, CacheStep
  <1>6. CASE \E w \in Workers, r \in Routes : PushedOut(w, r)
    BY <1>2, <1>6, DroppedCached DEF PushedOut
  <1>7. CASE UNCHANGED vars
    BY <1>3, <1>7 DEF vars
  <1>8. QED  BY <1>4, <1>5, <1>6, <1>7 DEF Next

(***************************************************************************)
(* No worker serves a policy for longer than TTL + ReadBound after it was  *)
(* replaced: neither faults nor lost answers nor racing writers, fills and *)
(* evictions stretch it.  (resolver.py: "other workers converge within the *)
(* TTL".)                                                                  *)
(***************************************************************************)
THEOREM StalenessBounded == Spec => []BoundedStaleness
  <1>1. Init => StaleInv
    <2>1. Init => BoundedStaleness
      BY DEF Init, BoundedStaleness, Empty
    <2>2. QED  BY <2>1, InitWellTyped DEF StaleInv
  <1>2. StaleInv /\ [Next]_vars => StaleInv'
    BY StepWellTyped, StalenessStep DEF StaleInv
  <1>3. StaleInv => BoundedStaleness
    BY DEF StaleInv
  <1>4. QED  BY <1>1, <1>2, <1>3, PTL DEF Spec

----------------------------------------------------------------------------
(***************************************************************************)
(* Why a policy can be missing from the index only after a race: whatever  *)
(* a listing is about to prune is gone, or was written since and then is   *)
(* known to be raced.                                                      *)
(***************************************************************************)
PruneSeen ==
    \A t \in Threads, r \in Routes :
        At(t, "prune") /\ r \in thread[t].gone /\ store[r] # NoPolicy => r \in raced

Listed == \A r \in Routes \ raced : store[r] # NoPolicy => r \in index

ListInv == WellTyped /\ PruneSeen /\ Listed

(***************************************************************************)
(* What a step does to the documents, the index and the raced routes.      *)
(***************************************************************************)
Untouched == UNCHANGED <<store, index, raced>>
StoredAt(r) == \E op \in Operations, doc \in Documents : Store(op, r, doc)
DeletedAt(r) == DeleteWithAudit(r) /\ UNCHANGED raced
PrunedBy(t) == ListPrune(t) /\ index' = Pruned(t) /\ UNCHANGED <<store, raced>>

\* A step of a thread stores, deletes or prunes, or leaves the listing's state alone.
LEMMA IndexStep ==
    ASSUME WellTyped, NEW t \in Threads, Step(t) \/ Start(t)
    PROVE  \/ Untouched
           \/ \E r \in Routes : StoredAt(r) \/ DeletedAt(r)
           \/ PrunedBy(t)
  <1>1. CASE Write(t)
    <2> DEFINE s == thread[t]
               r == TheRoute(t)
    <2>1. s \in ThreadStates /\ Shaped(s) /\ s.pc = "write"
      BY <1>1 DEF WellTyped, TypeOK, ThreadsShaped, Write, At
    <2>2. r \in Routes
      BY <2>1, RouteOfThread DEF Shaped, WellTyped
    <2>3. CASE Store(s.op, r, s.doc)
      <3>1. s.op \in Operations /\ s.doc \in Documents
        BY <2>1 DEF Shaped, Operations, Documents
      <3>2. QED  BY <2>2, <2>3, <3>1 DEF StoredAt
    <2>4. CASE UNCHANGED <<storeVars, raced>>
      BY <2>4 DEF storeVars, Untouched
    <2>5. QED  BY <1>1, <2>3, <2>4 DEF Write, FailedWrite
  <1>2. CASE \E r \in Routes : Delete(t, r)
    <2>1. PICK r \in Routes : Delete(t, r)
      BY <1>2
    <2>2. DeletedAt(r) \/ UNCHANGED <<storeVars, raced>>
      BY <2>1 DEF Delete, FailedWrite, DeletedAt
    <2>3. QED  BY <2>2 DEF storeVars, Untouched
  <1>3. CASE Invalidate(t)
    BY <1>3 DEF Invalidate, storeVars, Untouched
  <1>4. CASE ListEntry(t) \/ ReadStore(t) \/ FillCache(t) \/ ListGets(t)
    BY <1>4 DEF ListEntry, Lookup, ReadStore, FillCache, ListGets, ReadOnly, storeVars, Untouched
  <1>5. CASE ListPrune(t)
    BY <1>5 DEF ListPrune, PrunedBy, Untouched
  <1>6. CASE \E r \in Routes, body \in Bodies : Create(t, r, body) \/ Update(t, r, body)
    BY <1>6 DEF Create, Update, storeVars, Untouched
  <1>7. CASE (\E r \in Routes : Resolve(t, r)) \/ List(t)
    BY <1>7 DEF Resolve, Lookup, List, ReadOnly, storeVars, Untouched
  <1>8. QED
    BY <1>1, <1>2, <1>3, <1>4, <1>5, <1>6, <1>7 DEF Step, Start

(***************************************************************************)
(* A thread about to prune was about to prune the same routes before, or   *)
(* it has just found them without a document.                              *)
(***************************************************************************)
LEMMA PruneStarts ==
    ASSUME WellTyped, NEW t \in Threads, Step(t) \/ Start(t),
           NEW u \in Threads, thread'[u].pc = "prune"
    PROVE  \/ thread'[u] = thread[u]
           \/ Untouched /\ \A r \in Routes : r \in thread'[u].gone => store[r] = NoPolicy
  <1>1. thread \in [Threads -> ThreadStates]
    BY DEF WellTyped, TypeOK
  <1>2. PICK s \in ThreadStates :
            thread' = [thread EXCEPT ![t] = s] /\ (s.pc = "prune" => ListGets(t))
    BY StepMoves DEF Moves
  <1>3. CASE u # t
    BY <1>1, <1>2, <1>3
  <1>4. CASE u = t
    <2>1. ListGets(t) /\ thread'[t].pc = "prune"
      BY <1>1, <1>2, <1>4
    <2>2. Untouched
      BY <2>1 DEF ListGets, ReadOnly, storeVars, Untouched
    <2> DEFINE found == thread[t].routes
               n == [thread[t] EXCEPT !.pc = "prune", !.routes = found \cap Stored,
                                      !.gone = found \ Stored]
    <2>3. Idle.pc = "idle" /\ \A R : [Idle EXCEPT !.pc = "check", !.op = "list", !.routes = R].pc = "check"
      BY DEF Idle
    <2>4. thread'[t] = n
      <3>1. ~Goto(t, Idle)
        BY <1>1, <2>1, <2>3 DEF Goto
      <3>2. ~Show(t, found)
        BY <1>1, <2>1, <2>3, <3>1 DEF Goto, Show
      <3>3. Goto(t, n)
        BY <2>1, <3>1, <3>2 DEF ListGets
      <3>4. QED  BY <1>1, <3>3 DEF Goto
    <2>5. n.gone = found \ Stored
      BY <1>1 DEF ThreadStates
    <2>6. \A r \in Routes : r \in thread'[u].gone => store[r] = NoPolicy
      BY <1>4, <2>4, <2>5 DEF Stored, Missing
    <2>7. QED  BY <2>2, <2>6
  <1>5. QED  BY <1>3, <1>4

\* Each of these keeps what is listed and what a prune has seen.
LEMMA ListHandler ==
    ASSUME ListInv, NEW t \in Threads, Step(t) \/ Start(t)
    PROVE  PruneSeen' /\ Listed'
  <1>1. /\ WellTyped /\ PruneSeen /\ Listed
        /\ store \in [Routes -> Documents] /\ raced \in SUBSET Routes
    BY DEF ListInv, WellTyped, TypeOK, StoreTypeOK
  \* a thread about to prune when t has moved
  <1>2. ASSUME NEW u \in Threads, NEW q \in Routes,
               thread'[u].pc = "prune", q \in thread'[u].gone, store'[q] # NoPolicy
        PROVE  q \in raced'
    <2>1. CASE Untouched /\ store[q] = NoPolicy
      BY <1>2, <2>1 DEF Untouched
    <2>2. CASE thread'[u] = thread[u]
      <3>1. thread[u].pc = "prune" /\ q \in thread[u].gone
        BY <1>2, <2>2
      <3>2. store[q] # NoPolicy => q \in raced
        BY <1>1, <3>1 DEF PruneSeen, At
      <3>3. CASE Untouched \/ PrunedBy(t)
        BY <1>2, <3>2, <3>3 DEF Untouched, PrunedBy
      <3>4. CASE \E r \in Routes : DeletedAt(r)
        BY <1>1, <1>2, <3>2, <3>4 DEF DeletedAt, DeleteWithAudit
      <3>5. ASSUME NEW r \in Routes, StoredAt(r)
            PROVE  q \in raced'
        <4>1. /\ store' = [store EXCEPT ![r] = store'[r]]
              /\ raced' = IF AboutToPrune(r) THEN raced \cup {r} ELSE raced \ {r}
          BY <1>1, <3>5 DEF StoredAt, Store, SetWithAudit
        <4>2. CASE q = r
          BY <3>1, <4>1, <4>2 DEF AboutToPrune, At
        <4>3. CASE q # r
          <5>1. store'[q] = store[q]
            BY <1>1, <4>1, <4>3
          <5>2. QED  BY <1>2, <3>2, <4>1, <4>3, <5>1
        <4>4. QED  BY <4>2, <4>3
      <3>6. QED  BY <1>1, <3>3, <3>4, <3>5, IndexStep
    <2>3. QED  BY <1>1, <1>2, <2>1, <2>2, PruneStarts
  <1>3. PruneSeen'
    BY <1>2 DEF PruneSeen, At
  <1>4. Listed'
    <2>1. CASE Untouched
      BY <1>1, <2>1 DEF Untouched, Listed
    <2>2. ASSUME NEW r \in Routes, StoredAt(r)
          PROVE  Listed'
      <3>1. /\ store' = [store EXCEPT ![r] = store'[r]]
            /\ index' = index \cup {r}
            /\ raced' \in {raced \cup {r}, raced \ {r}}
        BY <1>1, <2>2 DEF StoredAt, Store, SetWithAudit
      <3>2. QED  BY <1>1, <3>1 DEF Listed
    <2>3. ASSUME NEW r \in Routes, DeletedAt(r)
          PROVE  Listed'
      BY <1>1, <2>3 DEF DeletedAt, DeleteWithAudit, Listed
    <2>4. CASE PrunedBy(t)
      <3>1. At(t, "prune") /\ index' = index \ thread[t].gone /\ UNCHANGED <<store, raced>>
        BY <2>4 DEF PrunedBy, Pruned, ListPrune
      <3>2. QED  BY <1>1, <3>1 DEF Listed, PruneSeen
    <2>5. QED  BY <1>1, <2>1, <2>2, <2>3, <2>4, IndexStep
  <1>5. QED  BY <1>3, <1>4

\* Every step does.
LEMMA ListStep == ListInv /\ [Next]_vars => ListInv'
  <1> SUFFICES ASSUME ListInv, [Next]_vars PROVE PruneSeen' /\ Listed'
    BY StepWellTyped DEF ListInv
  <1>1. CASE \E t \in Threads : Step(t) \/ Start(t)
    BY <1>1, ListHandler
  <1>2. CASE Tick
    <2>1. WellTyped /\ PruneSeen /\ Listed
      BY DEF ListInv
    <2>2. UNCHANGED <<store, index, raced>>
      BY <1>2 DEF Tick, ReadOnly, storeVars
    <2>3. \A t \in Threads : thread'[t].pc = thread[t].pc /\ thread'[t].gone = thread[t].gone
      BY <1>2, <2>1, TickThread
    <2>4. QED  BY <2>1, <2>2, <2>3 DEF PruneSeen, At, Listed
  <1>3. CASE UNCHANGED <<store, index, raced, thread>>
    BY <1>3 DEF ListInv, PruneSeen, At, Listed
  <1>4. CASE \E w \in Workers, r \in Routes : PushedOut(w, r)
    BY <1>3, <1>4 DEF PushedOut, ReadOnly, storeVars
  <1>5. CASE UNCHANGED vars
    BY <1>3, <1>5 DEF vars
  <1>6. QED  BY <1>1, <1>2, <1>4, <1>5 DEF Next

(***************************************************************************)
(* Deletes, lost answers, failures and other listings never hide a stored  *)
(* policy from the listings: only a prune that was under way while the     *)
(* policy was written does, until its next write.  The stale entry cleanup *)
(* of RedisPolicyStore.list is what is at stake.                           *)
(***************************************************************************)
THEOREM OnlyARaceUnlists == Spec => []UnlistedOnlyByRace
  <1>1. Init => ListInv
    <2>1. Init => PruneSeen /\ Listed
      BY DEF Init, StoreInit, PruneSeen, Listed, At, Idle
    <2>2. QED  BY <2>1, InitWellTyped DEF ListInv
  <1>2. ListInv => UnlistedOnlyByRace
    BY DEF ListInv, Listed, UnlistedOnlyByRace
  <1>3. QED  BY <1>1, <1>2, ListStep, PTL DEF Spec

----------------------------------------------------------------------------
(***************************************************************************)
(* The audit trail as a function of the trail and the documents, so that   *)
(* it can be asked of the trail before and after a write.  A trail chains  *)
(* to the documents when every event is followed by one that replaced what *)
(* it wrote, or wrote what is stored.                                      *)
(***************************************************************************)
Follows(s, i, r) ==
    \E k \in (i + 1)..Len(s) :
        /\ s[k].route = r
        /\ \A m \in (i + 1)..(k - 1) : ~(s[m].route = r)
        /\ s[k].previous = s[i].new

Newest(s, docs, i, r) ==
    /\ \A k \in (i + 1)..Len(s) : ~(s[k].route = r)
    /\ docs[r] = s[i].new

ChainOf(s, docs) ==
    \A r \in Routes, i \in 1..Len(s) :
        s[i].route = r => Follows(s, i, r) \/ Newest(s, docs, i, r)

\* AuditChain is about the trail and the documents of the state.
LEMMA ChainIsAuditChain == AuditChain <=> ChainOf(audit, store)
  BY DEF AuditChain, ChainOf, Follows, Newest, Concerns

(***************************************************************************)
(* An event whose previous document is the stored one extends the chain.   *)
(***************************************************************************)
LEMMA ChainAppend ==
    ASSUME NEW s \in Seq(Events), NEW docs \in [Routes -> Documents], ChainOf(s, docs),
           NEW e \in Events, e.previous = docs[e.route]
    PROVE  ChainOf(Append(s, e), [docs EXCEPT ![e.route] = e.new])
  <1> DEFINE n == Len(s)
             x == Append(s, e)
             d == [docs EXCEPT ![e.route] = e.new]
  <1>1. /\ n \in Nat /\ Len(x) = n + 1 /\ x[n + 1] = e
        /\ \A i \in 1..n : x[i] = s[i]
    OBVIOUS
  <1>2. e.route \in Routes /\ d[e.route] = e.new /\ \A q \in Routes \ {e.route} : d[q] = docs[q]
    BY DEF Events
  <1> HIDE DEF n, x, d
  <1> SUFFICES ASSUME NEW r \in Routes, NEW i \in 1..(n + 1), x[i].route = r
               PROVE  Follows(x, i, r) \/ Newest(x, d, i, r)
    BY <1>1 DEF ChainOf, x, d
  <1>3. CASE i = n + 1
    <2>1. (i + 1)..Len(x) = {}
      BY <1>1, <1>3
    <2>2. d[r] = x[i].new
      BY <1>1, <1>2, <1>3
    <2>3. QED  BY <2>1, <2>2 DEF Newest
  <1>4. CASE i # n + 1
    <2>1. i \in 1..n /\ s[i].route = r /\ x[i] = s[i]
      BY <1>1, <1>4
    <2>2. CASE Follows(s, i, r)
      <3>1. PICK k \in (i + 1)..n :
                /\ s[k].route = r
                /\ \A m \in (i + 1)..(k - 1) : ~(s[m].route = r)
                /\ s[k].previous = s[i].new
        BY <2>2 DEF Follows, n
      <3>2. k \in (i + 1)..Len(x) /\ x[k] = s[k]
        BY <1>1, <2>1, <3>1
      <3>3. \A m \in (i + 1)..(k - 1) : ~(x[m].route = r)
        BY <1>1, <2>1, <3>1
      <3>4. QED  BY <2>1, <3>1, <3>2, <3>3 DEF Follows
    <2>3. CASE Newest(s, docs, i, r)
      <3>1. /\ \A k \in (i + 1)..n : ~(s[k].route = r)
            /\ docs[r] = s[i].new
        BY <2>3 DEF Newest, n
      <3>2. \A k \in (i + 1)..n : ~(x[k].route = r)
        BY <1>1, <2>1, <3>1
      <3>3. CASE e.route = r
        <4>1. n + 1 \in (i + 1)..Len(x) /\ x[n + 1].route = r
          BY <1>1, <2>1, <3>3
        <4>2. x[n + 1].previous = x[i].new
          BY <1>1, <2>1, <3>1, <3>3
        <4>3. (n + 1) - 1 = n
          BY <1>1
        <4>4. QED  BY <3>2, <4>1, <4>2, <4>3 DEF Follows
      <3>4. CASE e.route # r
        <4>1. \A k \in (i + 1)..Len(x) : ~(x[k].route = r)
          BY <1>1, <2>1, <3>2, <3>4
        <4>2. d[r] = x[i].new
          BY <1>2, <2>1, <3>1, <3>4
        <4>3. QED  BY <4>1, <4>2 DEF Newest
      <3>5. QED  BY <3>3, <3>4
    <2>4. Follows(s, i, r) \/ Newest(s, docs, i, r)
      BY <2>1 DEF ChainOf, n
    <2>5. QED  BY <2>2, <2>3, <2>4
  <1>5. QED  BY <1>3, <1>4

(***************************************************************************)
(* Trimming the oldest event leaves a chain.                               *)
(***************************************************************************)
LEMMA ChainTail ==
    ASSUME NEW s \in Seq(Events), s # <<>>, NEW docs, ChainOf(s, docs)
    PROVE  ChainOf(Tail(s), docs)
  <1> DEFINE n == Len(s)
             x == Tail(s)
  <1>1. /\ n \in Nat /\ Len(x) = n - 1
        /\ \A i \in 1..(n - 1) : x[i] = s[i + 1]
    OBVIOUS
  <1> HIDE DEF n, x
  <1> SUFFICES ASSUME NEW r \in Routes, NEW i \in 1..(n - 1), x[i].route = r
               PROVE  Follows(x, i, r) \/ Newest(x, docs, i, r)
    BY <1>1 DEF ChainOf, x
  <1>2. i + 1 \in 1..n /\ s[i + 1].route = r /\ x[i] = s[i + 1]
    BY <1>1
  <1>3. CASE Follows(s, i + 1, r)
    <2>1. PICK k \in ((i + 1) + 1)..n :
              /\ s[k].route = r
              /\ \A m \in ((i + 1) + 1)..(k - 1) : ~(s[m].route = r)
              /\ s[k].previous = s[i + 1].new
      BY <1>3 DEF Follows, n
    <2>2. k - 1 \in (i + 1)..Len(x) /\ x[k - 1] = s[k]
      BY <1>1, <2>1
    <2>3. \A m \in (i + 1)..((k - 1) - 1) : ~(x[m].route = r)
      <3> SUFFICES ASSUME NEW m \in (i + 1)..((k - 1) - 1) PROVE ~(x[m].route = r)
        OBVIOUS
      <3>1. m + 1 \in ((i + 1) + 1)..(k - 1) /\ m \in 1..(n - 1)
        BY <1>1, <2>1
      <3>2. QED  BY <1>1, <2>1, <3>1
    <2>4. QED  BY <1>2, <2>1, <2>2, <2>3 DEF Follows
  <1>4. CASE Newest(s, docs, i + 1, r)
    <2>1. /\ \A k \in ((i + 1) + 1)..n : ~(s[k].route = r)
          /\ docs[r] = s[i + 1].new
      BY <1>4 DEF Newest, n
    <2>2. \A k \in (i + 1)..Len(x) : ~(x[k].route = r)
      <3> SUFFICES ASSUME NEW k \in (i + 1)..Len(x) PROVE ~(x[k].route = r)
        OBVIOUS
      <3>1. k + 1 \in ((i + 1) + 1)..n /\ k \in 1..(n - 1)
        BY <1>1
      <3>2. QED  BY <1>1, <2>1, <3>1
    <2>3. QED  BY <1>2, <2>1, <2>2 DEF Newest
  <1>5. Follows(s, i + 1, r) \/ Newest(s, docs, i + 1, r)
    BY <1>2 DEF ChainOf, n
  <1>6. QED  BY <1>3, <1>4, <1>5

(***************************************************************************)
(* Only audited writes touch the documents and the trail; what each step   *)
(* of the specification does to them.                                      *)
(***************************************************************************)
LEMMA AuditStep ==
    ASSUME WellTyped, [Next]_vars
    PROVE  UNCHANGED <<store, audit, version>> \/ Audited
  <1>1. CASE \E t \in Threads : Step(t) \/ Start(t)
    BY <1>1, StoreStep
  <1>2. CASE Tick
    BY <1>2 DEF Tick, ReadOnly, storeVars
  <1>3. CASE \E w \in Workers, r \in Routes : PushedOut(w, r)
    BY <1>3 DEF PushedOut, ReadOnly, storeVars
  <1>4. CASE UNCHANGED vars
    BY <1>4 DEF vars
  <1>5. QED  BY <1>1, <1>2, <1>3, <1>4 DEF Next

(***************************************************************************)
(* The audit trail replays to the store, under concurrent writers, lost    *)
(* answers and trimming.  (store.py: "the recorded previous_policy is      *)
(* exactly the document that was replaced".)                               *)
(***************************************************************************)
THEOREM AuditReplays == Spec => []AuditChain
  <1>1. Init => WellTyped /\ ChainOf(audit, store)
    <2>1. Init => ChainOf(audit, store)
      BY DEF Init, StoreInit, ChainOf
    <2>2. QED  BY <2>1, InitWellTyped
  <1>2. WellTyped /\ ChainOf(audit, store) /\ [Next]_vars => ChainOf(audit, store)'
    <2> SUFFICES ASSUME WellTyped, ChainOf(audit, store), [Next]_vars
                 PROVE  ChainOf(audit', store')
      BY DEF ChainOf, Follows, Newest
    <2>1. StoreTypeOK /\ store \in [Routes -> Documents] /\ audit \in Seq(Events)
      BY DEF WellTyped, TypeOK, StoreTypeOK
    <2>2. CASE UNCHANGED <<store, audit, version>>
      BY <2>2
    <2>3. CASE Audited
      <3>1. PICK op \in Operations, r \in Routes, doc \in Documents : Written(op, r, doc)
        BY <2>3 DEF Audited
      <3> DEFINE e == Event(op, r, doc)
      <3>2. e \in Events /\ e.route = r /\ e.new = doc /\ e.previous = store[r]
        BY <2>1, EventTyped DEF Event
      <3>3. store' = [store EXCEPT ![e.route] = e.new] /\ audit' = Recorded(e)
        BY <3>1, <3>2 DEF Written
      <3> HIDE DEF e
      <3>4. CASE audit' = Append(audit, e)
        BY <2>1, <3>2, <3>3, <3>4, ChainAppend
      <3>5. CASE audit # <<>> /\ audit' = Append(Tail(audit), e)
        <4>1. Tail(audit) \in Seq(Events) /\ ChainOf(Tail(audit), store)
          BY <2>1, <3>5, ChainTail
        <4>2. QED  BY <2>1, <3>2, <3>3, <3>5, <4>1, ChainAppend
      <3>6. audit' = Append(audit, e) \/ (audit # <<>> /\ audit' = Append(Tail(audit), e))
        <4>1. MaxEvents \in Nat \ {0}
          BY StoreAssumption DEF StoreAssumption
        <4>2. audit = <<>> => Len(audit) < MaxEvents
          BY <4>1
        <4>3. QED  BY <3>3, <4>2 DEF Recorded
      <3>7. QED  BY <3>4, <3>5, <3>6
    <2>4. QED  BY <2>2, <2>3, AuditStep
  <1>3. QED
    BY <1>1, <1>2, StepWellTyped, ChainIsAuditChain, PTL DEF Spec

----------------------------------------------------------------------------
(***************************************************************************)
(* The events of a route in a trail: one more after a write of the route,  *)
(* no more after trimming.                                                 *)
(***************************************************************************)
Kept(s, r) == {i \in 1..Len(s) : s[i].route = r}

\* The events of a route in a trail can be counted.
LEMMA KeptFinite ==
    ASSUME NEW s \in Seq(Events), NEW r
    PROVE  IsFiniteSet(Kept(s, r)) /\ Cardinality(Kept(s, r)) \in Nat
  <1>1. IsFiniteSet(1..Len(s))
    BY FS_Interval
  <1>2. Kept(s, r) \in SUBSET (1..Len(s))
    BY DEF Kept
  <1>3. QED  BY <1>1, <1>2, FS_Subset, FS_CardinalityType

\* A new event adds one to its route.
LEMMA KeptAppend ==
    ASSUME NEW s \in Seq(Events), NEW e \in Events, NEW r
    PROVE  Cardinality(Kept(Append(s, e), r))
               = Cardinality(Kept(s, r)) + (IF e.route = r THEN 1 ELSE 0)
  <1> DEFINE n == Len(s)
             x == Append(s, e)
  <1>1. /\ n \in Nat /\ Len(x) = n + 1 /\ x[n + 1] = e
        /\ \A i \in 1..n : x[i] = s[i]
    OBVIOUS
  <1>2. IsFiniteSet(Kept(s, r)) /\ Cardinality(Kept(s, r)) \in Nat
    BY KeptFinite
  <1>3. n + 1 \notin Kept(s, r)
    BY <1>1 DEF Kept
  <1> HIDE DEF n, x
  <1>4. CASE e.route = r
    <2>1. Kept(x, r) = Kept(s, r) \cup {n + 1}
      BY <1>1, <1>4 DEF Kept, n
    <2>2. QED  BY <1>2, <1>3, <1>4, <2>1, FS_AddElement DEF x
  <1>5. CASE e.route # r
    <2>1. Kept(x, r) = Kept(s, r)
      BY <1>1, <1>5 DEF Kept, n
    <2>2. QED  BY <1>2, <1>5, <2>1 DEF x
  <1>6. QED  BY <1>4, <1>5

\* Trimming takes none in.
LEMMA KeptTail ==
    ASSUME NEW s \in Seq(Events), s # <<>>, NEW r
    PROVE  Cardinality(Kept(Tail(s), r)) <= Cardinality(Kept(s, r))
  <1> DEFINE n == Len(s)
             x == Tail(s)
             f == [i \in Kept(x, r) |-> i + 1]
  <1>1. /\ n \in Nat /\ Len(x) = n - 1
        /\ \A i \in 1..(n - 1) : x[i] = s[i + 1]
    OBVIOUS
  <1>2. \A i \in Kept(x, r) : i \in Nat /\ i + 1 \in Kept(s, r)
    <2> SUFFICES ASSUME NEW i \in Kept(x, r) PROVE i \in Nat /\ i + 1 \in Kept(s, r)
      OBVIOUS
    <2>1. i \in 1..(n - 1) /\ x[i].route = r
      BY <1>1 DEF Kept
    <2>2. i \in Nat /\ i + 1 \in 1..n /\ s[i + 1].route = r
      BY <1>1, <2>1
    <2>3. QED  BY <2>2 DEF Kept
  <1>3. f \in Injection(Kept(x, r), Kept(s, r))
    <2>1. f \in [Kept(x, r) -> Kept(s, r)]
      BY <1>2
    <2>2. \A i, j \in Kept(x, r) : f[i] = f[j] => i = j
      BY <1>2
    <2>3. QED  BY <2>1, <2>2 DEF Injection, IsInjective
  <1>4. QED  BY <1>3, KeptFinite, FS_Injection

(***************************************************************************)
(* The trail never outgrows its bound, holds every change as long as it    *)
(* was never trimmed, and records only deletes that removed something: of  *)
(* two racing deletes one is recorded.  The state before a write decides   *)
(* all of it: the bound, the number of writes so far, and (for a delete)   *)
(* the document.                                                           *)
(***************************************************************************)
DeletesReal(s) ==
    \A i \in 1..Len(s) :
        s[i].operation = "delete" => s[i].previous # NoPolicy /\ s[i].new = NoPolicy

CompleteOf(s, ver) ==
    /\ Len(s) <= MaxEvents
    /\ \A r \in Routes :
          /\ Cardinality(Kept(s, r)) <= ver[r]
          /\ Len(s) < MaxEvents => Cardinality(Kept(s, r)) = ver[r]
    /\ DeletesReal(s)

\* AuditComplete is about the trail and the versions of the state.
LEMMA CompleteIsAuditComplete == AuditComplete <=> CompleteOf(audit, version)
  BY DEF AuditComplete, CompleteOf, Kept, DeletesReal, Concerns

\* A write keeps an untrimmed trail complete.
LEMMA CompleteWrite ==
    ASSUME NEW s \in Seq(Events), NEW ver \in [Routes -> Nat], CompleteOf(s, ver),
           NEW e \in Events,
           e.operation = "delete" => e.previous # NoPolicy /\ e.new = NoPolicy,
           NEW x, x = IF Len(s) < MaxEvents THEN Append(s, e) ELSE Append(Tail(s), e)
    PROVE  CompleteOf(x, [ver EXCEPT ![e.route] = @ + 1])
  <1> DEFINE v == [ver EXCEPT ![e.route] = @ + 1]
             y == IF Len(s) < MaxEvents THEN s ELSE Tail(s)
  <1>1. MaxEvents \in Nat \ {0} /\ Len(s) \in Nat /\ Len(s) <= MaxEvents
    BY StoreAssumption DEF StoreAssumption, CompleteOf
  <1>2. /\ e.route \in Routes /\ v \in [Routes -> Nat]
        /\ \A r \in Routes : v[r] = ver[r] + (IF e.route = r THEN 1 ELSE 0)
    BY DEF Events
  <1>3. Len(s) < MaxEvents \/ (Len(s) = MaxEvents /\ s # <<>>)
    BY <1>1
  <1>4. y \in Seq(Events) /\ x = Append(y, e) /\ Len(y) < MaxEvents /\ x \in Seq(Events)
    BY <1>1, <1>3
  <1>5. /\ Len(x) = Len(y) + 1 /\ Len(x) \in Nat /\ Len(y) \in Nat
        /\ x[Len(y) + 1] = e /\ \A i \in 1..Len(y) : x[i] = y[i]
    BY <1>4
  <1>6. Len(x) <= MaxEvents
    BY <1>1, <1>4, <1>5
  <1>7. ASSUME NEW r \in Routes
        PROVE  /\ Cardinality(Kept(x, r)) <= v[r]
               /\ Len(x) < MaxEvents => Cardinality(Kept(x, r)) = v[r]
    <2> DEFINE ks == Cardinality(Kept(s, r))
               ky == Cardinality(Kept(y, r))
               kx == Cardinality(Kept(x, r))
               one == IF e.route = r THEN 1 ELSE 0
    <2>1. ks \in Nat /\ ky \in Nat /\ kx \in Nat /\ one \in Nat /\ ver[r] \in Nat
      BY <1>4, KeptFinite
    <2>2. kx = ky + one
      <3> HIDE DEF y
      <3>1. Cardinality(Kept(Append(y, e), r)) = ky + one
        BY <1>4, KeptAppend
      <3>2. QED  BY <1>4, <3>1
    <2>3. ky <= ks
      <3>1. CASE Len(s) < MaxEvents
        BY <2>1, <3>1
      <3>2. CASE ~(Len(s) < MaxEvents)
        BY <1>3, <3>2, KeptTail
      <3>3. QED  BY <3>1, <3>2
    <2>4. ks <= ver[r] /\ (Len(s) < MaxEvents => ks = ver[r])
      BY DEF CompleteOf
    <2>5. v[r] = ver[r] + one
      BY <1>2
    <2>6. Len(x) < MaxEvents => Len(s) < MaxEvents /\ y = s
      <3>1. CASE Len(s) < MaxEvents
        BY <3>1
      <3>2. CASE ~(Len(s) < MaxEvents)
        <4>1. Len(y) = Len(s) - 1 /\ Len(s) = MaxEvents
          BY <1>3, <3>2
        <4>2. QED  BY <1>1, <1>5, <4>1
      <3>3. QED  BY <3>1, <3>2
    <2> HIDE DEF ks, ky, kx, one, v
    <2>7. kx <= v[r]
      BY <2>1, <2>2, <2>3, <2>4, <2>5
    <2>8. Len(x) < MaxEvents => kx = v[r]
      BY <2>1, <2>2, <2>4, <2>5, <2>6 DEF ks, ky
    <2>9. QED  BY <2>7, <2>8 DEF kx
  <1>8. DeletesReal(x)
    <2>1. DeletesReal(y)
      <3>1. CASE Len(s) < MaxEvents
        BY <3>1 DEF CompleteOf
      <3>2. CASE ~(Len(s) < MaxEvents)
        <4>1. Len(y) = Len(s) - 1 /\ \A i \in 1..Len(y) : y[i] = s[i + 1] /\ i + 1 \in 1..Len(s)
          BY <1>1, <1>3, <3>2
        <4>2. QED  BY <4>1 DEF CompleteOf, DeletesReal
      <3>3. QED  BY <3>1, <3>2
    <2>2. \A i \in 1..Len(x) : i \in 1..Len(y) \/ i = Len(y) + 1
      BY <1>5
    <2>3. QED  BY <1>5, <2>1, <2>2 DEF DeletesReal
  <1>9. QED  BY <1>6, <1>7, <1>8 DEF CompleteOf

(***************************************************************************)
(* As long as it was never trimmed the trail holds every change, and a     *)
(* delete on record removed something.  (README: "bounded to the newest    *)
(* RATE_LIMIT_AUDIT_MAX_EVENTS events".)                                   *)
(***************************************************************************)
THEOREM AuditHoldsEveryChange == Spec => []AuditComplete
  <1>1. Init => WellTyped /\ CompleteOf(audit, version)
    <2> SUFFICES ASSUME Init PROVE CompleteOf(audit, version)
      BY InitWellTyped
    <2>1. audit = <<>> /\ Len(audit) = 0 /\ \A r \in Routes : version[r] = 0
      BY DEF Init, StoreInit
    <2>2. \A r \in Routes : Kept(audit, r) = {}
      BY <2>1 DEF Kept
    <2>3. MaxEvents \in Nat \ {0}
      BY StoreAssumption DEF StoreAssumption
    <2>4. \A r \in Routes : Cardinality(Kept(audit, r)) = 0
      BY <2>2, FS_EmptySet
    <2>5. DeletesReal(audit)
      BY <2>1 DEF DeletesReal
    <2>6. QED  BY <2>1, <2>3, <2>4, <2>5 DEF CompleteOf
  <1>2. WellTyped /\ CompleteOf(audit, version) /\ [Next]_vars => CompleteOf(audit, version)'
    <2> SUFFICES ASSUME WellTyped, CompleteOf(audit, version), [Next]_vars
                 PROVE  CompleteOf(audit', version')
      BY DEF CompleteOf, Kept, DeletesReal
    <2>1. StoreTypeOK /\ version \in [Routes -> Nat] /\ audit \in Seq(Events)
      BY DEF WellTyped, TypeOK, StoreTypeOK
    <2>2. CASE UNCHANGED <<store, audit, version>>
      BY <2>2
    <2>3. CASE Audited
      <3>1. PICK op \in Operations, r \in Routes, doc \in Documents :
                /\ Written(op, r, doc)
                /\ op = "delete" => store[r] # NoPolicy /\ doc = NoPolicy
        BY <2>3 DEF Audited
      <3> DEFINE e == Event(op, r, doc)
      <3>2. /\ e \in Events /\ e.route = r
            /\ e.operation = "delete" => e.previous # NoPolicy /\ e.new = NoPolicy
        BY <2>1, <3>1, EventTyped DEF Event
      <3>3. /\ version' = [version EXCEPT ![e.route] = @ + 1]
            /\ audit' = IF Len(audit) < MaxEvents THEN Append(audit, e) ELSE Append(Tail(audit), e)
        BY <3>1, <3>2 DEF Written, Recorded
      <3> HIDE DEF e
      <3>4. QED  BY <2>1, <3>2, <3>3, CompleteWrite
    <2>4. QED  BY <2>2, <2>3, AuditStep
  <1>3. QED
    BY <1>1, <1>2, StepWellTyped, CompleteIsAuditComplete, PTL DEF Spec

----------------------------------------------------------------------------
(***************************************************************************)
(* How many threads are at some points of their handlers, before and after *)
(* one of them moves; how many events were persisted, before and after one *)
(* more.                                                                   *)
(***************************************************************************)
ThreadsAt(th, pcs) == {t \in Threads : th[t].pc \in pcs}
PersistedOf(v) == UNION {{r} \X (1..v[r]) : r \in Routes}
One(b) == IF b THEN 1 ELSE 0

\* When one thread moves, the number of those at given places changes by one at most.
LEMMA ThreadsAtMoves ==
    ASSUME NEW th \in [Threads -> ThreadStates], NEW t \in Threads, NEW s \in ThreadStates,
           NEW pcs, IsFiniteSet(ThreadsAt(th, pcs))
    PROVE  LET after == ThreadsAt([th EXCEPT ![t] = s], pcs)
           IN  /\ IsFiniteSet(after)
               /\ Cardinality(after) = Cardinality(ThreadsAt(th, pcs))
                                       - One(th[t].pc \in pcs) + One(s.pc \in pcs)
  <1> DEFINE old == ThreadsAt(th, pcs)
             rest == old \ {t}
             new == ThreadsAt([th EXCEPT ![t] = s], pcs)
  <1>1. /\ IsFiniteSet(old) /\ Cardinality(old) \in Nat
        /\ IsFiniteSet(rest) /\ Cardinality(rest) \in Nat
        /\ Cardinality(rest) = IF t \in old THEN Cardinality(old) - 1 ELSE Cardinality(old)
    BY FS_RemoveElement, FS_CardinalityType
  <1>2. t \in old <=> th[t].pc \in pcs
    BY DEF ThreadsAt
  <1>3. Cardinality(rest) = Cardinality(old) - One(th[t].pc \in pcs)
    BY <1>1, <1>2 DEF One
  <1>4. CASE s.pc \in pcs
    <2>1. new = rest \cup {t}
      BY <1>4 DEF ThreadsAt
    <2>2. t \notin rest
      OBVIOUS
    <2> HIDE DEF new, rest, old
    <2>3. IsFiniteSet(new) /\ Cardinality(new) = Cardinality(rest) + 1
      BY <1>1, <2>1, <2>2, FS_AddElement
    <2>4. One(s.pc \in pcs) = 1
      BY <1>4 DEF One
    <2>5. QED  BY <1>1, <1>3, <2>3, <2>4 DEF new, old
  <1>5. CASE s.pc \notin pcs
    <2>1. new = rest
      BY <1>5 DEF ThreadsAt
    <2>2. One(s.pc \in pcs) = 0
      BY <1>5 DEF One
    <2> HIDE DEF new, rest, old
    <2>3. Cardinality(new) = Cardinality(old) - One(th[t].pc \in pcs) + 0
      BY <1>1, <1>3, <2>1 DEF One
    <2>4. QED  BY <1>1, <2>1, <2>2, <2>3 DEF new, old
  <1>6. QED  BY <1>4, <1>5

\* A persisted event is one more.
LEMMA PersistedMore ==
    ASSUME NEW v \in [Routes -> Nat], NEW r \in Routes, IsFiniteSet(PersistedOf(v))
    PROVE  LET after == PersistedOf([v EXCEPT ![r] = @ + 1])
           IN  IsFiniteSet(after) /\ Cardinality(after) = Cardinality(PersistedOf(v)) + 1
  <1> DEFINE x == [v EXCEPT ![r] = @ + 1]
  <1>1. /\ x[r] = v[r] + 1 /\ v[r] \in Nat
        /\ \A q \in Routes \ {r} : x[q] = v[q]
    OBVIOUS
  <1>2. 1..x[r] = (1..v[r]) \cup {v[r] + 1} /\ v[r] + 1 \notin 1..v[r]
    BY <1>1
  <1> HIDE DEF x
  <1>3. \A p : p \in PersistedOf(v) <=> \E q \in Routes : p \in {q} \X (1..v[q])
    BY DEF PersistedOf
  <1>4. \A p : p \in PersistedOf(x) <=> \E q \in Routes : p \in {q} \X (1..x[q])
    BY DEF PersistedOf
  <1>5. \A p : p \in {r} \X (1..x[r]) <=> p \in {r} \X (1..v[r]) \/ p = <<r, v[r] + 1>>
    BY <1>2
  <1>6. PersistedOf(x) = PersistedOf(v) \cup {<<r, v[r] + 1>>}
    BY <1>1, <1>3, <1>4, <1>5
  <1>7. <<r, v[r] + 1>> \notin PersistedOf(v)
    BY <1>2, <1>3
  <1> DEFINE old == PersistedOf(v)
             new == <<r, v[r] + 1>>
  <1>8. IsFiniteSet(old \cup {new}) /\ Cardinality(old \cup {new}) = Cardinality(old) + 1
    <2> HIDE DEF old, new
    <2>1. IsFiniteSet(old) /\ new \notin old
      BY <1>7 DEF old, new
    <2>2. QED  BY <2>1, FS_AddElement
  <1>9. QED  BY <1>6, <1>8 DEF x

(***************************************************************************)
(* The steps of handlers as the counters see them: where the thread stood  *)
(* and where it goes, whether a write was attempted, whether an event was  *)
(* persisted, and what was counted.                                        *)
(***************************************************************************)
Goes(t, p, q) ==
    /\ thread[t].pc \in p
    /\ \E s \in ThreadStates : s.pc \in q /\ thread' = [thread EXCEPT ![t] = s]

Persists == \E r \in Routes : version' = [version EXCEPT ![r] = @ + 1]

CountsError == operations' = Count(operations, "error")
CountsLoss == CountsError /\ audited' = Count(audited, "error")
CountsSuccess ==
    operations' = Count(operations, "success") /\ audited' = Count(audited, "success")

Resting == Pcs \ {"write", "invalidate"}

Looks(t) == Goes(t, Resting, Resting) /\ UNCHANGED <<version, metrics, writes>>
Begins(t) ==
    /\ Goes(t, Resting, {"write"}) /\ writes' = writes + 1
    /\ UNCHANGED <<version, metrics>>
Refused(t) ==
    /\ Goes(t, Resting, Resting) /\ writes' = writes + 1
    /\ CountsError /\ UNCHANGED <<version, audited>>
Stores(t) == Goes(t, {"write"}, {"invalidate"}) /\ Persists /\ UNCHANGED <<metrics, writes>>
Fails(t) ==
    /\ Goes(t, {"write"}, Resting) /\ CountsLoss
    /\ Persists \/ UNCHANGED version
    /\ UNCHANGED writes
Deletes(t) ==
    /\ Goes(t, Resting, {"invalidate"}) /\ writes' = writes + 1
    /\ Persists /\ UNCHANGED metrics
FailsToDelete(t) ==
    /\ Goes(t, Resting, Resting) /\ writes' = writes + 1 /\ CountsLoss
    /\ Persists \/ UNCHANGED version
Answers(t) ==
    Goes(t, {"invalidate"}, Resting) /\ CountsSuccess /\ UNCHANGED <<version, writes>>

Counted(t) ==
    \/ Looks(t) \/ Begins(t) \/ Refused(t) \/ Stores(t) \/ Fails(t)
    \/ Deletes(t) \/ FailsToDelete(t) \/ Answers(t)

(***************************************************************************)
(* Where a thread stands after it moved.                                   *)
(***************************************************************************)
LEMMA GoesIdle ==
    ASSUME NEW t, NEW p, thread[t].pc \in p, Goto(t, Idle)
    PROVE  Goes(t, p, Resting)
  BY IdleTyped DEF Goes, Goto, Idle, Resting, Pcs

\* A create or an update that begins is then about to write.
LEMMA GoesWrite ==
    ASSUME NEW t, NEW op \in {"create", "update"}, NEW doc \in Policies, NEW r \in Routes,
           thread[t].pc = "idle",
           Goto(t, [Idle EXCEPT !.pc = "write", !.op = op, !.routes = {r}, !.doc = doc])
    PROVE  Goes(t, Resting, {"write"})
  <1> DEFINE n == [Idle EXCEPT !.pc = "write", !.op = op, !.routes = {r}, !.doc = doc]
  <1>1. n \in ThreadStates /\ n.pc = "write"
    BY IdleTyped DEF ThreadStates, Pcs, Ops, Operations, Documents
  <1>2. QED  BY <1>1 DEF Goes, Goto, Resting, Pcs

\* A resolution or a listing stays among the places that count nothing.
LEMMA GoesCheck ==
    ASSUME NEW t, NEW op \in Ops, NEW routes \in SUBSET Routes, thread[t].pc \in Resting,
           Goto(t, [Idle EXCEPT !.pc = "check", !.op = op, !.routes = routes])
    PROVE  Goes(t, Resting, Resting)
  <1> DEFINE n == [Idle EXCEPT !.pc = "check", !.op = op, !.routes = routes]
  <1>1. n \in ThreadStates /\ n.pc = "check"
    BY IdleTyped DEF ThreadStates, Pcs
  <1>2. QED  BY <1>1 DEF Goes, Goto, Resting, Pcs

\* So does a resolution that ends or goes on to the next route.
LEMMA GoesResolved ==
    ASSUME NEW t, NEW s \in ThreadStates, NEW r, thread[t].pc \in Resting, Resolved(t, s, r)
    PROVE  Goes(t, Resting, Resting)
  <1> DEFINE rest == s.routes \ {r}
  <1>1. rest \in SUBSET Routes /\ s.op \in Ops
    BY ThreadFields
  <1>2. CASE rest = {}
    BY <1>2, GoesIdle DEF Resolved
  <1>3. CASE rest # {}
    <2>1. Goto(t, [Idle EXCEPT !.pc = "check", !.op = s.op, !.routes = rest])
      BY <1>3 DEF Resolved
    <2>2. QED  BY <1>1, <2>1, GoesCheck
  <1>4. QED  BY <1>2, <1>3

\* A cache look-up counts nothing either.
LEMMA GoesLookup ==
    ASSUME NEW t, NEW s \in ThreadStates, NEW r, thread[t].pc \in Resting, Lookup(t, s, r)
    PROVE  Looks(t)
  <1>1. UNCHANGED <<version, metrics, writes>>
    BY DEF Lookup, ReadOnly, storeVars
  <1>2. CASE Resolved(t, s, r)
    BY <1>1, <1>2, GoesResolved DEF Looks
  <1>3. CASE Goto(t, [s EXCEPT !.pc = "read"])
    <2> DEFINE n == [s EXCEPT !.pc = "read"]
    <2>1. n \in ThreadStates /\ n.pc \in Resting
      BY DEF ThreadStates, Pcs, Resting
    <2>2. QED  BY <1>1, <1>3, <2>1 DEF Looks, Goes, Goto
  <1>4. QED  BY <1>2, <1>3 DEF Lookup

\* Nor does a listing that has found its routes.
LEMMA GoesShow ==
    ASSUME NEW t, NEW found \in SUBSET Routes, thread[t].pc \in Resting, Show(t, found)
    PROVE  Goes(t, Resting, Resting)
  <1>1. CASE found = {}
    BY <1>1, GoesIdle DEF Show
  <1>2. CASE found # {}
    <2>1. Goto(t, [Idle EXCEPT !.pc = "check", !.op = "list", !.routes = found])
      BY <1>2 DEF Show
    <2>2. "list" \in Ops
      BY DEF Ops
    <2>3. QED  BY <2>1, <2>2, GoesCheck
  <1>3. QED  BY <1>1, <1>2

(***************************************************************************)
(* Every step of a handler is one of these.                                *)
(***************************************************************************)
LEMMA WriteCounted ==
    ASSUME WellTyped, NEW t \in Threads, Write(t)
    PROVE  Counted(t)
  <1> DEFINE s == thread[t]
             r == TheRoute(t)
  <1>1. s \in ThreadStates /\ Shaped(s) /\ s.pc = "write"
    BY DEF WellTyped, TypeOK, ThreadsShaped, Write, At
  <1>2. s.routes # {} /\ r \in Routes /\ UNCHANGED writes
    BY <1>1, RouteOfThread DEF Shaped, WellTyped, Write
  <1>3. ASSUME Store(s.op, r, s.doc) PROVE Persists
    BY <1>2, <1>3 DEF Store, SetWithAudit, Persists
  <1>4. CASE /\ Store(s.op, r, s.doc)
             /\ Goto(t, [s EXCEPT !.pc = "invalidate", !.ver = version[r] + 1])
             /\ UNCHANGED metrics
    <2> DEFINE n == [s EXCEPT !.pc = "invalidate", !.ver = version[r] + 1]
    <2>1. version[r] + 1 \in Nat
      BY <1>2 DEF WellTyped, TypeOK, StoreTypeOK
    <2>2. n \in ThreadStates /\ n.pc = "invalidate"
      BY <1>1, <2>1 DEF ThreadStates, Pcs
    <2>3. Goes(t, {"write"}, {"invalidate"})
      BY <1>1, <1>4, <2>2 DEF Goes, Goto
    <2>4. QED  BY <1>2, <1>3, <1>4, <2>3 DEF Stores, Counted
  <1>5. CASE FailedWrite(t, Store(s.op, r, s.doc))
    <2>1. Persists \/ UNCHANGED version
      BY <1>3, <1>5 DEF FailedWrite, storeVars
    <2>2. Goes(t, {"write"}, Resting)
      BY <1>1, <1>5, GoesIdle DEF FailedWrite
    <2>3. CountsLoss
      BY <1>5 DEF FailedWrite, CountsLoss, CountsError
    <2>4. QED  BY <1>2, <2>1, <2>2, <2>3 DEF Fails, Counted
  <1>6. QED  BY <1>4, <1>5 DEF Write

\* A delete writes at once, and counts if it is refused or fails.
LEMMA DeleteCounted ==
    ASSUME WellTyped, NEW t \in Threads, NEW r \in Routes, Delete(t, r)
    PROVE  Counted(t)
  <1>1. thread[t].pc = "idle" /\ thread[t].pc \in Resting /\ writes' = writes + 1
    BY DEF Delete, Attempt, At, Resting, Pcs
  <1>2. ASSUME DeleteWithAudit(r) PROVE Persists
    BY <1>2 DEF DeleteWithAudit, Persists
  <1> DEFINE n == [Idle EXCEPT !.pc = "invalidate", !.op = "delete", !.routes = {r},
                               !.ver = version[r] + 1]
  <1>3. CASE DeleteWithAudit(r) /\ Goto(t, n) /\ UNCHANGED <<operations, audited, raced>>
    <2>1. version[r] + 1 \in Nat
      BY DEF WellTyped, TypeOK, StoreTypeOK
    <2>2. n \in ThreadStates /\ n.pc = "invalidate"
      BY <2>1, IdleTyped DEF ThreadStates, Pcs, Ops, Operations
    <2>3. Goes(t, Resting, {"invalidate"})
      BY <1>1, <1>3, <2>2 DEF Goes, Goto
    <2>4. QED  BY <1>1, <1>2, <1>3, <2>3 DEF Deletes, Counted, metrics
  <1>4. CASE Refuse(t) /\ UNCHANGED <<storeVars, raced>>
    <2>1. Goes(t, Resting, Resting)
      BY <1>1, <1>4, GoesIdle DEF Refuse
    <2>2. QED  BY <1>1, <1>4, <2>1 DEF Refused, Refuse, CountsError, storeVars, Counted
  <1>5. CASE FailedWrite(t, IF Deletable(r) THEN DeleteWithAudit(r) /\ UNCHANGED raced
                                            ELSE UNCHANGED <<storeVars, raced>>)
    <2>1. Persists \/ UNCHANGED version
      BY <1>2, <1>5 DEF FailedWrite, storeVars
    <2>2. Goes(t, Resting, Resting)
      BY <1>1, <1>5, GoesIdle DEF FailedWrite
    <2>3. CountsLoss
      BY <1>5 DEF FailedWrite, CountsLoss, CountsError
    <2>4. QED  BY <1>1, <2>1, <2>2, <2>3 DEF FailsToDelete, Counted
  <1>6. QED  BY <1>3, <1>4, <1>5 DEF Delete

\* A create or an update that begins counts only if it fails at its read.
LEMMA BeginCounted ==
    ASSUME WellTyped, NEW t \in Threads, NEW r \in Routes, NEW body,
           Create(t, r, body) \/ Update(t, r, body)
    PROVE  Counted(t)
  <1>1. /\ thread[t].pc = "idle" /\ thread[t].pc \in Resting
        /\ writes' = writes + 1 /\ UNCHANGED version
    BY DEF Create, Update, Attempt, At, Resting, Pcs, storeVars
  <1>2. CASE Refuse(t)
    <2>1. Goes(t, Resting, Resting)
      BY <1>1, <1>2, GoesIdle DEF Refuse
    <2>2. QED  BY <1>1, <1>2, <2>1 DEF Refused, Refuse, CountsError, Counted
  <1>3. ASSUME NEW op \in {"create", "update"}, NEW doc \in Policies, UNCHANGED metrics,
               Goto(t, [Idle EXCEPT !.pc = "write", !.op = op, !.routes = {r}, !.doc = doc])
        PROVE  Counted(t)
    BY <1>1, <1>3, GoesWrite DEF Begins, Counted
  <1>4. CASE Create(t, r, body)
    <2>1. NewPolicy(body) \in Policies
      BY <1>4, NewPolicyValid DEF Create
    <2>2. QED  BY <1>2, <1>3, <1>4, <2>1 DEF Create
  <1>5. CASE Update(t, r, body)
    <2>1. store[r] # NoPolicy => Merge(store[r], body) \in Policies
      BY <1>5, MergeValid DEF Update, WellTyped, TypeOK, StoreTypeOK, Documents
    <2>2. QED  BY <1>2, <1>3, <1>5, <2>1 DEF Update
  <1>6. QED  BY <1>4, <1>5

\* Resolutions and listings count nothing.
LEMMA LookCounted ==
    ASSUME WellTyped, NEW t \in Threads,
           \/ ListEntry(t) \/ ReadStore(t) \/ FillCache(t) \/ ListGets(t) \/ ListPrune(t)
           \/ List(t) \/ \E r \in Routes : Resolve(t, r)
    PROVE  Counted(t)
  <1> DEFINE s == thread[t]
  <1>1. s \in ThreadStates /\ s.routes \in SUBSET Routes /\ Shaped(s)
    BY ThreadFields DEF WellTyped, TypeOK, ThreadsShaped
  <1>2. s.pc \in Resting
    BY DEF ListEntry, ReadStore, FillCache, ListGets, ListPrune, List, Resolve, At, Resting, Pcs
  <1>3. SUFFICES Looks(t)
    BY DEF Counted
  <1>4. CASE ListEntry(t)
    BY <1>1, <1>2, <1>4, GoesLookup DEF ListEntry
  <1>5. CASE \E r \in Routes : Resolve(t, r)
    <2>1. PICK r \in Routes : Resolve(t, r)
      BY <1>5
    <2> DEFINE n == [Idle EXCEPT !.op = "resolve", !.routes = {r}]
    <2>2. n \in ThreadStates
      BY IdleTyped DEF ThreadStates, Ops
    <2>3. QED  BY <1>2, <2>1, <2>2, GoesLookup DEF Resolve
  <1>6. CASE ReadStore(t)
    <2> DEFINE r == TheRoute(t)
               n == [s EXCEPT !.pc = "fill", !.doc = store[r], !.ver = version[r],
                              !.stale = 0, !.waited = 0]
    <2>1. s.pc = "read" /\ UNCHANGED <<version, metrics, writes>>
      BY <1>6 DEF ReadStore, At, ReadOnly, storeVars
    <2>2. r \in Routes
      BY <1>1, <2>1, RouteOfThread DEF Shaped, WellTyped
    <2>3. store[r] \in Documents /\ version[r] \in Nat
      BY <2>2 DEF WellTyped, TypeOK, StoreTypeOK
    <2>4. n \in ThreadStates /\ n.pc \in Resting
      BY <1>1, <2>3 DEF ThreadStates, Pcs, Resting
    <2>5. Goto(t, n) \/ Goto(t, Idle)
      BY <1>6 DEF ReadStore
    <2>6. Goes(t, Resting, Resting)
      <3>1. CASE Goto(t, n)
        BY <1>2, <2>4, <3>1 DEF Goes, Goto
      <3>2. QED  BY <1>2, <2>5, <3>1, GoesIdle
    <2>7. QED  BY <2>1, <2>6 DEF Looks
  <1>7. CASE FillCache(t)
    BY <1>1, <1>2, <1>7, GoesResolved DEF FillCache, ReadOnly, storeVars, Looks
  <1>8. CASE ListGets(t)
    <2> DEFINE n == [s EXCEPT !.pc = "prune", !.routes = s.routes \cap Stored,
                              !.gone = s.routes \ Stored]
    <2>1. UNCHANGED <<version, metrics, writes>>
      BY <1>8 DEF ListGets, ReadOnly, storeVars
    <2>2. n \in ThreadStates /\ n.pc \in Resting
      BY <1>1 DEF ThreadStates, Pcs, Resting
    <2>3. Show(t, s.routes) \/ Goto(t, n) \/ Goto(t, Idle)
      BY <1>8 DEF ListGets
    <2>4. Goes(t, Resting, Resting)
      <3>1. CASE Goto(t, n)
        BY <1>2, <2>2, <3>1 DEF Goes, Goto
      <3>2. QED  BY <1>1, <1>2, <2>3, <3>1, GoesIdle, GoesShow
    <2>5. QED  BY <2>1, <2>4 DEF Looks
  <1>9. CASE ListPrune(t)
    <2>1. UNCHANGED <<version, metrics, writes>>
      BY <1>9 DEF ListPrune
    <2>2. Goes(t, Resting, Resting)
      BY <1>1, <1>2, <1>9, GoesIdle, GoesShow DEF ListPrune
    <2>3. QED  BY <2>1, <2>2 DEF Looks
  <1>10. CASE List(t)
    <2> DEFINE n == [Idle EXCEPT !.pc = "gets", !.op = "list", !.routes = index]
    <2>1. UNCHANGED <<version, metrics, writes>>
      BY <1>10 DEF List, ReadOnly, storeVars
    <2>2. n \in ThreadStates /\ n.pc \in Resting
      BY IdleTyped DEF ThreadStates, Pcs, Ops, Resting, WellTyped, TypeOK, StoreTypeOK
    <2>3. Show(t, Stored) \/ Goto(t, n) \/ Goto(t, Idle)
      BY <1>10 DEF List
    <2>4. Stored \in SUBSET Routes
      BY DEF Stored
    <2>5. Goes(t, Resting, Resting)
      <3>1. CASE Goto(t, n)
        BY <1>2, <2>2, <3>1 DEF Goes, Goto
      <3>2. QED  BY <1>2, <2>3, <2>4, <3>1, GoesIdle, GoesShow
    <2>6. QED  BY <2>1, <2>5 DEF Looks
  <1>11. QED
    BY <1>4, <1>5, <1>6, <1>7, <1>8, <1>9, <1>10

\* Every step of a thread is one of the counted kinds.
LEMMA HandlerCounted ==
    ASSUME WellTyped, NEW t \in Threads, Step(t) \/ Start(t)
    PROVE  Counted(t)
  <1>1. CASE Invalidate(t)
    <2>1. thread[t].pc = "invalidate" /\ UNCHANGED <<version, writes>>
      BY <1>1 DEF Invalidate, At, storeVars
    <2>2. Goes(t, {"invalidate"}, Resting)
      BY <1>1, <2>1, GoesIdle DEF Invalidate
    <2>3. CountsSuccess
      BY <1>1 DEF Invalidate, CountsSuccess
    <2>4. QED  BY <2>1, <2>2, <2>3 DEF Answers, Counted
  <1>2. QED
    BY <1>1, WriteCounted, DeleteCounted, BeginCounted, LookCounted DEF Step, Start

(***************************************************************************)
(* The balance of the counters: u handlers have persisted an event and not *)
(* answered yet, f handlers have not ended, p events were persisted and w  *)
(* writes attempted.  The sets behind these numbers stay finite.           *)
(***************************************************************************)
Balanced(u, f, p, ops, aud, w) ==
    /\ aud.success + u <= p
    /\ p <= aud.success + aud.error + u
    /\ ops.success = aud.success
    /\ ops.success + ops.error + f = w

Answering(th) == ThreadsAt(th, {"invalidate"})
Unended(th) == ThreadsAt(th, {"write", "invalidate"})

CountInv ==
    /\ WellTyped
    /\ IsFiniteSet(Answering(thread)) /\ IsFiniteSet(Unended(thread))
    /\ IsFiniteSet(PersistedOf(version))
    /\ Balanced(Cardinality(Answering(thread)), Cardinality(Unended(thread)),
                Cardinality(PersistedOf(version)), operations, audited, writes)

\* CountersMatchTrail is the balance of the state.
LEMMA BalancedIsCounted ==
    CountersMatchTrail
        <=> Balanced(Cardinality(Answering(thread)), Cardinality(Unended(thread)),
                     Cardinality(PersistedOf(version)), operations, audited, writes)
  <1>1. {t \in Threads : At(t, "invalidate")} = Answering(thread)
    BY DEF At, Answering, ThreadsAt
  <1>2. {t \in Threads : At(t, "write") \/ At(t, "invalidate")} = Unended(thread)
    BY DEF At, Unended, ThreadsAt
  <1>3. Persisted = PersistedOf(version)
    BY DEF Persisted, PersistedOf
  <1>4. QED
    BY <1>1, <1>2, <1>3 DEF CountersMatchTrail, Balanced, Unanswered, Unfinished

(***************************************************************************)
(* A moving thread enters or leaves the two sets.                          *)
(***************************************************************************)
LEMMA GoesCounts ==
    ASSUME CountInv, NEW t \in Threads, NEW p, NEW q, Goes(t, p, q),
           p \in {{"write"}, {"invalidate"}, Resting},
           q \in {{"write"}, {"invalidate"}, Resting}
    PROVE  /\ IsFiniteSet(Answering(thread')) /\ IsFiniteSet(Unended(thread'))
           /\ Cardinality(Answering(thread'))
                  = Cardinality(Answering(thread))
                    - One(p = {"invalidate"}) + One(q = {"invalidate"})
           /\ Cardinality(Unended(thread'))
                  = Cardinality(Unended(thread)) - One(p # Resting) + One(q # Resting)
  <1>1. PICK s \in ThreadStates : s.pc \in q /\ thread' = [thread EXCEPT ![t] = s]
    BY DEF Goes
  <1>2. thread \in [Threads -> ThreadStates] /\ thread[t].pc \in p
    BY DEF CountInv, WellTyped, TypeOK, Goes
  <1>3. Resting # {"write"} /\ Resting # {"invalidate"} /\ {"write"} # {"invalidate"}
    BY DEF Resting, Pcs
  <1>4. /\ (thread[t].pc \in {"invalidate"}) = (p = {"invalidate"})
        /\ (s.pc \in {"invalidate"}) = (q = {"invalidate"})
        /\ (thread[t].pc \in {"write", "invalidate"}) = (p # Resting)
        /\ (s.pc \in {"write", "invalidate"}) = (q # Resting)
    <2>1. thread[t].pc \in Resting => thread[t].pc # "write" /\ thread[t].pc # "invalidate"
      BY DEF Resting
    <2>2. s.pc \in Resting => s.pc # "write" /\ s.pc # "invalidate"
      BY DEF Resting
    <2>3. "write" # "invalidate"
      OBVIOUS
    <2>4. CASE p = {"write"}
      <3>1. CASE q = {"write"}
        BY <1>1, <1>2, <1>3, <2>3, <2>4, <3>1
      <3>2. CASE q = {"invalidate"}
        BY <1>1, <1>2, <1>3, <2>3, <2>4, <3>2
      <3>3. CASE q = Resting
        BY <1>1, <1>2, <1>3, <2>2, <2>3, <2>4, <3>3
      <3>4. QED  BY <3>1, <3>2, <3>3
    <2>5. CASE p = {"invalidate"}
      <3>1. CASE q = {"write"}
        BY <1>1, <1>2, <1>3, <2>3, <2>5, <3>1
      <3>2. CASE q = {"invalidate"}
        BY <1>1, <1>2, <1>3, <2>3, <2>5, <3>2
      <3>3. CASE q = Resting
        BY <1>1, <1>2, <1>3, <2>2, <2>3, <2>5, <3>3
      <3>4. QED  BY <3>1, <3>2, <3>3
    <2>6. CASE p = Resting
      <3>1. CASE q = {"write"}
        BY <1>1, <1>2, <1>3, <2>1, <2>3, <2>6, <3>1
      <3>2. CASE q = {"invalidate"}
        BY <1>1, <1>2, <1>3, <2>1, <2>3, <2>6, <3>2
      <3>3. CASE q = Resting
        BY <1>1, <1>2, <1>3, <2>1, <2>2, <2>6, <3>3
      <3>4. QED  BY <3>1, <3>2, <3>3
    <2>7. QED  BY <2>4, <2>5, <2>6
  <1>5. IsFiniteSet(Answering(thread)) /\ IsFiniteSet(Unended(thread))
    BY DEF CountInv
  <1>6. /\ IsFiniteSet(Answering(thread'))
        /\ Cardinality(Answering(thread'))
              = Cardinality(Answering(thread))
                - One(thread[t].pc \in {"invalidate"}) + One(s.pc \in {"invalidate"})
    BY <1>1, <1>2, <1>5, ThreadsAtMoves DEF Answering
  <1>7. /\ IsFiniteSet(Unended(thread'))
        /\ Cardinality(Unended(thread'))
              = Cardinality(Unended(thread))
                - One(thread[t].pc \in {"write", "invalidate"})
                + One(s.pc \in {"write", "invalidate"})
    BY <1>1, <1>2, <1>5, ThreadsAtMoves DEF Unended
  <1>8. QED  BY <1>4, <1>6, <1>7 DEF One

\* A step that persists an event persists one.
LEMMA PersistsCounts ==
    ASSUME CountInv, Persists
    PROVE  /\ IsFiniteSet(PersistedOf(version'))
           /\ Cardinality(PersistedOf(version')) = Cardinality(PersistedOf(version)) + 1
  <1>1. PICK r \in Routes : version' = [version EXCEPT ![r] = @ + 1]
    BY DEF Persists
  <1>2. version \in [Routes -> Nat] /\ IsFiniteSet(PersistedOf(version))
    BY DEF CountInv, WellTyped, TypeOK, StoreTypeOK
  <1>3. QED  BY <1>1, <1>2, PersistedMore

\* Counting adds one to one outcome.
LEMMA CountFields ==
    ASSUME NEW c \in Outcomes
    PROVE  /\ c.success \in Nat /\ c.error \in Nat
           /\ Count(c, "success").success = c.success + 1 /\ Count(c, "success").error = c.error
           /\ Count(c, "error").success = c.success /\ Count(c, "error").error = c.error + 1
  BY DEF Count, Outcomes

Finite(th) == IsFiniteSet(Answering(th)) /\ IsFiniteSet(Unended(th))

(***************************************************************************)
(* Every step of a handler keeps the balance.                              *)
(***************************************************************************)
LEMMA CountHandler ==
    ASSUME CountInv, NEW t \in Threads, Step(t) \/ Start(t)
    PROVE  /\ IsFiniteSet(Answering(thread')) /\ IsFiniteSet(Unended(thread'))
           /\ IsFiniteSet(PersistedOf(version'))
           /\ Balanced(Cardinality(Answering(thread')), Cardinality(Unended(thread')),
                       Cardinality(PersistedOf(version')), operations', audited', writes')
  <1> DEFINE u == Cardinality(Answering(thread))
             f == Cardinality(Unended(thread))
             p == Cardinality(PersistedOf(version))
             os == operations.success
             oe == operations.error
             ds == audited.success
             de == audited.error
             u2 == Cardinality(Answering(thread'))
             f2 == Cardinality(Unended(thread'))
             p2 == Cardinality(PersistedOf(version'))
             os2 == operations'.success
             oe2 == operations'.error
             ds2 == audited'.success
             de2 == audited'.error
             Fin == Finite(thread') /\ IsFiniteSet(PersistedOf(version'))
             Sums == /\ ds2 + u2 <= p2 /\ p2 <= ds2 + de2 + u2
                     /\ os2 = ds2 /\ os2 + oe2 + f2 = writes'
  <1>1. /\ u \in Nat /\ f \in Nat /\ p \in Nat
        /\ operations \in Outcomes /\ audited \in Outcomes /\ writes \in Nat
        /\ IsFiniteSet(PersistedOf(version))
    BY FS_CardinalityType DEF CountInv, WellTyped, TypeOK
  <1>2. /\ ds + u <= p /\ p <= ds + de + u /\ os = ds /\ os + oe + f = writes
        /\ os \in Nat /\ oe \in Nat /\ ds \in Nat /\ de \in Nat
    BY <1>1, CountFields DEF CountInv, Balanced
  <1>3. Counted(t)
    BY HandlerCounted DEF CountInv
  <1>4. Resting # {"write"} /\ Resting # {"invalidate"} /\ {"write"} # {"invalidate"}
    BY DEF Resting, Pcs
  <1>5. UNCHANGED version => IsFiniteSet(PersistedOf(version')) /\ p2 = p
    BY <1>1
  <1>6. Persists => IsFiniteSet(PersistedOf(version')) /\ p2 = p + 1
    BY PersistsCounts
  <1>7. /\ UNCHANGED operations => os2 = os /\ oe2 = oe
        /\ UNCHANGED audited => ds2 = ds /\ de2 = de
        /\ UNCHANGED metrics => os2 = os /\ oe2 = oe /\ ds2 = ds /\ de2 = de
    BY DEF metrics
  <1>8. CountsError => os2 = os /\ oe2 = oe + 1
    BY <1>1, CountFields DEF CountsError
  <1>9. CountsLoss => ds2 = ds /\ de2 = de + 1
    BY <1>1, CountFields DEF CountsLoss
  <1>10. CountsSuccess => os2 = os + 1 /\ oe2 = oe /\ ds2 = ds + 1 /\ de2 = de
    BY <1>1, CountFields DEF CountsSuccess
  \* the counts of the threads, per kind of move
  <1>11. Goes(t, Resting, Resting) => Finite(thread') /\ u2 = u /\ f2 = f
    BY <1>1, <1>4, GoesCounts DEF One, Finite
  <1>12. Goes(t, Resting, {"write"}) => Finite(thread') /\ u2 = u /\ f2 = f + 1
    BY <1>1, <1>4, GoesCounts DEF One, Finite
  <1>13. Goes(t, {"write"}, {"invalidate"}) => Finite(thread') /\ u2 = u + 1 /\ f2 = f
    BY <1>1, <1>4, GoesCounts DEF One, Finite
  <1>14. Goes(t, {"write"}, Resting) => Finite(thread') /\ u2 = u /\ f2 = f - 1
    BY <1>1, <1>4, GoesCounts DEF One, Finite
  <1>15. Goes(t, Resting, {"invalidate"}) => Finite(thread') /\ u2 = u + 1 /\ f2 = f + 1
    BY <1>1, <1>4, GoesCounts DEF One, Finite
  <1>16. Goes(t, {"invalidate"}, Resting) => Finite(thread') /\ u2 = u - 1 /\ f2 = f - 1
    BY <1>1, <1>4, GoesCounts DEF One, Finite
  <1> SUFFICES Fin /\ Sums
    BY DEF Finite, Balanced
  <1> HIDE DEF u, f, p, os, oe, ds, de, u2, f2, p2, os2, oe2, ds2, de2, Fin
  <1>17. CASE Looks(t)
    <2>1. /\ u2 = u /\ f2 = f /\ p2 = p
          /\ os2 = os /\ oe2 = oe /\ ds2 = ds /\ de2 = de
          /\ writes' = writes
      BY <1>17, <1>5, <1>7, <1>11 DEF Looks
    <2>2. Fin
      BY <1>17, <1>5, <1>7, <1>11 DEF Looks, Fin
    <2>3. os2 = ds2 /\ os2 + oe2 + f2 = writes'
      BY <1>1, <1>2, <2>1
    <2>4. ds2 + u2 <= p2 /\ p2 <= ds2 + de2 + u2
      BY <1>1, <1>2, <2>1
    <2>5. QED  BY <2>2, <2>3, <2>4
  <1>18. CASE Begins(t)
    <2>1. /\ u2 = u /\ f2 = f + 1 /\ p2 = p
          /\ os2 = os /\ oe2 = oe /\ ds2 = ds /\ de2 = de
          /\ writes' = writes + 1
      BY <1>18, <1>5, <1>7, <1>12 DEF Begins
    <2>2. Fin
      BY <1>18, <1>5, <1>7, <1>12 DEF Begins, Fin
    <2>3. os2 = ds2 /\ os2 + oe2 + f2 = writes'
      BY <1>1, <1>2, <2>1
    <2>4. ds2 + u2 <= p2 /\ p2 <= ds2 + de2 + u2
      BY <1>1, <1>2, <2>1
    <2>5. QED  BY <2>2, <2>3, <2>4
  <1>19. CASE Refused(t)
    <2>1. /\ u2 = u /\ f2 = f /\ p2 = p
          /\ os2 = os /\ oe2 = oe + 1 /\ ds2 = ds /\ de2 = de
          /\ writes' = writes + 1
      BY <1>19, <1>5, <1>8, <1>7, <1>11 DEF Refused
    <2>2. Fin
      BY <1>19, <1>5, <1>8, <1>7, <1>11 DEF Refused, Fin
    <2>3. os2 = ds2 /\ os2 + oe2 + f2 = writes'
      BY <1>1, <1>2, <2>1
    <2>4. ds2 + u2 <= p2 /\ p2 <= ds2 + de2 + u2
      BY <1>1, <1>2, <2>1
    <2>5. QED  BY <2>2, <2>3, <2>4
  <1>20. CASE Stores(t)
    <2>1. /\ u2 = u + 1 /\ f2 = f /\ p2 = p + 1
          /\ os2 = os /\ oe2 = oe /\ ds2 = ds /\ de2 = de
          /\ writes' = writes
      BY <1>20, <1>6, <1>7, <1>13 DEF Stores
    <2>2. Fin
      BY <1>20, <1>6, <1>7, <1>13 DEF Stores, Fin
    <2>3. os2 = ds2 /\ os2 + oe2 + f2 = writes'
      BY <1>1, <1>2, <2>1
    <2>4. ds2 + u2 <= p2 /\ p2 <= ds2 + de2 + u2
      BY <1>1, <1>2, <2>1
    <2>5. QED  BY <2>2, <2>3, <2>4
  <1>21. CASE Fails(t)
    <2>1. /\ u2 = u /\ f2 = f - 1 /\ p2 \in {p, p + 1}
          /\ os2 = os /\ oe2 = oe + 1 /\ ds2 = ds /\ de2 = de + 1
          /\ writes' = writes
      BY <1>21, <1>5, <1>6, <1>8, <1>9, <1>14 DEF Fails, CountsLoss
    <2>2. Fin
      BY <1>21, <1>5, <1>6, <1>8, <1>9, <1>14 DEF Fails, CountsLoss, Fin
    <2>3. os2 = ds2 /\ os2 + oe2 + f2 = writes'
      BY <1>1, <1>2, <2>1
    <2>4. ds2 + u2 <= p2 /\ p2 <= ds2 + de2 + u2
      BY <1>1, <1>2, <2>1
    <2>5. QED  BY <2>2, <2>3, <2>4
  <1>22. CASE Deletes(t)
    <2>1. /\ u2 = u + 1 /\ f2 = f + 1 /\ p2 = p + 1
          /\ os2 = os /\ oe2 = oe /\ ds2 = ds /\ de2 = de
          /\ writes' = writes + 1
      BY <1>22, <1>6, <1>7, <1>15 DEF Deletes
    <2>2. Fin
      BY <1>22, <1>6, <1>7, <1>15 DEF Deletes, Fin
    <2>3. os2 = ds2 /\ os2 + oe2 + f2 = writes'
      BY <1>1, <1>2, <2>1
    <2>4. ds2 + u2 <= p2 /\ p2 <= ds2 + de2 + u2
      BY <1>1, <1>2, <2>1
    <2>5. QED  BY <2>2, <2>3, <2>4
  <1>23. CASE FailsToDelete(t)
    <2>1. /\ u2 = u /\ f2 = f /\ p2 \in {p, p + 1}
          /\ os2 = os /\ oe2 = oe + 1 /\ ds2 = ds /\ de2 = de + 1
          /\ writes' = writes + 1
      BY <1>23, <1>5, <1>6, <1>8, <1>9, <1>11 DEF FailsToDelete, CountsLoss
    <2>2. Fin
      BY <1>23, <1>5, <1>6, <1>8, <1>9, <1>11 DEF FailsToDelete, CountsLoss, Fin
    <2>3. os2 = ds2 /\ os2 + oe2 + f2 = writes'
      BY <1>1, <1>2, <2>1
    <2>4. ds2 + u2 <= p2 /\ p2 <= ds2 + de2 + u2
      BY <1>1, <1>2, <2>1
    <2>5. QED  BY <2>2, <2>3, <2>4
  <1>24. CASE Answers(t)
    <2>1. /\ u2 = u - 1 /\ f2 = f - 1 /\ p2 = p
          /\ os2 = os + 1 /\ oe2 = oe /\ ds2 = ds + 1 /\ de2 = de
          /\ writes' = writes
      BY <1>24, <1>5, <1>10, <1>16 DEF Answers
    <2>2. Fin
      BY <1>24, <1>5, <1>10, <1>16 DEF Answers, Fin
    <2>3. os2 = ds2 /\ os2 + oe2 + f2 = writes'
      BY <1>1, <1>2, <2>1
    <2>4. ds2 + u2 <= p2 /\ p2 <= ds2 + de2 + u2
      BY <1>1, <1>2, <2>1
    <2>5. QED  BY <2>2, <2>3, <2>4
  <1>25. QED
    BY <1>3, <1>17, <1>18, <1>19, <1>20, <1>21, <1>22, <1>23, <1>24 DEF Counted

\* Every step keeps the balance.
LEMMA CountStep == CountInv /\ [Next]_vars => CountInv'
  <1> SUFFICES ASSUME CountInv, [Next]_vars PROVE CountInv'
    OBVIOUS
  <1>1. WellTyped'
    BY StepWellTyped DEF CountInv
  <1>2. CASE \E t \in Threads : Step(t) \/ Start(t)
    <2>1. /\ IsFiniteSet(Answering(thread')) /\ IsFiniteSet(Unended(thread'))
          /\ IsFiniteSet(PersistedOf(version'))
          /\ Balanced(Cardinality(Answering(thread')), Cardinality(Unended(thread')),
                      Cardinality(PersistedOf(version')), operations', audited', writes')
      BY <1>2, CountHandler
    <2>2. QED
      BY <1>1, <2>1 DEF CountInv, Balanced, Answering, Unended, ThreadsAt, PersistedOf
  <1>3. ASSUME UNCHANGED <<version, operations, audited, writes>>,
               Answering(thread') = Answering(thread), Unended(thread') = Unended(thread)
        PROVE  CountInv'
    <2>1. PersistedOf(version') = PersistedOf(version)
      BY <1>3
    <2>2. /\ IsFiniteSet(Answering(thread')) /\ IsFiniteSet(Unended(thread'))
          /\ IsFiniteSet(PersistedOf(version'))
          /\ Balanced(Cardinality(Answering(thread')), Cardinality(Unended(thread')),
                      Cardinality(PersistedOf(version')), operations', audited', writes')
      BY <1>3, <2>1 DEF CountInv
    <2>3. QED
      BY <1>1, <2>2 DEF CountInv, Balanced, Answering, Unended, ThreadsAt, PersistedOf
  <1>4. CASE Tick
    <2>1. \A t \in Threads : thread'[t].pc = thread[t].pc
      BY <1>4, TickThread DEF CountInv
    <2>2. Answering(thread') = Answering(thread) /\ Unended(thread') = Unended(thread)
      BY <2>1 DEF Answering, Unended, ThreadsAt
    <2>3. QED  BY <1>3, <1>4, <2>2 DEF Tick, ReadOnly, storeVars, metrics
  <1>5. CASE \E w \in Workers, r \in Routes : PushedOut(w, r)
    BY <1>3, <1>5 DEF PushedOut, ReadOnly, storeVars, metrics
  <1>6. CASE UNCHANGED vars
    BY <1>3, <1>6 DEF vars
  <1>7. QED  BY <1>2, <1>4, <1>5, <1>6 DEF Next

(***************************************************************************)
(* The counters account for the trail: each admin write is counted once    *)
(* when it ends, an event is counted as a success only if it was persisted *)
(* and as an error at most if its answer was lost.  (metrics.py: "one      *)
(* counter increment per audit event persisted (success) or failed to      *)
(* persist (error)".)                                                      *)
(***************************************************************************)
THEOREM CountersAccount == Spec => []CountersMatchTrail
  <1>1. Init => CountInv
    <2> SUFFICES ASSUME Init PROVE CountInv
      OBVIOUS
    <2>1. Answering(thread) = {} /\ Unended(thread) = {}
      BY DEF Init, Idle, Answering, Unended, ThreadsAt
    <2>2. \A r \in Routes : 1..version[r] = {}
      BY DEF Init, StoreInit
    <2>3. PersistedOf(version) = {}
      BY <2>2 DEF PersistedOf
    <2>4. Balanced(0, 0, 0, operations, audited, writes)
      BY DEF Init, Balanced
    <2>5. QED  BY <2>1, <2>3, <2>4, InitWellTyped, FS_EmptySet DEF CountInv
  <1>2. CountInv => CountersMatchTrail
    BY BalancedIsCounted DEF CountInv
  <1>3. QED  BY <1>1, <1>2, CountStep, PTL DEF Spec

(***************************************************************************)
(* Listings of the trail.                                                  *)
(***************************************************************************)

\* A scan is never shorter than what the caller asked for.
LEMMA ScanIsLongEnough ==
    ASSUME NEW limit \in 1..ScanCap
    PROVE  ScanWindow(limit) \in Nat /\ limit <= ScanWindow(limit)
<1> DEFINE asked == limit * ScanFactor
           least == Max({asked, ScanFloor})
<1>1. limit \in Nat /\ ScanFactor \in Nat /\ ScanFactor >= 1 /\ ScanFloor \in Nat /\ ScanCap \in Nat
      /\ limit <= ScanCap
  BY StoreAssumption
<1>2. asked \in Nat /\ asked >= limit
  <2>1. \A m \in Nat, n \in Nat : m * (n + 1) = m * n + m /\ m * n \in Nat
    OBVIOUS
  <2>2. ScanFactor - 1 \in Nat /\ ScanFactor = (ScanFactor - 1) + 1
    BY <1>1
  <2>3. asked = limit * (ScanFactor - 1) + limit /\ limit * (ScanFactor - 1) \in Nat
    BY <1>1, <2>1, <2>2
  <2> QED BY <1>1, <2>3
<1> HIDE DEF asked
<1>3. least \in {asked, ScanFloor} /\ least >= asked
  <2>1. \E m \in {asked, ScanFloor} : \A n \in {asked, ScanFloor} : m >= n
    BY <1>1, <1>2
  <2> QED BY <2>1 DEF Max
<1> HIDE DEF least
<1>4. ScanWindow(limit) \in {least, ScanCap}
  <2>1. \E m \in {least, ScanCap} : \A n \in {least, ScanCap} : m =< n
    BY <1>1, <1>2, <1>3
  <2> QED BY <2>1 DEF ScanWindow, Min, least, asked
<1> QED BY <1>1, <1>2, <1>3, <1>4

Hits(e, f) == {i \in e : Matches(audit[i], f)}
Newer(s, i) == {j \in s : j > i}
Latest(n) == {i \in Trail : Len(audit) - i < n}

\* A listing that examines the newest events only shows the same as one that
\* examines all of them, as far as it goes.
LEMMA ScanShowsAPrefix ==
    ASSUME audit \in Seq(Events), NEW limit \in Nat, NEW f, NEW n \in Nat
    PROVE  /\ IsFiniteSet(Hits(Trail, f))
           /\ Hits(Latest(n), f) \subseteq Hits(Trail, f)
           /\ \A i \in Hits(Latest(n), f), j \in Hits(Trail, f) : j > i => j \in Hits(Latest(n), f)
           /\ Shown(limit, f, Trail) =
                 {i \in Hits(Trail, f) : Cardinality(Newer(Hits(Trail, f), i)) < limit}
           /\ Shown(limit, f, Latest(n)) = Shown(limit, f, Trail) \cap Hits(Latest(n), f)
<1> DEFINE found == Hits(Latest(n), f)
           matching == Hits(Trail, f)
<1>1. Len(audit) \in Nat /\ IsFiniteSet(Trail) /\ \A i \in Trail : i \in Int
  BY FS_Interval DEF Trail
<1>2. IsFiniteSet(matching)
  BY <1>1, FS_Subset DEF Hits
<1>3. \A i \in found, j \in matching : j > i => j \in found
  BY <1>1 DEF Hits, Latest
<1>4. found \subseteq matching
  BY DEF Hits, Latest
<1>5. Shown(limit, f, Latest(n)) = {i \in found : Cardinality(Newer(found, i)) < limit}
  BY DEF Shown, Hits, Newer
<1>6. Shown(limit, f, Trail) = {i \in matching : Cardinality(Newer(matching, i)) < limit}
  BY DEF Shown, Hits, Newer
<1> HIDE DEF found, matching
<1>7. \A i \in found : Newer(found, i) = Newer(matching, i)
  BY <1>3, <1>4 DEF Newer
<1>8. Shown(limit, f, Latest(n)) = Shown(limit, f, Trail) \cap found
  BY <1>4, <1>5, <1>6, <1>7
<1> QED BY <1>2, <1>3, <1>4, <1>6, <1>8 DEF found, matching

(***************************************************************************)
(* What the audit endpoint shows can be relied upon: a bounded scan leaves *)
(* out nothing newer than what it shows, without a filter it shows what    *)
(* the memory store would, and the first event shown for a route wrote     *)
(* what is stored now.  (RedisAuditStore.list, MemoryAuditStore.list.)     *)
(***************************************************************************)
THEOREM HistoryIsReadable == Spec => []HistoryReadable
<1>1. StoreTypeOK /\ AuditChain => HistoryReadable
  <2> SUFFICES ASSUME StoreTypeOK, AuditChain, NEW limit \in 1..ScanCap, NEW f \in Filters
               PROVE  LET shown == RedisListing(limit, f)
                          full == MemoryListing(limit, f)
                      IN  /\ shown \subseteq full
                          /\ \A i \in shown, j \in full : j > i => j \in shown
                          /\ f.route = All /\ f.operation = All => shown = full
                          /\ f.route # All /\ f.operation = All =>
                                \A i \in shown :
                                    (\A j \in shown : j <= i) => store[f.route] = audit[i].new
    BY DEF HistoryReadable
  <2> DEFINE window == ScanWindow(limit)
             found == Hits(Latest(window), f)
             matching == Hits(Trail, f)
             shown == Shown(limit, f, Latest(window))
             full == Shown(limit, f, Trail)
  <2>1. /\ audit \in Seq(Events) /\ Len(audit) \in Nat /\ limit \in Nat
        /\ window \in Nat /\ limit <= window
    BY StoreAssumption, ScanIsLongEnough DEF StoreTypeOK
  <2> HIDE DEF window
  <2>2. /\ IsFiniteSet(matching) /\ found \subseteq matching
        /\ \A i \in found, j \in matching : j > i => j \in found
        /\ full = {i \in matching : Cardinality(Newer(matching, i)) < limit}
        /\ shown = full \cap found
    BY <2>1, ScanShowsAPrefix
  <2>3. \A i \in matching : i \in Trail /\ i \in Int /\ Matches(audit[i], f)
    BY <2>1 DEF Trail, Hits
  <2>4. ASSUME f.route = All, f.operation = All PROVE shown = full
    <3>1. matching = Trail /\ found = Latest(window)
      BY <2>4 DEF Matches, Hits, Latest
    <3>2. ASSUME NEW i \in full PROVE i \in found
      <4>1. i \in Trail /\ Cardinality(Newer(Trail, i)) < limit
        BY <2>2, <3>1, <3>2
      <4>2. i \in Int /\ i <= Len(audit) /\ Newer(Trail, i) = (i + 1)..Len(audit)
        BY <2>1, <4>1 DEF Trail, Newer
      <4>3. Cardinality((i + 1)..Len(audit)) = Len(audit) - i
        <5>1. i + 1 \in Int /\ Len(audit) \in Int
          BY <2>1, <4>2
        <5>2. Cardinality((i + 1)..Len(audit)) =
                IF i + 1 > Len(audit) THEN 0 ELSE Len(audit) - (i + 1) + 1
          BY <5>1, FS_Interval
        <5> QED BY <2>1, <4>2, <5>2
      <4>4. Len(audit) - i < window
        BY <2>1, <4>1, <4>2, <4>3
      <4> QED BY <3>1, <4>1, <4>4 DEF Latest
    <3> HIDE DEF found, matching, full, shown
    <3> QED BY <2>2, <3>2
  <2>5. ASSUME f.route # All, f.operation = All, NEW i \in shown, \A j \in shown : j <= i
        PROVE  store[f.route] = audit[i].new
    <3>1. f.route \in Routes /\ \A j \in Trail : Concerns(j, f.route) <=> j \in matching
      BY <2>5 DEF Filters, Matches, Concerns, Hits
    <3> HIDE DEF found, matching, full, shown
    <3>2. i \in found /\ i \in matching /\ i \in full /\ i \in Trail /\ i \in Int
      BY <2>2, <2>3, <2>5
    <3>3. ASSUME NEW j \in matching, j > i PROVE FALSE
      <4>1. Newer(matching, j) \subseteq Newer(matching, i)
        <5>1. \A k \in matching : k > j => k > i
          BY <2>3, <3>2, <3>3
        <5> QED BY <5>1 DEF Newer
      <4>2. IsFiniteSet(Newer(matching, i))
        BY <2>2, FS_Subset DEF Newer
      <4>3. /\ Cardinality(Newer(matching, j)) <= Cardinality(Newer(matching, i))
            /\ IsFiniteSet(Newer(matching, j))
        BY <4>1, <4>2, FS_Subset
      <4>4. /\ Cardinality(Newer(matching, i)) \in Nat /\ Cardinality(Newer(matching, j)) \in Nat
            /\ Cardinality(Newer(matching, i)) < limit
        BY <2>2, <3>2, <4>2, <4>3, FS_CardinalityType
      <4>5. Cardinality(Newer(matching, j)) < limit
        BY <2>1, <4>3, <4>4
      <4>6. j \in shown
        BY <2>2, <3>2, <3>3, <4>5
      <4> QED BY <2>3, <2>5, <3>2, <3>3, <4>6
    <3>4. Concerns(i, f.route) /\ \A k \in (i + 1)..Len(audit) : ~Concerns(k, f.route)
      <4>1. \A k \in (i + 1)..Len(audit) : k \in Trail /\ k > i
        BY <2>1, <3>2 DEF Trail
      <4> QED BY <3>1, <3>2, <3>3, <4>1
    <3>5. i \in 1..Len(audit)
      BY <3>2 DEF Trail
    <3> QED BY <3>1, <3>4, <3>5 DEF AuditChain
  <2> HIDE DEF found, matching, full, shown
  <2>6. shown \subseteq full /\ \A i \in shown, j \in full : j > i => j \in shown
    BY <2>2
  <2> QED BY <2>4, <2>5, <2>6 DEF RedisListing, MemoryListing, shown, full, window, Latest
<1>2. TypeOK => StoreTypeOK
  BY DEF TypeOK
<1> QED BY <1>1, <1>2, TypeCorrect, AuditReplays, PTL
=============================================================================
