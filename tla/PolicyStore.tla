---------------------------- MODULE PolicyStore ----------------------------
(***************************************************************************)
(* app/policies/store.py and app/policies/audit.py: one policy document    *)
(* per route, an index set of routes for listing, and a bounded audit      *)
(* trail.  A write is one Lua script on Redis and one locked section in    *)
(* memory; both read the document they replace inside that section.        *)
(***************************************************************************)
EXTENDS PolicyModel, SequencesExt

CONSTANTS
    Routes,     \* routes that can carry a dynamic policy: those validate_route accepts
    MaxEvents,  \* RATE_LIMIT_AUDIT_MAX_EVENTS
    ScanFactor, ScanFloor, ScanCap  \* 5, 100 and 500: what a listing of the trail examines

ASSUME StoreAssumption ==
    /\ NoPolicy \notin Policies
    /\ MaxEvents \in Nat \ {0}
    /\ ScanFactor \in Nat \ {0} /\ ScanFloor \in Nat \ {0} /\ ScanCap \in Nat
    /\ ScanFloor <= ScanCap
    /\ DOMAIN Static \subseteq Routes
    /\ \A c \in {Global} \cup {Static[r] : r \in DOMAIN Static} :
          c.limit \in 1..MaxLimit /\ c.window \in 1..MaxWindow

VARIABLES
    store,      \* route -> document or NoPolicy
    index,      \* rateguard:policies
    audit,      \* the audit stream, oldest first
    version     \* history: how often the document of a route was written

storeVars == <<store, index, audit, version>>

Operations == {"create", "update", "delete"}
Events == [operation : Operations, route : Routes, previous : Documents, new : Documents]

StoreTypeOK ==
    /\ store \in [Routes -> Documents]
    /\ index \in SUBSET Routes
    /\ audit \in Seq(Events)
    /\ version \in [Routes -> Nat]

StoreInit ==
    /\ store = [r \in Routes |-> NoPolicy]
    /\ index = {}
    /\ audit = <<>>
    /\ version = [r \in Routes |-> 0]

\* XADD and XTRIM MAXLEN, or a deque with maxlen: the newest MaxEvents stay
RecordedUntrimmed(e) == Append(audit, e)
Recorded(e) ==
    IF Len(audit) < MaxEvents THEN Append(audit, e) ELSE Append(Tail(audit), e)

\* The event of a write; its previous document is read by the write itself
EventFromCaller(op, r, doc) ==
    [operation |-> op, route |-> r, new |-> doc,
     previous |-> IF op = "create" THEN NoPolicy ELSE store[r]]
Event(op, r, doc) ==
    [operation |-> op, route |-> r, previous |-> store[r], new |-> doc]

SetWithAudit(op, r, doc) ==
    /\ store' = [store EXCEPT ![r] = doc]
    /\ index' = index \cup {r}
    /\ audit' = Recorded(Event(op, r, doc))
    /\ version' = [version EXCEPT ![r] = @ + 1]

\* delete_with_audit returns early when there is no document
Deletable(r) == store[r] # NoPolicy

DeleteWithAudit(r) ==
    /\ store' = [store EXCEPT ![r] = NoPolicy]
    /\ index' = index \ {r}
    /\ audit' = Recorded(Event("delete", r, NoPolicy))
    /\ version' = [version EXCEPT ![r] = @ + 1]

----------------------------------------------------------------------------
\* Listings of the trail, as the positions of the events that are shown; they are
\* shown newest first.  limit is at least 1 and at most ScanCap
\* (list_policy_audit_history).
All == "all"
Filters == [route : Routes \cup {All}, operation : Operations \cup {All}]
Matches(e, f) == f.route \in {All, e.route} /\ f.operation \in {All, e.operation}

\* The newest of the matching ones among the events that are examined
Shown(limit, f, examined) ==
    LET found == {i \in examined : Matches(audit[i], f)}
    IN  {i \in found : Cardinality({j \in found : j > i}) < limit}

Trail == 1..Len(audit)
MemoryListing(limit, f) == Shown(limit, f, Trail)

\* A stream is read from its end, but never further than this
ScanWindowFixed(limit) == ScanFloor
ScanWindow(limit) == Min({Max({limit * ScanFactor, ScanFloor}), ScanCap})
RedisListing(limit, f) ==
    Shown(limit, f, {i \in Trail : Len(audit) - i < ScanWindow(limit)})

----------------------------------------------------------------------------
Concerns(i, r) == audit[i].route = r

(***************************************************************************)
(* The audit trail replays to the store: the document an event replaced is *)
(* the one the event before it (of the same route) wrote, and the newest   *)
(* event of a route wrote what is stored now, under concurrent writers,    *)
(* lost answers and trimming.  (store.py: "the recorded previous_policy is *)
(* exactly the document that was replaced".)                               *)
(***************************************************************************)
AuditChain ==
    \A r \in Routes, i \in 1..Len(audit) :
        Concerns(i, r) =>
            \/ \E k \in (i + 1)..Len(audit) :
                  /\ Concerns(k, r)
                  /\ \A m \in (i + 1)..(k - 1) : ~Concerns(m, r)
                  /\ audit[k].previous = audit[i].new
            \/ /\ \A k \in (i + 1)..Len(audit) : ~Concerns(k, r)
               /\ store[r] = audit[i].new

(***************************************************************************)
(* As long as the trail was never trimmed it holds every change: there are *)
(* as many events as writes, and a stored document has its event.  It      *)
(* never outgrows the configured bound.  A delete that is on record did    *)
(* remove something: of two racing deletes only one is recorded.  (README: *)
(* "bounded to the newest RATE_LIMIT_AUDIT_MAX_EVENTS events".)            *)
(***************************************************************************)
AuditComplete ==
    /\ Len(audit) <= MaxEvents
    /\ \A r \in Routes :
          LET kept == Cardinality({i \in 1..Len(audit) : Concerns(i, r)})
          IN  /\ kept <= version[r]
              /\ Len(audit) < MaxEvents => kept = version[r]
    /\ \A i \in 1..Len(audit) :
          audit[i].operation = "delete" => audit[i].previous # NoPolicy /\ audit[i].new = NoPolicy

(***************************************************************************)
(* What the audit endpoint shows can be relied upon, although a Redis      *)
(* listing examines only part of the trail: without a filter it shows the  *)
(* same events as the memory store would, up to the largest limit; with    *)
(* one it may end early, but it leaves out nothing newer than what it      *)
(* shows; and the first event shown for a route wrote what is stored now.  *)
(***************************************************************************)
HistoryReadable ==
    \A limit \in 1..ScanCap, f \in Filters :
        LET shown == RedisListing(limit, f)
            full == MemoryListing(limit, f)
        IN  /\ shown \subseteq full
            /\ \A i \in shown, j \in full : j > i => j \in shown
            /\ f.route = All /\ f.operation = All => shown = full
            /\ f.route # All /\ f.operation = All =>
                  \A i \in shown :
                      (\A j \in shown : j <= i) => store[f.route] = audit[i].new
=============================================================================
