------------------------------ MODULE ApiKeys ------------------------------
(***************************************************************************)
(* What the two API key stores of app/api_keys.py share: the calls of the  *)
(* admin handlers and of client_key in app/main.py, which run in threads   *)
(* of the server, the records, and what the outside world has been told.   *)
(* A key is its digest.  Digests of new keys are drawn from a secure       *)
(* random source, so no key is created twice; a client has a key once its  *)
(* creation was answered.  A call is in the model from its first access to *)
(* the store on, create from the moment it computes expires_at.            *)
(***************************************************************************)
EXTENDS Integers, FiniteSets

CONSTANTS
    Keys,      \* the digests
    Callers,   \* threads of the server
    TTLs,      \* lifetimes an administrator may ask for, in seconds
    MaxTime    \* the clock stops here (bound of the model)

NoKey == "none"   \* of a call that is not about one key

ASSUME ApiKeysAssumption == TTLs \subseteq Nat /\ MaxTime \in Nat /\ NoKey \notin Keys

VARIABLES
    now,         \* the clock, in seconds
    calls,       \* what every caller is doing
    reply,       \* the answer given by the step that led to this state
    used,        \* history: keys whose creation has begun
    issued,      \* history: keys whose creation was answered
    touched,     \* history: keys that a revoke or a delete was begun for
    withdrawn,   \* history: keys whose revoke or delete was answered with success
    expiry       \* history: the expires_at told with each key

outside == <<reply, used, issued, touched, withdrawn, expiry>>
shared == <<now, calls, outside>>

\* expires_at is None: later than the clock gets
Never == MaxTime + 1
Times == Nat
Lifetimes == TTLs \cup {Never}

\* whole: all fields are there; dies: when Redis drops the hash
Records == [whole : BOOLEAN, enabled : BOOLEAN, expires : Times, dies : Times]
NoRecord == [whole |-> FALSE, enabled |-> FALSE, expires |-> 0, dies |-> 0]
Record(expires, dies) ==
    [whole |-> TRUE, enabled |-> TRUE, expires |-> expires, dies |-> dies]

\* _is_active
ActiveUnlessExpired(r) == now <= r.expires
Active(r) == r.enabled /\ now <= r.expires

Ops == {"none", "create", "revoke", "delete", "authenticate", "list"}

(***************************************************************************)
(* A call under way: its next step, what it holds and, for the properties, *)
(* the keys it has to find (due) and whether its key had been withdrawn    *)
(* when it began (barred).                                                 *)
(***************************************************************************)
Calls == [op : Ops, step : {"none", "store", "check", "read", "answer"},
          key : Keys \cup {NoKey}, ttl : Lifetimes, rec : Records,
          todo : SUBSET Keys, shown : SUBSET Keys, due : SUBSET Keys, barred : BOOLEAN]
Call(op, k, step, r) ==
    [op |-> op, step |-> step, key |-> k, ttl |-> Never, rec |-> r,
     todo |-> {}, shown |-> {}, due |-> {}, barred |-> FALSE]
Idle == Call("none", NoKey, "none", NoRecord)

Replies == [ok : BOOLEAN, barred : BOOLEAN, missed : SUBSET Keys]
NoReply == [ok |-> FALSE, barred |-> FALSE, missed |-> {}]

SharedTypeOK ==
    /\ now \in 0..MaxTime
    /\ calls \in [Callers -> Calls]
    /\ reply \in Replies
    /\ used \subseteq Keys /\ issued \subseteq used /\ withdrawn \subseteq touched /\ touched \subseteq used
    /\ expiry \in [Keys -> Times]

SharedInit ==
    /\ now = 0
    /\ calls = [c \in Callers |-> Idle]
    /\ reply = NoReply
    /\ used = {} /\ issued = {} /\ touched = {} /\ withdrawn = {}
    /\ expiry = [k \in Keys |-> 0]

Tick ==
    /\ now < MaxTime
    /\ now' = now + 1
    /\ reply' = NoReply
    /\ UNCHANGED <<calls, used, issued, touched, withdrawn, expiry>>

Free(c) == calls[c].step = "none"
Doing(c, op, step) == calls[c].op = op /\ calls[c].step = step

\* Keys that have to be accepted now
Usable == {k \in issued \ touched : now < expiry[k]}

----------------------------------------------------------------------------
\* The call of c is in a new state, or over; nobody is told anything
Become(c, call) ==
    /\ calls' = [calls EXCEPT ![c] = call]
    /\ reply' = NoReply
    /\ UNCHANGED <<now, used, issued, withdrawn, expiry>>

\* A revoke or delete of k is now known to have begun
Touch(k) == touched' = touched \cup {k}

\* A lookup ends
Report(c, ok, barred, missed) ==
    /\ calls' = [calls EXCEPT ![c] = Idle]
    /\ reply' = [ok |-> ok, barred |-> barred, missed |-> missed]
    /\ UNCHANGED <<now, used, issued, touched, withdrawn, expiry>>

\* create draws a key and computes expires_at
ExpiresAt(ttl) == IF ttl = Never THEN Never ELSE now + ttl

BeginCreate(c) ==
    \E k \in Keys \ used, ttl \in Lifetimes :
        /\ Free(c)
        /\ calls' = [calls EXCEPT ![c] =
              [Call("create", k, "store", Record(ExpiresAt(ttl), Never)) EXCEPT !.ttl = ttl]]
        /\ used' = used \cup {k}
        /\ expiry' = [expiry EXCEPT ![k] = ExpiresAt(ttl)]
        /\ reply' = NoReply
        /\ UNCHANGED <<now, issued, touched, withdrawn>>

\* authenticate: verify has found the record r of k
Verified(c, k, r) ==
    /\ Become(c, [Call("authenticate", k, "check", r) EXCEPT
                     !.due = Usable \cap {k}, !.barred = k \in withdrawn])
    /\ UNCHANGED touched

\* ... or has not
Unverified(c, k) == Report(c, FALSE, FALSE, Usable \cap {k})

\* authenticate: _is_active on the record
Check(c) ==
    /\ calls[c].step = "check"
    /\ LET ok == Active(calls[c].rec)
       IN  Report(c, ok, calls[c].barred, IF ok THEN {} ELSE calls[c].due \cap Usable)

\* A change is made; the answer goes out, unless the process dies first
AnswerDone(c) ==
    /\ calls[c].step = "answer"
    /\ calls' = [calls EXCEPT ![c] = Idle]
    /\ IF calls[c].op = "create"
       THEN issued' = issued \cup {calls[c].key} /\ UNCHANGED withdrawn
       ELSE withdrawn' = withdrawn \cup {calls[c].key} /\ UNCHANGED issued
    /\ reply' = NoReply
    /\ UNCHANGED <<now, used, touched, expiry>>

\* The process dies; what it told the world stays told
LoseCalls ==
    /\ calls' = [c \in Callers |-> Idle]
    /\ reply' = NoReply
    /\ UNCHANGED <<now, used, issued, touched, withdrawn, expiry>>

----------------------------------------------------------------------------
(***************************************************************************)
(* "Disable an API key so it can no longer authenticate" and "Permanently  *)
(* remove an API key" (main.py): once either call was answered with        *)
(* success, no request that comes later is let in with the key, not after  *)
(* a crash and a restart, not with a lookup, a second withdrawal or the    *)
(* expiry of the key under way.                                            *)
(***************************************************************************)
WithdrawnStaysOut == reply.ok => ~reply.barred

(***************************************************************************)
(* A key whose creation was answered, which nobody tried to withdraw and   *)
(* which has not expired is accepted by authenticate and shown by every    *)
(* listing that succeeds, whatever failed or crashed in between.           *)
(***************************************************************************)
IssuedStaysUsable == reply.missed = {}
=============================================================================
