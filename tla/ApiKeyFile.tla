---------------------------- MODULE ApiKeyFile ----------------------------
(***************************************************************************)
(* ApiKeyStore of app/api_keys.py: a dictionary under a lock, saved to a   *)
(* file after every change by writing a second file and renaming it.       *)
(* Writing may fail, after the dictionary was changed; the process may die *)
(* at any time and starts again from the file.  The process is the only    *)
(* one that uses the file.                                                 *)
(*                                                                         *)
(* verify hands out the record itself, so a later change of it is seen     *)
(* outside the lock.                                                       *)
(***************************************************************************)
EXTENDS ApiKeys

VARIABLES
    records,   \* self._records
    file       \* the contents of self.path

vars == <<shared, records, file>>

TypeOK ==
    /\ SharedTypeOK
    /\ records \in [Keys -> Records]
    /\ file \in [Keys -> Records]

Init ==
    /\ SharedInit
    /\ records = [k \in Keys |-> NoRecord]
    /\ file = records

Known(k) == records[k] # NoRecord

\* _persist: the rename is the last thing it does
PersistedNever(saved) == file
Persisted(saved) == IF saved THEN records' ELSE file

\* The end of the locked section: saved, or an exception and a 500
Saved(c, call) == file' = Persisted(TRUE) /\ Become(c, call)
NotSaved(c) == file' = Persisted(FALSE) /\ Become(c, Idle)

Create(c) ==
    LET k == calls[c].key IN
    /\ Doing(c, "create", "store")
    /\ records' = [records EXCEPT ![k] = calls[c].rec]
    /\ Saved(c, [calls[c] EXCEPT !.step = "answer"]) \/ NotSaved(c)
    /\ UNCHANGED touched

Delete(c) ==
    \E k \in used :
        /\ Free(c) /\ Known(k) /\ Touch(k)
        /\ records' = [records EXCEPT ![k] = NoRecord]
        /\ Saved(c, Call("delete", k, "answer", NoRecord)) \/ NotSaved(c)

\* The record is changed in place: callers that hold it see the change
SeenBy(k) == [d \in Callers |->
    IF calls[d].step = "check" /\ calls[d].key = k
    THEN [calls[d] EXCEPT !.rec.enabled = FALSE] ELSE calls[d]]

Revoke(c) ==
    \E k \in used :
        /\ Free(c) /\ Known(k) /\ Touch(k)
        /\ records' = [records EXCEPT ![k].enabled = FALSE]
        /\ \/ /\ file' = Persisted(TRUE)
              /\ calls' = [SeenBy(k) EXCEPT ![c] = Call("revoke", k, "answer", NoRecord)]
           \/ file' = Persisted(FALSE) /\ calls' = SeenBy(k)
        /\ reply' = NoReply
        /\ UNCHANGED <<now, used, issued, withdrawn, expiry>>

\* revoke and delete of a key that is not there
NotFound(c) ==
    \E k \in used : Free(c) /\ ~Known(k) /\ Touch(k) /\ Become(c, Idle)

Authenticate(c) ==
    \E k \in issued :
        /\ Free(c)
        /\ IF Known(k) THEN Verified(c, k, records[k]) ELSE Unverified(c, k)

List(c) == Free(c) /\ Report(c, TRUE, FALSE, {k \in Usable : ~Known(k)})

\* The process dies and is started again
Restart ==
    /\ LoseCalls
    /\ records' = file
    /\ UNCHANGED file

Next ==
    \/ Restart
    \/ \E c \in Callers : Create(c) \/ Delete(c) \/ Revoke(c)
    \/ /\ \/ Tick
          \/ \E c \in Callers :
                \/ BeginCreate(c) \/ NotFound(c) \/ Authenticate(c) \/ Check(c)
                \/ List(c) \/ AnswerDone(c)
       /\ UNCHANGED <<records, file>>

Spec == Init /\ [][Next]_vars
=============================================================================
