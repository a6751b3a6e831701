------------------------- MODULE ApiKeys_proofs -------------------------
(***************************************************************************)
(* Theorems about the two key stores, the file's first and then Redis's,   *)
(* for every number of keys and of callers.                                *)
(***************************************************************************)
EXTENDS ApiKeyStores, TLAPS

\* What a call is about fits its step
CallsSane ==
    \A c \in Callers :
        /\ calls[c].step = "none" => calls[c].key = NoKey
        /\ calls[c].step = "store" =>
              calls[c].op = "create" /\ calls[c].key \in Keys /\ calls[c].rec # NoRecord
        /\ calls[c].step \in {"check", "answer"} => calls[c].key \in Keys
        /\ calls[c].step = "answer" /\ calls[c].op # "create" => calls[c].key \in touched
        /\ calls[c].key \in Keys => calls[c].key \in used

\* A key that is still to be created is nowhere else
CreatesFresh ==
    \A c \in Callers : calls[c].step = "store" =>
        /\ calls[c].key \notin issued \cup withdrawn
        /\ records[calls[c].key] = NoRecord
        /\ \A d \in Callers \ {c} : calls[d].key # calls[c].key

\* A key nobody has used is in no record
UnusedUnknown == \A k \in Keys \ used : records[k] = NoRecord /\ file[k] = NoRecord

Disabled(k) == ~records[k].enabled /\ ~file[k].enabled

\* A withdrawal takes effect in memory and on disk before it is answered
WithdrawnDisabled == \A k \in withdrawn : Disabled(k)
AnswersTrue ==
    \A c \in Callers :
        calls[c].step = "answer" /\ calls[c].op # "create" => Disabled(calls[c].key)

\* Who looks a withdrawn key up holds a disabled record
BarredHoldDisabled ==
    \A c \in Callers : calls[c].step = "check" /\ calls[c].barred => ~calls[c].rec.enabled

IInv ==
    /\ TypeOK /\ CallsSane /\ CreatesFresh /\ UnusedUnknown
    /\ WithdrawnDisabled /\ AnswersTrue /\ BarredHoldDisabled
    /\ WithdrawnStaysOut

----------------------------------------------------------------------------
\* A missing record and a new one have the fields of a record.
LEMMA RecordsTyped ==
    /\ NoRecord \in Records /\ ~NoRecord.enabled
    /\ Never \in Times
    /\ \A e \in Times, d \in Times : Record(e, d) \in Records /\ Record(e, d) # NoRecord
<1>1. NoRecord \in Records /\ ~NoRecord.enabled
  BY DEF NoRecord, Records, Times
<1>2. Never \in Times
  BY ApiKeysAssumption DEF Never, Times
<1>3. ASSUME NEW e \in Times, NEW d \in Times
      PROVE  Record(e, d) \in Records /\ Record(e, d) # NoRecord
  <2>1. Record(e, d) \in Records
    BY DEF Record, Records, Times
  <2>2. Record(e, d).whole # NoRecord.whole
    BY DEF Record, NoRecord
  <2> QED BY <2>1, <2>2
<1> QED BY <1>1, <1>2, <1>3

\* A call that begins is well formed, and has the fields it was given.
LEMMA CallTyped ==
    ASSUME NEW op \in Ops, NEW k \in Keys \cup {NoKey},
           NEW step \in {"none", "store", "check", "read", "answer"}, NEW r \in Records
    PROVE  /\ Call(op, k, step, r) \in Calls
           /\ Call(op, k, step, r).op = op
           /\ Call(op, k, step, r).key = k
           /\ Call(op, k, step, r).step = step
           /\ Call(op, k, step, r).rec = r
BY RecordsTyped DEF Call, Calls, Lifetimes

\* A caller without a call is well formed.
LEMMA IdleTyped == Idle \in Calls /\ Idle.key = NoKey /\ Idle.step = "none"
BY RecordsTyped DEF Idle, Call, Calls, Lifetimes, Ops

\* So is the absence of an answer, which lets nobody in.
LEMMA NoReplyTyped == NoReply \in Replies /\ ~NoReply.ok
BY DEF NoReply, Replies

\* A new process has done nothing yet.
LEMMA InitHolds == Init => IInv
<1> SUFFICES ASSUME Init PROVE IInv
  OBVIOUS
<1> USE DEF Init, SharedInit
<1>1. TypeOK
  BY RecordsTyped, IdleTyped, NoReplyTyped, ApiKeysAssumption DEF TypeOK, SharedTypeOK, Times
<1>2. CallsSane
  BY IdleTyped, ApiKeysAssumption DEF CallsSane
<1>3. CreatesFresh /\ AnswersTrue /\ BarredHoldDisabled
  BY IdleTyped DEF CreatesFresh, AnswersTrue, BarredHoldDisabled
<1>4. UnusedUnknown /\ WithdrawnDisabled
  BY DEF UnusedUnknown, WithdrawnDisabled
<1>5. WithdrawnStaysOut
  BY NoReplyTyped DEF WithdrawnStaysOut
<1> QED BY <1>1, <1>2, <1>3, <1>4, <1>5 DEF IInv

\* The clock says nothing about keys.
LEMMA TickHolds == IInv /\ Tick /\ UNCHANGED <<records, file>> => IInv'
<1> SUFFICES ASSUME IInv, Tick, UNCHANGED <<records, file>> PROVE IInv'
  OBVIOUS
<1> USE DEF IInv, Tick
<1>1. TypeOK'
  BY NoReplyTyped, ApiKeysAssumption DEF TypeOK, SharedTypeOK
<1>2. CallsSane' /\ CreatesFresh' /\ UnusedUnknown'
  BY DEF CallsSane, CreatesFresh, UnusedUnknown
<1>3. WithdrawnDisabled' /\ AnswersTrue' /\ BarredHoldDisabled'
  BY DEF WithdrawnDisabled, AnswersTrue, BarredHoldDisabled, Disabled
<1>4. WithdrawnStaysOut'
  BY NoReplyTyped DEF WithdrawnStaysOut
<1> QED BY <1>1, <1>2, <1>3, <1>4

\* A restart brings back what was saved, in which no withdrawn key is enabled.
LEMMA RestartHolds == IInv /\ Restart => IInv'
<1> SUFFICES ASSUME IInv, Restart PROVE IInv'
  OBVIOUS
<1> USE DEF IInv, Restart, LoseCalls
<1>1. TypeOK'
  BY NoReplyTyped, IdleTyped DEF TypeOK, SharedTypeOK
<1>2. CallsSane' /\ CreatesFresh'
  BY IdleTyped, ApiKeysAssumption DEF CallsSane, CreatesFresh
<1>3. UnusedUnknown'
  BY DEF UnusedUnknown
<1>4. WithdrawnDisabled'
  BY DEF WithdrawnDisabled, Disabled
<1>5. AnswersTrue' /\ BarredHoldDisabled'
  BY IdleTyped DEF AnswersTrue, BarredHoldDisabled
<1>6. WithdrawnStaysOut'
  BY NoReplyTyped DEF WithdrawnStaysOut
<1> QED BY <1>1, <1>2, <1>3, <1>4, <1>5, <1>6

\* A create that begins takes a key that nothing refers to.
LEMMA BeginCreateHolds ==
    ASSUME IInv, NEW c \in Callers, BeginCreate(c), UNCHANGED <<records, file>>
    PROVE  IInv'
<1>0. PICK k \in Keys \ used, ttl \in Lifetimes :
      /\ Free(c)
      /\ calls' = [calls EXCEPT ![c] =
            [Call("create", k, "store", Record(ExpiresAt(ttl), Never)) EXCEPT !.ttl = ttl]]
      /\ used' = used \cup {k}
      /\ expiry' = [expiry EXCEPT ![k] = ExpiresAt(ttl)]
      /\ reply' = NoReply
      /\ UNCHANGED <<now, issued, touched, withdrawn>>
  BY DEF BeginCreate
<1> DEFINE r == Record(ExpiresAt(ttl), Never)
           new == [Call("create", k, "store", r) EXCEPT !.ttl = ttl]
<1>1. ExpiresAt(ttl) \in Times
  BY ApiKeysAssumption DEF ExpiresAt, Lifetimes, Times, Never, IInv, TypeOK, SharedTypeOK
<1>2. r \in Records /\ r # NoRecord
  BY <1>1, RecordsTyped
<1> HIDE DEF r
<1>3. /\ new \in Calls /\ new.op = "create" /\ new.key = k
      /\ new.step = "store" /\ new.rec = r
  BY <1>2, RecordsTyped DEF Calls, Ops, Call
<1>4. calls' = [calls EXCEPT ![c] = new]
  BY <1>0 DEF r
<1> HIDE DEF new
<1>5. calls \in [Callers -> Calls]
  BY DEF IInv, TypeOK, SharedTypeOK
<1>6. calls'[c] = new /\ \A d \in Callers \ {c} : calls'[d] = calls[d]
  BY <1>4, <1>5
<1>7. TypeOK'
  BY <1>0, <1>1, <1>3, <1>4, NoReplyTyped DEF IInv, TypeOK, SharedTypeOK
<1>8. CallsSane'
  <2>1. touched' = touched /\ used' = used \cup {k}
    BY <1>0
  <2> QED BY <1>2, <1>3, <1>6, <2>1 DEF IInv, CallsSane
<1>9. CreatesFresh'
  <2>1. \A d \in Callers : calls[d].key # k
    BY <1>0 DEF IInv, CallsSane
  <2>2. k \notin issued \cup withdrawn /\ records[k] = NoRecord
    BY <1>0 DEF IInv, TypeOK, SharedTypeOK, UnusedUnknown
  <2>3. UNCHANGED <<issued, withdrawn, records>>
    BY <1>0
  <2> QED BY <1>3, <1>6, <2>1, <2>2, <2>3 DEF IInv, CreatesFresh
<1>10. UnusedUnknown' /\ WithdrawnDisabled'
  BY <1>0 DEF IInv, UnusedUnknown, WithdrawnDisabled, Disabled
<1>11. AnswersTrue' /\ BarredHoldDisabled'
  BY <1>3, <1>6 DEF IInv, AnswersTrue, BarredHoldDisabled, Disabled
<1>12. WithdrawnStaysOut'
  BY <1>0, NoReplyTyped DEF WithdrawnStaysOut
<1> QED BY <1>7, <1>8, <1>9, <1>10, <1>11, <1>12 DEF IInv

\* After a step that ends the call of c, c does nothing and the others go on.
LEMMA GoneIdle ==
    ASSUME IInv, NEW c \in Callers, calls' = [calls EXCEPT ![c] = Idle]
    PROVE  /\ calls' \in [Callers -> Calls]
           /\ calls'[c].step = "none" /\ calls'[c].key = NoKey
           /\ \A d \in Callers \ {c} : calls'[d] = calls[d]
BY IdleTyped DEF IInv, TypeOK, SharedTypeOK

\* The 404 of a withdrawal changes no record.
LEMMA NotFoundHolds ==
    ASSUME IInv, NEW c \in Callers, NotFound(c), UNCHANGED <<records, file>>
    PROVE  IInv'
<1>1. PICK k \in used : touched' = touched \cup {k} /\ Become(c, Idle)
  BY DEF NotFound, Touch
<1>2. /\ calls' = [calls EXCEPT ![c] = Idle]
      /\ reply' = NoReply
      /\ UNCHANGED <<now, used, issued, withdrawn, expiry>>
  BY <1>1 DEF Become
<1>3. /\ calls' \in [Callers -> Calls]
      /\ calls'[c].step = "none" /\ calls'[c].key = NoKey
      /\ \A d \in Callers \ {c} : calls'[d] = calls[d]
  BY <1>2, GoneIdle
<1>4. TypeOK'
  BY <1>1, <1>2, <1>3, NoReplyTyped DEF IInv, TypeOK, SharedTypeOK
<1>5. CallsSane'
  BY <1>1, <1>2, <1>3, ApiKeysAssumption DEF IInv, CallsSane
<1>6. CreatesFresh'
  <2> SUFFICES ASSUME NEW d \in Callers, calls'[d].step = "store"
               PROVE  /\ calls'[d].key \notin issued \cup withdrawn
                      /\ records[calls'[d].key] = NoRecord
                      /\ \A e \in Callers \ {d} : calls'[e].key # calls'[d].key
    BY <1>2 DEF CreatesFresh
  <2>1. d # c /\ calls'[d] = calls[d] /\ calls[d].key \in Keys
    BY <1>3 DEF IInv, CallsSane
  <2> QED BY <1>3, <2>1, ApiKeysAssumption DEF IInv, CreatesFresh
<1>7. UnusedUnknown' /\ WithdrawnDisabled'
  BY <1>2 DEF IInv, UnusedUnknown, WithdrawnDisabled, Disabled
<1>8. AnswersTrue' /\ BarredHoldDisabled'
  BY <1>3 DEF IInv, AnswersTrue, BarredHoldDisabled, Disabled
<1>9. WithdrawnStaysOut'
  BY <1>2, NoReplyTyped DEF WithdrawnStaysOut
<1> QED BY <1>4, <1>5, <1>6, <1>7, <1>8, <1>9 DEF IInv

\* The end of a lookup leaves everything as it is, but for the answer.
LEMMA ReportHolds ==
    ASSUME IInv, NEW c \in Callers, NEW ok \in BOOLEAN, NEW barred \in BOOLEAN,
           NEW missed \in SUBSET Keys, ok => ~barred,
           Report(c, ok, barred, missed), UNCHANGED <<records, file>>
    PROVE  IInv'
<1>2. /\ calls' = [calls EXCEPT ![c] = Idle]
      /\ reply' = [ok |-> ok, barred |-> barred, missed |-> missed]
      /\ UNCHANGED <<now, used, issued, touched, withdrawn, expiry>>
  BY DEF Report
<1>3. /\ calls' \in [Callers -> Calls]
      /\ calls'[c].step = "none" /\ calls'[c].key = NoKey
      /\ \A d \in Callers \ {c} : calls'[d] = calls[d]
  BY <1>2, GoneIdle
<1>4. TypeOK'
  BY <1>2, <1>3 DEF IInv, TypeOK, SharedTypeOK, Replies
<1>5. CallsSane'
  BY <1>2, <1>3, ApiKeysAssumption DEF IInv, CallsSane
<1>6. CreatesFresh'
  <2> SUFFICES ASSUME NEW d \in Callers, calls'[d].step = "store"
               PROVE  /\ calls'[d].key \notin issued \cup withdrawn
                      /\ records[calls'[d].key] = NoRecord
                      /\ \A e \in Callers \ {d} : calls'[e].key # calls'[d].key
    BY <1>2 DEF CreatesFresh
  <2>1. d # c /\ calls'[d] = calls[d] /\ calls[d].key \in Keys
    BY <1>3 DEF IInv, CallsSane
  <2> QED BY <1>3, <2>1, ApiKeysAssumption DEF IInv, CreatesFresh
<1>7. UnusedUnknown' /\ WithdrawnDisabled'
  BY <1>2 DEF IInv, UnusedUnknown, WithdrawnDisabled, Disabled
<1>8. AnswersTrue' /\ BarredHoldDisabled'
  BY <1>3 DEF IInv, AnswersTrue, BarredHoldDisabled, Disabled
<1>9. WithdrawnStaysOut'
  BY <1>2 DEF WithdrawnStaysOut
<1> QED BY <1>4, <1>5, <1>6, <1>7, <1>8, <1>9 DEF IInv

\* A listing is such an end.
LEMMA ListHolds ==
    ASSUME IInv, NEW c \in Callers, List(c), UNCHANGED <<records, file>>
    PROVE  IInv'
<1>1. {k \in Usable : ~Known(k)} \in SUBSET Keys
  BY DEF Usable, IInv, TypeOK, SharedTypeOK
<1> QED BY <1>1, ReportHolds DEF List

\* Whoever holds a disabled record is turned away.
LEMMA CheckHolds ==
    ASSUME IInv, NEW c \in Callers, Check(c), UNCHANGED <<records, file>>
    PROVE  IInv'
<1> DEFINE ok == Active(calls[c].rec)
           missed == IF ok THEN {} ELSE calls[c].due \cap Usable
<1>1. calls[c] \in Calls /\ calls[c].step = "check"
  BY DEF IInv, TypeOK, SharedTypeOK, Check
<1>2. calls[c].barred \in BOOLEAN /\ calls[c].rec.enabled \in BOOLEAN /\ calls[c].due \subseteq Keys
  BY <1>1 DEF Calls, Records
<1>3. ok \in BOOLEAN
  BY <1>2 DEF Active
<1>4. missed \in SUBSET Keys
  BY <1>2
<1>5. ok => ~calls[c].barred
  BY <1>1 DEF IInv, BarredHoldDisabled, Active
<1>6. Report(c, ok, calls[c].barred, missed)
  BY DEF Check
<1> QED BY <1>2, <1>3, <1>4, <1>5, <1>6, ReportHolds

\* A lookup hands out the record of the key, disabled if the key was withdrawn.
LEMMA AuthenticateHolds ==
    ASSUME IInv, NEW c \in Callers, Authenticate(c), UNCHANGED <<records, file>>
    PROVE  IInv'
<1>1. PICK k \in issued : IF Known(k) THEN Verified(c, k, records[k]) ELSE Unverified(c, k)
  BY DEF Authenticate
<1>2. k \in used /\ k \in Keys /\ records[k] \in Records /\ Usable \subseteq Keys
  BY DEF IInv, TypeOK, SharedTypeOK, Usable
<1>3. CASE Unverified(c, k)
  <2>1. Usable \cap {k} \in SUBSET Keys
    BY <1>2
  <2> QED BY <1>3, <2>1, ReportHolds DEF Unverified
<1>4. CASE Verified(c, k, records[k])
  <2> DEFINE late == k \in withdrawn
             due == Usable \cap {k}
             new == [Call("authenticate", k, "check", records[k]) EXCEPT
                       !.due = due, !.barred = late]
  <2>0. late \in BOOLEAN /\ due \in SUBSET Keys
    BY <1>2
  <2> HIDE DEF late, due
  <2>1. /\ new \in Calls /\ new.op = "authenticate" /\ new.key = k
        /\ new.step = "check" /\ new.rec = records[k] /\ new.barred = late
    BY <1>2, <2>0, RecordsTyped DEF Calls, Ops, Call, Lifetimes
  <2>2. /\ calls' = [calls EXCEPT ![c] = new]
        /\ reply' = NoReply
        /\ UNCHANGED <<now, used, issued, touched, withdrawn, expiry>>
    BY <1>4 DEF Verified, Become, late, due
  <2> HIDE DEF new
  <2>3. calls \in [Callers -> Calls]
    BY DEF IInv, TypeOK, SharedTypeOK
  <2>4. /\ calls' \in [Callers -> Calls] /\ calls'[c] = new
        /\ \A d \in Callers \ {c} : calls'[d] = calls[d]
    BY <2>1, <2>2, <2>3
  <2>5. TypeOK'
    BY <2>2, <2>4, NoReplyTyped DEF IInv, TypeOK, SharedTypeOK
  <2>6. CallsSane'
    BY <1>2, <2>1, <2>2, <2>4 DEF IInv, CallsSane
  <2>7. CreatesFresh'
    <3> SUFFICES ASSUME NEW d \in Callers, calls'[d].step = "store"
                 PROVE  /\ calls'[d].key \notin issued \cup withdrawn
                        /\ records[calls'[d].key] = NoRecord
                        /\ \A e \in Callers \ {d} : calls'[e].key # calls'[d].key
      BY <2>2 DEF CreatesFresh
    <3>1. d # c /\ calls'[d] = calls[d]
      BY <2>1, <2>4
    <3>2. calls[d].key # k
      BY <1>1, <3>1 DEF IInv, CreatesFresh
    <3> QED BY <2>1, <2>4, <3>1, <3>2 DEF IInv, CreatesFresh
  <2>8. UnusedUnknown' /\ WithdrawnDisabled'
    BY <2>2 DEF IInv, UnusedUnknown, WithdrawnDisabled, Disabled
  <2>9. AnswersTrue'
    BY <2>1, <2>4 DEF IInv, AnswersTrue, Disabled
  <2>10. BarredHoldDisabled'
    BY <2>1, <2>4 DEF IInv, BarredHoldDisabled, WithdrawnDisabled, Disabled, late
  <2>11. WithdrawnStaysOut'
    BY <2>2, NoReplyTyped DEF WithdrawnStaysOut
  <2> QED BY <2>5, <2>6, <2>7, <2>8, <2>9, <2>10, <2>11 DEF IInv
<1> QED BY <1>1, <1>3, <1>4

\* What a withdrawal promises when it is answered has been true since it was saved.
LEMMA AnswerDoneHolds ==
    ASSUME IInv, NEW c \in Callers, AnswerDone(c), UNCHANGED <<records, file>>
    PROVE  IInv'
<1> DEFINE k == calls[c].key
<1>1. /\ calls[c].step = "answer"
      /\ calls' = [calls EXCEPT ![c] = Idle]
      /\ reply' = NoReply
      /\ UNCHANGED <<now, used, touched, expiry>>
      /\ \/ issued' = issued \cup {k} /\ withdrawn' = withdrawn
         \/ issued' = issued /\ withdrawn' = withdrawn \cup {k} /\ calls[c].op # "create"
  BY DEF AnswerDone
<1>2. k \in Keys /\ k \in used /\ (calls[c].op # "create" => k \in touched)
  BY <1>1 DEF IInv, CallsSane
<1>3. /\ calls' \in [Callers -> Calls]
      /\ calls'[c].step = "none" /\ calls'[c].key = NoKey
      /\ \A d \in Callers \ {c} : calls'[d] = calls[d]
  BY <1>1, GoneIdle
<1>4. calls[c].op # "create" => Disabled(k)
  BY <1>1 DEF IInv, AnswersTrue
<1>5. \A d \in Callers : calls[d].step = "store" => d # c /\ calls[d].key # k
  BY <1>1 DEF IInv, CreatesFresh
<1> HIDE DEF k
<1>6. TypeOK'
  BY <1>1, <1>2, <1>3, NoReplyTyped DEF IInv, TypeOK, SharedTypeOK
<1>7. CallsSane'
  BY <1>1, <1>3, ApiKeysAssumption DEF IInv, CallsSane
<1>8. CreatesFresh'
  <2> SUFFICES ASSUME NEW d \in Callers, calls'[d].step = "store"
               PROVE  /\ calls'[d].key \notin issued' \cup withdrawn'
                      /\ records[calls'[d].key] = NoRecord
                      /\ \A e \in Callers \ {d} : calls'[e].key # calls'[d].key
    BY DEF CreatesFresh
  <2>1. d # c /\ calls'[d] = calls[d] /\ calls[d].key \in Keys
    BY <1>3 DEF IInv, CallsSane
  <2> QED BY <1>1, <1>3, <1>5, <2>1, ApiKeysAssumption DEF IInv, CreatesFresh
<1>9. UnusedUnknown'
  BY <1>1 DEF IInv, UnusedUnknown
<1>10. WithdrawnDisabled'
  BY <1>1, <1>4 DEF IInv, WithdrawnDisabled, Disabled
<1>11. AnswersTrue' /\ BarredHoldDisabled'
  BY <1>3 DEF IInv, AnswersTrue, BarredHoldDisabled, Disabled
<1>12. WithdrawnStaysOut'
  BY <1>1, NoReplyTyped DEF WithdrawnStaysOut
<1> QED BY <1>6, <1>7, <1>8, <1>9, <1>10, <1>11, <1>12 DEF IInv

\* A new record is enabled; it is of a key that nobody has withdrawn.
LEMMA CreateHolds ==
    ASSUME IInv, NEW c \in Callers, Create(c)
    PROVE  IInv'
<1> DEFINE k == calls[c].key
           done == [calls[c] EXCEPT !.step = "answer"]
<1>1. /\ calls[c].op = "create" /\ calls[c].step = "store"
      /\ records' = [records EXCEPT ![k] = calls[c].rec]
      /\ UNCHANGED <<now, used, issued, touched, withdrawn, expiry>>
      /\ reply' = NoReply
      /\ \/ file' = records' /\ calls' = [calls EXCEPT ![c] = done]
         \/ file' = file /\ calls' = [calls EXCEPT ![c] = Idle]
  BY DEF Create, Doing, Saved, NotSaved, Persisted, Become
<1>2. /\ k \in Keys /\ k \in used /\ k \notin withdrawn
      /\ \A d \in Callers \ {c} : calls[d].key # k
  BY <1>1 DEF IInv, CallsSane, CreatesFresh
<1>3. /\ calls \in [Callers -> Calls] /\ records \in [Keys -> Records] /\ file \in [Keys -> Records]
  BY DEF IInv, TypeOK, SharedTypeOK
<1>4. done \in Calls /\ done.step = "answer" /\ done.op = "create" /\ done.key = k
  BY <1>1, <1>3 DEF Calls
<1>5. calls[c].rec \in Records
  BY <1>3 DEF Calls
<1> HIDE DEF done, k
<1>6. /\ records' \in [Keys -> Records] /\ file' \in [Keys -> Records]
      /\ \A x \in Keys \ {k} : records'[x] = records[x]
      /\ \A x \in Keys \ {k} : file'[x] = records[x] \/ file'[x] = file[x]
  BY <1>1, <1>3, <1>5
<1>7. /\ calls' \in [Callers -> Calls]
      /\ calls'[c] = done \/ calls'[c] = Idle
      /\ \A d \in Callers \ {c} : calls'[d] = calls[d]
  BY <1>1, <1>3, <1>4, IdleTyped
<1>8. TypeOK'
  BY <1>1, <1>6, <1>7, NoReplyTyped DEF IInv, TypeOK, SharedTypeOK
<1>9. CallsSane'
  BY <1>1, <1>2, <1>4, <1>7, IdleTyped, ApiKeysAssumption DEF IInv, CallsSane
<1>10. CreatesFresh'
  <2> SUFFICES ASSUME NEW d \in Callers, calls'[d].step = "store"
               PROVE  /\ calls'[d].key \notin issued \cup withdrawn
                      /\ records'[calls'[d].key] = NoRecord
                      /\ \A e \in Callers \ {d} : calls'[e].key # calls'[d].key
    BY <1>1 DEF CreatesFresh
  <2>1. d # c /\ calls'[d] = calls[d] /\ calls[d].key \in Keys
    BY <1>4, <1>7, IdleTyped DEF IInv, CallsSane
  <2>2. calls[d].key # k /\ records'[calls[d].key] = records[calls[d].key]
    BY <1>2, <1>6, <2>1
  <2> QED BY <1>4, <1>7, <2>1, <2>2, IdleTyped, ApiKeysAssumption DEF IInv, CreatesFresh
<1>11. UnusedUnknown'
  BY <1>1, <1>2, <1>6 DEF IInv, UnusedUnknown
<1>12. WithdrawnDisabled'
  <2>1. withdrawn \subseteq Keys \ {k}
    BY <1>2 DEF IInv, TypeOK, SharedTypeOK
  <2> QED BY <1>1, <1>6, <2>1 DEF IInv, WithdrawnDisabled, Disabled
<1>13. AnswersTrue'
  <2> SUFFICES ASSUME NEW d \in Callers, calls'[d].step = "answer", calls'[d].op # "create"
               PROVE  ~records'[calls'[d].key].enabled /\ ~file'[calls'[d].key].enabled
    BY DEF AnswersTrue, Disabled
  <2>1. d # c /\ calls'[d] = calls[d]
    BY <1>4, <1>7, IdleTyped
  <2>2. calls[d].key \in Keys \ {k}
    BY <1>2, <2>1 DEF IInv, CallsSane
  <2> QED BY <1>6, <2>1, <2>2 DEF IInv, AnswersTrue, Disabled
<1>14. BarredHoldDisabled'
  BY <1>4, <1>7, IdleTyped DEF IInv, BarredHoldDisabled
<1>15. WithdrawnStaysOut'
  BY <1>1, NoReplyTyped DEF WithdrawnStaysOut
<1> QED BY <1>8, <1>9, <1>10, <1>11, <1>12, <1>13, <1>14, <1>15 DEF IInv

(***************************************************************************)
(* A step of a withdrawal of k by c: k is disabled in memory, and in the   *)
(* file if that is saved; calls that hold a record may see it disabled.    *)
(***************************************************************************)
Withdrawal(c, k, done) ==
    /\ calls[c].step = "none" /\ records[k] # NoRecord
    /\ done.key = k /\ done.step = "answer" /\ done.op # "create"
    /\ touched' = touched \cup {k}
    /\ UNCHANGED <<now, used, issued, withdrawn, expiry>> /\ reply' = NoReply
    /\ records' \in [Keys -> Records] /\ ~records'[k].enabled
    /\ \A x \in Keys \ {k} : records'[x] = records[x]
    /\ calls' \in [Callers -> Calls]
    /\ \A d \in Callers \ {c} :
          /\ calls'[d].op = calls[d].op /\ calls'[d].step = calls[d].step
          /\ calls'[d].key = calls[d].key /\ calls'[d].barred = calls[d].barred
          /\ calls'[d].due = calls[d].due
          /\ \/ calls'[d].rec = calls[d].rec
             \/ calls[d].step = "check" /\ calls[d].key = k /\ ~calls'[d].rec.enabled
    /\ \/ file' = records' /\ calls'[c] = done
       \/ file' = file /\ calls'[c].step = "none" /\ calls'[c].key = NoKey

\* Such a step keeps every withdrawn key out of memory and file.
LEMMA WithdrawalHolds ==
    ASSUME IInv, NEW c \in Callers, NEW k \in used, NEW done \in Calls,
           Withdrawal(c, k, done)
    PROVE  IInv'
<1> USE DEF Withdrawal
<1>1. k \in Keys /\ withdrawn \subseteq Keys /\ file \in [Keys -> Records]
  BY DEF IInv, TypeOK, SharedTypeOK
<1>2. TypeOK'
  BY <1>1, NoReplyTyped DEF IInv, TypeOK, SharedTypeOK
<1>3. CallsSane'
  <2> SUFFICES ASSUME NEW d \in Callers
               PROVE  /\ calls'[d].step = "none" => calls'[d].key = NoKey
                      /\ calls'[d].step = "store" =>
                            calls'[d].op = "create" /\ calls'[d].key \in Keys /\ calls'[d].rec # NoRecord
                      /\ calls'[d].step \in {"check", "answer"} => calls'[d].key \in Keys
                      /\ calls'[d].step = "answer" /\ calls'[d].op # "create" => calls'[d].key \in touched'
                      /\ calls'[d].key \in Keys => calls'[d].key \in used'
    BY DEF CallsSane
  <2>1. CASE d = c
    BY <1>1, <2>1, ApiKeysAssumption
  <2>2. CASE d # c
    BY <2>2 DEF IInv, CallsSane
  <2> QED BY <2>1, <2>2
<1>4. CreatesFresh'
  <2> SUFFICES ASSUME NEW d \in Callers, calls'[d].step = "store"
               PROVE  /\ calls'[d].key \notin issued \cup withdrawn
                      /\ records'[calls'[d].key] = NoRecord
                      /\ \A e \in Callers \ {d} : calls'[e].key # calls'[d].key
    BY DEF CreatesFresh
  <2>1. d # c
    OBVIOUS
  <2>2. /\ calls[d].step = "store" /\ calls'[d].key = calls[d].key
        /\ calls[d].key \in Keys /\ records[calls[d].key] = NoRecord
    BY <2>1 DEF IInv, CallsSane, CreatesFresh
  <2>3. calls[d].key # k
    BY <2>2
  <2>4. \A e \in Callers \ {d} : calls'[e].key # calls[d].key
    BY <2>2, <2>3, ApiKeysAssumption DEF IInv, CreatesFresh
  <2> QED BY <2>2, <2>3, <2>4 DEF IInv, CreatesFresh
<1>5. UnusedUnknown'
  BY <1>1 DEF IInv, UnusedUnknown
<1>6. \A x \in Keys : Disabled(x) => Disabled(x)'
  BY DEF Disabled
<1>7. WithdrawnDisabled'
  BY <1>1, <1>6 DEF IInv, WithdrawnDisabled
<1>8. AnswersTrue'
  <2> SUFFICES ASSUME NEW d \in Callers, calls'[d].step = "answer", calls'[d].op # "create"
               PROVE  ~records'[calls'[d].key].enabled /\ ~file'[calls'[d].key].enabled
    BY DEF AnswersTrue, Disabled
  <2>1. CASE d = c
    BY <2>1
  <2>2. CASE d # c
    <3>1. calls[d].key \in Keys /\ Disabled(calls[d].key) /\ calls'[d].key = calls[d].key
      BY <2>2 DEF IInv, CallsSane, AnswersTrue
    <3> QED BY <3>1, <1>6 DEF Disabled
  <2> QED BY <2>1, <2>2
<1>9. BarredHoldDisabled'
  BY DEF IInv, BarredHoldDisabled
<1>10. WithdrawnStaysOut'
  BY NoReplyTyped DEF WithdrawnStaysOut
<1> QED BY <1>2, <1>3, <1>4, <1>5, <1>7, <1>8, <1>9, <1>10 DEF IInv

\* delete is such a step, with the record gone.
LEMMA DeleteWithdraws ==
    ASSUME IInv, NEW c \in Callers, Delete(c)
    PROVE  \E k \in used : \E done \in Calls : Withdrawal(c, k, done)
<1>1. PICK k \in used :
        /\ Free(c) /\ Known(k) /\ Touch(k)
        /\ records' = [records EXCEPT ![k] = NoRecord]
        /\ Saved(c, Call("delete", k, "answer", NoRecord)) \/ NotSaved(c)
  BY DEF Delete
<1> DEFINE done == Call("delete", k, "answer", NoRecord)
<1>2. /\ k \in Keys /\ calls \in [Callers -> Calls] /\ records \in [Keys -> Records]
  BY DEF IInv, TypeOK, SharedTypeOK
<1>3. done \in Calls /\ done.key = k /\ done.step = "answer" /\ done.op # "create"
  BY <1>2, RecordsTyped DEF Call, Calls, Lifetimes, Ops
<1> HIDE DEF done
<1>4. /\ calls[c].step = "none" /\ records[k] # NoRecord /\ touched' = touched \cup {k}
      /\ UNCHANGED <<now, used, issued, withdrawn, expiry>> /\ reply' = NoReply
      /\ \/ file' = records' /\ calls' = [calls EXCEPT ![c] = done]
         \/ file' = file /\ calls' = [calls EXCEPT ![c] = Idle]
  BY <1>1 DEF Free, Known, Touch, Saved, NotSaved, Persisted, Become, done
<1>5. /\ records' \in [Keys -> Records] /\ ~records'[k].enabled
      /\ \A x \in Keys \ {k} : records'[x] = records[x]
  BY <1>1, <1>2, RecordsTyped
<1>6. /\ calls' \in [Callers -> Calls]
      /\ \A d \in Callers \ {c} : calls'[d] = calls[d]
      /\ \/ file' = records' /\ calls'[c] = done
         \/ file' = file /\ calls'[c].step = "none" /\ calls'[c].key = NoKey
  BY <1>2, <1>3, <1>4, IdleTyped
<1>7. Withdrawal(c, k, done)
  BY <1>3, <1>4, <1>5, <1>6 DEF Withdrawal
<1> QED BY <1>3, <1>7

\* revoke is such a step; callers in the middle of authenticate see it.
LEMMA RevokeWithdraws ==
    ASSUME IInv, NEW c \in Callers, Revoke(c)
    PROVE  \E k \in used : \E done \in Calls : Withdrawal(c, k, done)
<1>1. PICK k \in used :
        /\ Free(c) /\ Known(k) /\ Touch(k)
        /\ records' = [records EXCEPT ![k].enabled = FALSE]
        /\ \/ /\ file' = Persisted(TRUE)
              /\ calls' = [SeenBy(k) EXCEPT ![c] = Call("revoke", k, "answer", NoRecord)]
           \/ file' = Persisted(FALSE) /\ calls' = SeenBy(k)
        /\ reply' = NoReply
        /\ UNCHANGED <<now, used, issued, withdrawn, expiry>>
  BY DEF Revoke
<1> DEFINE done == Call("revoke", k, "answer", NoRecord)
<1>2. /\ k \in Keys /\ calls \in [Callers -> Calls] /\ records \in [Keys -> Records]
  BY DEF IInv, TypeOK, SharedTypeOK
<1>3. done \in Calls /\ done.key = k /\ done.step = "answer" /\ done.op # "create"
  BY <1>2, RecordsTyped DEF Call, Calls, Lifetimes, Ops
<1>4. \/ file' = records' /\ calls' = [SeenBy(k) EXCEPT ![c] = done]
      \/ file' = file /\ calls' = SeenBy(k)
  BY <1>1 DEF Persisted
<1> HIDE DEF done
<1>5. /\ records' \in [Keys -> Records] /\ ~records'[k].enabled
      /\ \A x \in Keys \ {k} : records'[x] = records[x]
  BY <1>1, <1>2 DEF Records
<1>6. /\ SeenBy(k) \in [Callers -> Calls]
      /\ \A d \in Callers :
            /\ SeenBy(k)[d].op = calls[d].op /\ SeenBy(k)[d].step = calls[d].step
            /\ SeenBy(k)[d].key = calls[d].key /\ SeenBy(k)[d].barred = calls[d].barred
            /\ SeenBy(k)[d].due = calls[d].due
            /\ \/ SeenBy(k)[d].rec = calls[d].rec
               \/ calls[d].step = "check" /\ calls[d].key = k /\ ~SeenBy(k)[d].rec.enabled
  <2> SUFFICES ASSUME NEW d \in Callers
               PROVE  /\ SeenBy(k)[d] \in Calls
                      /\ SeenBy(k)[d].op = calls[d].op /\ SeenBy(k)[d].step = calls[d].step
                      /\ SeenBy(k)[d].key = calls[d].key /\ SeenBy(k)[d].barred = calls[d].barred
                      /\ SeenBy(k)[d].due = calls[d].due
                      /\ \/ SeenBy(k)[d].rec = calls[d].rec
                         \/ calls[d].step = "check" /\ calls[d].key = k /\ ~SeenBy(k)[d].rec.enabled
    BY DEF SeenBy
  <2>1. calls[d] \in Calls
    BY <1>2
  <2>2. CASE SeenBy(k)[d] = calls[d]
    BY <2>1, <2>2
  <2>3. CASE calls[d].step = "check" /\ calls[d].key = k /\ SeenBy(k)[d] = [calls[d] EXCEPT !.rec.enabled = FALSE]
    <3> DEFINE r == [calls[d].rec EXCEPT !.enabled = FALSE]
    <3>1. r \in Records /\ ~r.enabled
      BY <2>1 DEF Calls, Records
    <3>2. SeenBy(k)[d] = [calls[d] EXCEPT !.rec = r]
      BY <2>3
    <3> HIDE DEF r
    <3> QED BY <2>1, <2>3, <3>1, <3>2 DEF Calls
  <2> QED BY <2>2, <2>3 DEF SeenBy
<1>7. SeenBy(k)[c].step = "none" /\ SeenBy(k)[c].key = NoKey
  BY <1>1, <1>6 DEF Free, IInv, CallsSane
<1>8. /\ calls' \in [Callers -> Calls]
      /\ \A d \in Callers \ {c} : calls'[d] = SeenBy(k)[d]
      /\ \/ file' = records' /\ calls'[c] = done
         \/ file' = file /\ calls'[c].step = "none" /\ calls'[c].key = NoKey
  <2> DEFINE seen == SeenBy(k)
  <2> HIDE DEF seen
  <2>1. seen \in [Callers -> Calls] /\ seen[c].step = "none" /\ seen[c].key = NoKey
    BY <1>6, <1>7 DEF seen
  <2>2. \/ file' = records' /\ calls' = [seen EXCEPT ![c] = done]
        \/ file' = file /\ calls' = seen
    BY <1>4 DEF seen
  <2>3. /\ calls' \in [Callers -> Calls]
        /\ \A d \in Callers \ {c} : calls'[d] = seen[d]
        /\ \/ file' = records' /\ calls'[c] = done
           \/ file' = file /\ calls'[c].step = "none" /\ calls'[c].key = NoKey
    BY <1>3, <2>1, <2>2
  <2> QED BY <2>3 DEF seen
<1>9. /\ calls[c].step = "none" /\ records[k] # NoRecord /\ touched' = touched \cup {k}
      /\ UNCHANGED <<now, used, issued, withdrawn, expiry>> /\ reply' = NoReply
  BY <1>1 DEF Free, Known, Touch
<1>10. Withdrawal(c, k, done)
  BY <1>3, <1>5, <1>6, <1>8, <1>9 DEF Withdrawal
<1> QED BY <1>3, <1>10

\* Both keep every withdrawn key out.
LEMMA WithdrawingHolds ==
    ASSUME IInv, NEW c \in Callers, Delete(c) \/ Revoke(c)
    PROVE  IInv'
BY DeleteWithdraws, RevokeWithdraws, WithdrawalHolds

----------------------------------------------------------------------------
\* Every step keeps the invariant.
LEMMA StepHolds == IInv /\ [Next]_vars => IInv'
<1> SUFFICES ASSUME IInv, [Next]_vars PROVE IInv'
  OBVIOUS
<1>1. CASE Restart
  BY <1>1, RestartHolds
<1>2. ASSUME NEW c \in Callers, Create(c) \/ Delete(c) \/ Revoke(c) PROVE IInv'
  BY <1>2, CreateHolds, WithdrawingHolds
<1>3. CASE Tick /\ UNCHANGED <<records, file>>
  BY <1>3, TickHolds
<1>4. ASSUME NEW c \in Callers, UNCHANGED <<records, file>>,
             \/ BeginCreate(c) \/ NotFound(c) \/ Authenticate(c) \/ Check(c)
             \/ List(c) \/ AnswerDone(c)
      PROVE  IInv'
  BY <1>4, BeginCreateHolds, NotFoundHolds, AuthenticateHolds, CheckHolds, ListHolds,
     AnswerDoneHolds
<1>5. CASE UNCHANGED vars
  BY <1>5 DEF vars, shared, outside, IInv, TypeOK, SharedTypeOK, CallsSane, CreatesFresh,
     UnusedUnknown, WithdrawnDisabled, AnswersTrue, BarredHoldDisabled, Disabled,
     WithdrawnStaysOut
<1> QED BY <1>1, <1>2, <1>3, <1>4, <1>5 DEF Next

\* The inductive invariant holds in every state of ApiKeyStore.
THEOREM Invariance == Spec => []IInv
BY InitHolds, StepHolds, PTL DEF Spec

(***************************************************************************)
(* The dictionary, the file, the calls and what the world was told are     *)
(* well formed in every state; only keys somebody tried to withdraw are    *)
(* withdrawn, and only keys that were drawn are known (create, revoke,     *)
(* delete, _persist and _load of ApiKeyStore).                             *)
(***************************************************************************)
THEOREM TypeCorrect == Spec => []TypeOK
<1>1. IInv => TypeOK
  BY DEF IInv
<1> QED BY Invariance, <1>1, PTL

(***************************************************************************)
(* For any number of keys and threads: once revoke or delete has been      *)
(* answered with success, authenticate never accepts the key again,        *)
(* whatever saves fail later and however often the process is restarted.   *)
(***************************************************************************)
THEOREM WithdrawnKeysStayOut == Spec => []WithdrawnStaysOut
<1>1. IInv => WithdrawnStaysOut
  BY DEF IInv
<1> QED BY Invariance, <1>1, PTL

----------------------------------------------------------------------------
(***************************************************************************)
(* The other promise: a key that was issued stays usable.  Where its       *)
(* record is, it is enabled and has the expiry that was told with the key: *)
(* in memory and in the file from the moment before create is answered,    *)
(* in the hands of a create before, and of a lookup after, as long as      *)
(* nobody has tried to withdraw the key.                                   *)
(***************************************************************************)
Sound(r, e) == r.enabled /\ r.expires = e
Kept(k) == Sound(records[k], expiry[k]) /\ Sound(file[k], expiry[k])

IssuedKept == \A k \in issued \ touched : Kept(k)
AnswersKept ==
    \A c \in Callers :
        calls[c].step = "answer" /\ calls[c].op = "create" /\ calls[c].key \notin touched
            => Kept(calls[c].key)
CreatesSound ==
    \A c \in Callers : calls[c].step = "store" => Sound(calls[c].rec, expiry[calls[c].key])
ChecksSound ==
    \A c \in Callers : calls[c].step = "check" =>
        /\ calls[c].due \subseteq {calls[c].key}
        /\ calls[c].key \notin touched => Sound(calls[c].rec, expiry[calls[c].key])

Promised == IssuedKept /\ AnswersKept /\ CreatesSound /\ ChecksSound
KeptInv == IInv /\ Promised /\ IssuedStaysUsable

\* Nobody misses a key before anything was looked up.
LEMMA NothingMissed == NoReply.missed = {}
BY DEF NoReply

\* No key, no promise.
LEMMA InitPromised == Init => Promised /\ IssuedStaysUsable
<1> SUFFICES ASSUME Init PROVE Promised /\ IssuedStaysUsable
  OBVIOUS
<1>1. issued = {} /\ reply = NoReply /\ \A c \in Callers : calls[c].step = "none"
  BY IdleTyped DEF Init, SharedInit
<1> QED
  BY <1>1, NothingMissed
  DEF Promised, IssuedKept, AnswersKept, CreatesSound, ChecksSound, IssuedStaysUsable

\* A usable key has a record, which is active.
LEMMA UsableActive ==
    ASSUME KeptInv, NEW k \in Usable, NEW r \in Records, Sound(r, expiry[k])
    PROVE  Active(r)
<1>1. k \in Keys /\ now \in Nat /\ expiry[k] \in Nat /\ now < expiry[k]
  BY ApiKeysAssumption DEF Usable, KeptInv, IInv, TypeOK, SharedTypeOK, Times
<1> QED BY <1>1 DEF Active, Sound

\* Its record is in memory.
LEMMA UsableKnown ==
    ASSUME KeptInv, NEW k \in Usable
    PROVE  Known(k)
<1>1. Sound(records[k], expiry[k])
  BY DEF Usable, KeptInv, Promised, IssuedKept, Kept
<1>2. ~NoRecord.enabled
  BY RecordsTyped
<1> QED BY <1>1, <1>2 DEF Known, Sound

(***************************************************************************)
(* The steps of a call that change no record: it ends, having issued its   *)
(* key if that is what it did, or it takes a record to check.              *)
(***************************************************************************)
LEMMA LookupPromised ==
    ASSUME KeptInv, NEW c \in Callers, UNCHANGED <<records, file, expiry>>,
           touched \subseteq touched',
           \A d \in Callers \ {c} : calls'[d] = calls[d],
           \A k \in issued' : k \in issued \/
              (k = calls[c].key /\ calls[c].step = "answer" /\ calls[c].op = "create"),
           \/ calls'[c].step = "none"
           \/ /\ calls'[c].step = "check" /\ calls'[c].due \subseteq {calls'[c].key}
              /\ calls'[c].key \notin touched' => Sound(calls'[c].rec, expiry[calls'[c].key])
    PROVE  Promised'
<1> USE DEF KeptInv, Promised
<1>1. \A k : Kept(k)' <=> Kept(k)
  BY DEF Kept
<1>2. IssuedKept'
  <2> SUFFICES ASSUME NEW k \in issued', k \notin touched' PROVE Kept(k)
    BY <1>1 DEF IssuedKept
  <2>1. k \notin touched
    OBVIOUS
  <2> QED BY <2>1 DEF IssuedKept, AnswersKept
<1>3. AnswersKept'
  <2> SUFFICES ASSUME NEW d \in Callers, calls'[d].step = "answer", calls'[d].op = "create",
                      calls'[d].key \notin touched'
               PROVE  Kept(calls'[d].key)
    BY <1>1 DEF AnswersKept
  <2>1. d # c /\ calls'[d] = calls[d] /\ calls'[d].key \notin touched
    OBVIOUS
  <2> QED BY <2>1 DEF AnswersKept
<1>4. CreatesSound'
  BY DEF CreatesSound
<1>5. ChecksSound'
  <2> SUFFICES ASSUME NEW d \in Callers, calls'[d].step = "check"
               PROVE  /\ calls'[d].due \subseteq {calls'[d].key}
                      /\ calls'[d].key \notin touched' => Sound(calls'[d].rec, expiry[calls'[d].key])
    BY DEF ChecksSound
  <2>1. CASE d = c
    BY <2>1
  <2>2. CASE d # c
    BY <2>2 DEF ChecksSound
  <2> QED BY <2>1, <2>2
<1> QED BY <1>2, <1>3, <1>4, <1>5

\* The clock changes no promise.
LEMMA TickPromised == KeptInv /\ Tick /\ UNCHANGED <<records, file>> => Promised'
<1> SUFFICES ASSUME KeptInv, Tick, UNCHANGED <<records, file>> PROVE Promised'
  OBVIOUS
<1> QED
  BY DEF KeptInv, Promised, Tick, IssuedKept, AnswersKept, CreatesSound, ChecksSound, Kept

\* A restart finds every issued key in the file, and nobody in the middle of a call.
LEMMA RestartPromised == KeptInv /\ Restart => Promised'
<1> SUFFICES ASSUME KeptInv, Restart PROVE Promised'
  OBVIOUS
<1> USE DEF KeptInv, Promised, Restart, LoseCalls
<1>1. IssuedKept'
  BY DEF IssuedKept, Kept
<1>2. AnswersKept' /\ CreatesSound' /\ ChecksSound'
  BY IdleTyped DEF AnswersKept, CreatesSound, ChecksSound
<1> QED BY <1>1, <1>2

\* A create that begins tells the expiry of a key that nobody has.
LEMMA BeginCreatePromised ==
    ASSUME KeptInv, NEW c \in Callers, BeginCreate(c), UNCHANGED <<records, file>>
    PROVE  Promised'
<1>1. PICK k \in Keys \ used, ttl \in Lifetimes :
      /\ Free(c)
      /\ calls' = [calls EXCEPT ![c] =
            [Call("create", k, "store", Record(ExpiresAt(ttl), Never)) EXCEPT !.ttl = ttl]]
      /\ used' = used \cup {k}
      /\ expiry' = [expiry EXCEPT ![k] = ExpiresAt(ttl)]
      /\ reply' = NoReply
      /\ UNCHANGED <<now, issued, touched, withdrawn>>
  BY DEF BeginCreate
<1> DEFINE told == ExpiresAt(ttl)
           new == [Call("create", k, "store", Record(told, Never)) EXCEPT !.ttl = ttl]
<1>2. new.key = k /\ new.step = "store" /\ Sound(new.rec, told)
  BY DEF Call, Record, Sound
<1>3. /\ calls \in [Callers -> Calls] /\ expiry \in [Keys -> Times]
      /\ issued \subseteq used /\ used \subseteq Keys
  BY DEF KeptInv, IInv, TypeOK, SharedTypeOK
<1>4. calls' = [calls EXCEPT ![c] = new] /\ expiry' = [expiry EXCEPT ![k] = told]
  BY <1>1
<1> HIDE DEF new, told
<1>5. /\ calls'[c] = new /\ \A d \in Callers \ {c} : calls'[d] = calls[d]
      /\ expiry'[k] = told /\ \A x \in Keys \ {k} : expiry'[x] = expiry[x]
  BY <1>1, <1>3, <1>4
<1>6. \A x \in Keys \ {k} : Kept(x) => Kept(x)'
  BY <1>5 DEF Kept
<1>7. \A d \in Callers \ {c} :
        calls[d].step \in {"store", "check", "answer"} => calls[d].key \in Keys \ {k}
  BY <1>1 DEF KeptInv, IInv, CallsSane
<1>8. IssuedKept'
  BY <1>1, <1>3, <1>6 DEF KeptInv, Promised, IssuedKept
<1>9. AnswersKept'
  <2> SUFFICES ASSUME NEW d \in Callers, calls'[d].step = "answer", calls'[d].op = "create",
                      calls'[d].key \notin touched
               PROVE  /\ Sound(records'[calls'[d].key], expiry'[calls'[d].key])
                      /\ Sound(file'[calls'[d].key], expiry'[calls'[d].key])
    BY <1>1 DEF AnswersKept, Kept
  <2>1. d # c /\ calls'[d] = calls[d] /\ calls[d].key \in Keys \ {k}
    BY <1>2, <1>5, <1>7
  <2>2. Kept(calls[d].key)
    BY <2>1 DEF KeptInv, Promised, AnswersKept
  <2> QED BY <1>6, <2>1, <2>2 DEF Kept
<1>10. CreatesSound'
  BY <1>2, <1>5, <1>7 DEF KeptInv, Promised, CreatesSound
<1>11. ChecksSound'
  <2> SUFFICES ASSUME NEW d \in Callers, calls'[d].step = "check"
               PROVE  /\ calls'[d].due \subseteq {calls'[d].key}
                      /\ calls'[d].key \notin touched =>
                            Sound(calls'[d].rec, expiry'[calls'[d].key])
    BY <1>1 DEF ChecksSound
  <2>1. calls'[d] = calls[d] /\ calls[d].key \in Keys \ {k}
    BY <1>2, <1>5, <1>7
  <2>2. expiry'[calls[d].key] = expiry[calls[d].key]
    BY <1>5, <2>1
  <2> QED BY <2>1, <2>2 DEF KeptInv, Promised, ChecksSound
<1> QED BY <1>8, <1>9, <1>10, <1>11 DEF Promised

\* A create puts a sound record in memory and, before it is answered, in the file.
LEMMA CreatePromised ==
    ASSUME KeptInv, NEW c \in Callers, Create(c)
    PROVE  Promised'
<1> DEFINE k == calls[c].key
           r == calls[c].rec
           done == [calls[c] EXCEPT !.step = "answer"]
<1>1. /\ calls[c].op = "create" /\ calls[c].step = "store"
      /\ records' = [records EXCEPT ![k] = r]
      /\ UNCHANGED <<now, used, issued, touched, withdrawn, expiry>>
      /\ \/ file' = records' /\ calls' = [calls EXCEPT ![c] = done]
         \/ file' = file /\ calls' = [calls EXCEPT ![c] = Idle]
  BY DEF Create, Doing, Saved, NotSaved, Persisted, Become
<1>2. /\ k \in Keys /\ k \notin issued /\ Sound(r, expiry[k])
      /\ \A d \in Callers \ {c} : calls[d].key # k
  BY <1>1 DEF KeptInv, IInv, CallsSane, CreatesFresh, Promised, CreatesSound
<1>3. /\ calls \in [Callers -> Calls] /\ records \in [Keys -> Records] /\ issued \subseteq Keys
  BY DEF KeptInv, IInv, TypeOK, SharedTypeOK
<1>4. done.step = "answer" /\ done.key = k
  BY <1>3 DEF Calls
<1> HIDE DEF done, k, r
<1>5. /\ \A d \in Callers \ {c} : calls'[d] = calls[d]
      /\ \/ file' = records' /\ calls'[c] = done
         \/ file' = file /\ calls'[c].step = "none"
  BY <1>1, <1>3, IdleTyped
<1>6. /\ records'[k] = r /\ \A x \in Keys \ {k} : records'[x] = records[x]
      /\ \A x \in Keys \ {k} : Kept(x) => Kept(x)'
  BY <1>1, <1>2, <1>3, <1>5 DEF Kept
<1>7. IssuedKept'
  BY <1>1, <1>2, <1>3, <1>6 DEF KeptInv, Promised, IssuedKept
<1>8. AnswersKept'
  <2> SUFFICES ASSUME NEW d \in Callers, calls'[d].step = "answer", calls'[d].op = "create",
                      calls'[d].key \notin touched
               PROVE  /\ Sound(records'[calls'[d].key], expiry'[calls'[d].key])
                      /\ Sound(file'[calls'[d].key], expiry'[calls'[d].key])
    BY <1>1 DEF AnswersKept, Kept
  <2>1. CASE d = c
    <3>1. calls'[c] = done /\ file' = records'
      BY <1>5, <2>1
    <3>2. calls'[d].key = k /\ records'[k] = r /\ file'[k] = r /\ expiry'[k] = expiry[k]
      BY <1>1, <1>4, <1>6, <2>1, <3>1
    <3> QED BY <1>2, <3>2 DEF Kept
  <2>2. CASE d # c
    <3>1. calls'[d] = calls[d] /\ calls[d].key \in Keys \ {k}
      BY <1>2, <1>5, <2>2 DEF KeptInv, IInv, CallsSane
    <3>2. Kept(calls[d].key)
      BY <3>1 DEF KeptInv, Promised, AnswersKept
    <3> QED BY <1>6, <3>1, <3>2 DEF Kept
  <2> QED BY <2>1, <2>2
<1>9. CreatesSound' /\ ChecksSound'
  BY <1>1, <1>4, <1>5 DEF KeptInv, Promised, CreatesSound, ChecksSound
<1> QED BY <1>7, <1>8, <1>9 DEF Promised

\* A withdrawal of k touches no record but that of k, about which nothing is promised.
LEMMA WithdrawalPromised ==
    ASSUME KeptInv, NEW c \in Callers, NEW k \in used, NEW done \in Calls,
           Withdrawal(c, k, done)
    PROVE  Promised'
<1> USE DEF Withdrawal
<1>1. issued \subseteq Keys
  BY DEF KeptInv, IInv, TypeOK, SharedTypeOK
<1>2. \A x \in Keys \ {k} : Kept(x) => Kept(x)'
  BY DEF Kept
<1>3. IssuedKept'
  BY <1>1, <1>2 DEF KeptInv, Promised, IssuedKept
<1>4. AnswersKept'
  <2> SUFFICES ASSUME NEW d \in Callers, calls'[d].step = "answer", calls'[d].op = "create",
                      calls'[d].key \notin touched'
               PROVE  /\ Sound(records'[calls'[d].key], expiry'[calls'[d].key])
                      /\ Sound(file'[calls'[d].key], expiry'[calls'[d].key])
    BY DEF AnswersKept, Kept
  <2>1. d # c
    OBVIOUS
  <2>2. calls'[d].key = calls[d].key /\ calls[d].key \in Keys \ {k} /\ Kept(calls[d].key)
    BY <2>1 DEF KeptInv, IInv, CallsSane, Promised, AnswersKept
  <2> QED BY <1>2, <2>2 DEF Kept
<1>5. CreatesSound'
  BY DEF KeptInv, Promised, CreatesSound
<1>6. ChecksSound'
  BY DEF KeptInv, Promised, ChecksSound
<1> QED BY <1>3, <1>4, <1>5, <1>6 DEF Promised

(***************************************************************************)
(* The promise and the answer, step by step: a lookup reports no usable    *)
(* key as missing, because its record is there and active; every other     *)
(* step answers nobody who looks.                                          *)
(***************************************************************************)
LEMMA ReportKept ==
    ASSUME KeptInv, NEW c \in Callers, NEW ok \in BOOLEAN, NEW barred \in BOOLEAN,
           Report(c, ok, barred, {}), UNCHANGED <<records, file>>
    PROVE  Promised' /\ IssuedStaysUsable'
<1>1. /\ calls' = [calls EXCEPT ![c] = Idle]
      /\ reply' = [ok |-> ok, barred |-> barred, missed |-> {}]
      /\ UNCHANGED <<now, used, issued, touched, withdrawn, expiry>>
  BY DEF Report
<1>2. calls'[c].step = "none" /\ \A d \in Callers \ {c} : calls'[d] = calls[d]
  BY <1>1, GoneIdle DEF KeptInv
<1>3. Promised'
  BY <1>1, <1>2, LookupPromised
<1>4. IssuedStaysUsable'
  BY <1>1 DEF IssuedStaysUsable
<1> QED BY <1>3, <1>4

\* A listing misses no usable key, for its record is there.
LEMMA ListKept ==
    ASSUME KeptInv, NEW c \in Callers, List(c), UNCHANGED <<records, file>>
    PROVE  Promised' /\ IssuedStaysUsable'
<1>1. {k \in Usable : ~Known(k)} = {}
  BY UsableKnown
<1>2. Report(c, TRUE, FALSE, {})
  BY <1>1 DEF List
<1> QED BY <1>2, ReportKept

\* Who checks the record of a usable key lets it in.
LEMMA CheckKept ==
    ASSUME KeptInv, NEW c \in Callers, Check(c), UNCHANGED <<records, file>>
    PROVE  Promised' /\ IssuedStaysUsable'
<1> DEFINE ok == Active(calls[c].rec)
<1>1. /\ calls[c].step = "check" /\ calls[c] \in Calls
      /\ Report(c, ok, calls[c].barred, IF ok THEN {} ELSE calls[c].due \cap Usable)
  BY DEF Check, KeptInv, IInv, TypeOK, SharedTypeOK
<1>2. calls[c].rec \in Records /\ calls[c].barred \in BOOLEAN
  BY <1>1 DEF Calls
<1>3. ok \in BOOLEAN
  BY <1>2 DEF Active, Records
<1>4. ASSUME NEW k \in calls[c].due \cap Usable PROVE ok
  <2>1. k = calls[c].key /\ k \notin touched
    BY <1>1 DEF KeptInv, Promised, ChecksSound, Usable
  <2>2. Sound(calls[c].rec, expiry[k])
    BY <1>1, <2>1 DEF KeptInv, Promised, ChecksSound
  <2> QED BY <1>2, <2>2, UsableActive
<1>5. (IF ok THEN {} ELSE calls[c].due \cap Usable) = {}
  BY <1>4
<1> HIDE DEF ok
<1>6. Report(c, ok, calls[c].barred, {})
  BY <1>1, <1>5
<1> QED BY <1>2, <1>3, <1>6, ReportKept

\* verify finds the record of a usable key, and it is sound.
LEMMA AuthenticateKept ==
    ASSUME KeptInv, NEW c \in Callers, Authenticate(c), UNCHANGED <<records, file>>
    PROVE  Promised' /\ IssuedStaysUsable'
<1>1. PICK k \in issued : IF Known(k) THEN Verified(c, k, records[k]) ELSE Unverified(c, k)
  BY DEF Authenticate
<1>2. CASE ~Known(k) /\ Unverified(c, k)
  <2>1. Usable \cap {k} = {}
    BY <1>2, UsableKnown
  <2>2. Report(c, FALSE, FALSE, {})
    BY <1>2, <2>1 DEF Unverified
  <2> QED BY <2>2, ReportKept
<1>3. CASE Verified(c, k, records[k])
  <2> DEFINE due == Usable \cap {k}
             late == k \in withdrawn
             new == [Call("authenticate", k, "check", records[k]) EXCEPT
                       !.due = due, !.barred = late]
  <2>1. due \subseteq {k}
    OBVIOUS
  <2> HIDE DEF due, late
  <2>2. new.step = "check" /\ new.key = k /\ new.rec = records[k] /\ new.due = due
    BY DEF Call
  <2>3. /\ calls' = [calls EXCEPT ![c] = new]
        /\ reply' = NoReply
        /\ UNCHANGED <<now, used, issued, touched, withdrawn, expiry>>
    BY <1>3 DEF Verified, Become, due, late
  <2> HIDE DEF new
  <2>4. calls \in [Callers -> Calls]
    BY DEF KeptInv, IInv, TypeOK, SharedTypeOK
  <2>5. calls'[c] = new /\ \A d \in Callers \ {c} : calls'[d] = calls[d]
    BY <2>3, <2>4
  <2>6. k \notin touched => Sound(records[k], expiry[k])
    BY <1>1 DEF KeptInv, Promised, IssuedKept, Kept
  <2>7. Promised'
    BY <2>1, <2>2, <2>3, <2>5, <2>6, LookupPromised
  <2>8. IssuedStaysUsable'
    BY <2>3, NothingMissed DEF IssuedStaysUsable
  <2> QED BY <2>7, <2>8
<1> QED BY <1>1, <1>2, <1>3

\* An answer to create issues a key that is kept already; a 404 changes nothing.
LEMMA EndKept ==
    ASSUME KeptInv, NEW c \in Callers, AnswerDone(c) \/ NotFound(c),
           UNCHANGED <<records, file>>
    PROVE  Promised' /\ IssuedStaysUsable'
<1>1. /\ calls' = [calls EXCEPT ![c] = Idle] /\ reply' = NoReply
      /\ touched \subseteq touched' /\ expiry' = expiry
      /\ \A k \in issued' : k \in issued \/
            (k = calls[c].key /\ calls[c].step = "answer" /\ calls[c].op = "create")
  BY DEF AnswerDone, NotFound, Become, Touch
<1>2. calls'[c].step = "none" /\ \A d \in Callers \ {c} : calls'[d] = calls[d]
  BY <1>1, GoneIdle DEF KeptInv
<1>3. Promised'
  BY <1>1, <1>2, LookupPromised
<1> QED BY <1>1, <1>3, NothingMissed DEF IssuedStaysUsable

\* The steps that change a record or the clock, and a create that begins, answer nobody.
LEMMA ChangeKept ==
    ASSUME KeptInv,
           \/ Restart
           \/ \E c \in Callers : Create(c) \/ Delete(c) \/ Revoke(c)
           \/ /\ Tick \/ \E c \in Callers : BeginCreate(c)
              /\ UNCHANGED <<records, file>>
    PROVE  Promised' /\ IssuedStaysUsable'
<1>1. reply' = NoReply
  BY DEF Restart, LoseCalls, Create, Delete, Revoke, Tick, BeginCreate, Saved, NotSaved, Become
<1>2. ASSUME \E c \in Callers : Delete(c) \/ Revoke(c) PROVE Promised'
  BY <1>2, DeleteWithdraws, RevokeWithdraws, WithdrawalPromised DEF KeptInv
<1>3. Promised'
  BY <1>2, RestartPromised, CreatePromised, TickPromised, BeginCreatePromised
<1> QED BY <1>1, <1>3, NothingMissed DEF IssuedStaysUsable

\* Every step keeps the promise.
LEMMA StepKept == KeptInv /\ [Next]_vars => KeptInv'
<1> SUFFICES ASSUME KeptInv, [Next]_vars PROVE KeptInv'
  OBVIOUS
<1>1. IInv'
  BY StepHolds DEF KeptInv
<1>2. CASE \/ Restart
           \/ \E c \in Callers : Create(c) \/ Delete(c) \/ Revoke(c)
           \/ /\ Tick \/ \E c \in Callers : BeginCreate(c)
              /\ UNCHANGED <<records, file>>
  BY <1>1, <1>2, ChangeKept DEF KeptInv
<1>3. ASSUME NEW c \in Callers, UNCHANGED <<records, file>>,
             NotFound(c) \/ Authenticate(c) \/ Check(c) \/ List(c) \/ AnswerDone(c)
      PROVE  KeptInv'
  <2>1. Promised' /\ IssuedStaysUsable'
    BY <1>3, EndKept, AuthenticateKept, CheckKept, ListKept
  <2> QED BY <1>1, <2>1 DEF KeptInv
<1>4. CASE UNCHANGED vars
  <2>1. Promised' /\ IssuedStaysUsable'
    BY <1>4 DEF vars, shared, outside, KeptInv, Promised, IssuedKept, AnswersKept,
       CreatesSound, ChecksSound, Kept, IssuedStaysUsable
  <2> QED BY <1>1, <2>1 DEF KeptInv
<1> QED BY <1>2, <1>3, <1>4 DEF Next

(***************************************************************************)
(* For any number of keys and threads: a key whose creation was answered   *)
(* is let in by authenticate and shown by list until it expires or someone *)
(* begins to withdraw it, whatever saves fail (of that key's creation,     *)
(* which is then not answered, or of another change) and however often the *)
(* process dies and starts again from the file.                            *)
(***************************************************************************)
THEOREM IssuedKeysStayUsable == Spec => []IssuedStaysUsable
<1>1. Init => KeptInv
  BY InitHolds, InitPromised DEF KeptInv
<1>2. KeptInv => IssuedStaysUsable
  BY DEF KeptInv
<1> QED BY <1>1, StepKept, <1>2, PTL DEF Spec

(***************************************************************************)
(* The Redis-backed store.  What is true of a key, and of what a caller is *)
(* doing.  A hash that an issued key needs is enabled, carries the expiry  *)
(* that was told, lives as long and is listed.                             *)
(***************************************************************************)
Stored(k) ==
    /\ hashes[k].enabled /\ hashes[k].expires = expiry[k] /\ expiry[k] <= hashes[k].dies
    /\ k \in index

KeyInv(k) ==
    /\ k \notin used => hashes[k] = NoRecord
    /\ k \in withdrawn => ~hashes[k].enabled
    /\ k \in issued \ touched => Stored(k)

ShapeInv(c) ==
    /\ calls[c].step = "none" => calls[c].key = NoKey
    /\ calls[c].step = "store" => calls[c].op \in {"create", "revoke"}
    /\ calls[c].step \in {"store", "check", "answer"} => calls[c].key \in Keys
    /\ calls[c].key \in Keys => calls[c].key \in used

\* A create is the only call about its key, and its hash will live long enough
Creating(c) == Doing(c, "create", "store")
CreateInv(c) == Creating(c) =>
    /\ calls[c].key \notin issued \cup withdrawn
    /\ hashes[calls[c].key] = NoRecord /\ calls[c].key \notin index
    /\ calls[c].rec.expires = expiry[calls[c].key]
    /\ expiry[calls[c].key] <= ExpiresAt(calls[c].ttl)
    /\ \A d \in Callers \ {c} : calls[d].key # calls[c].key

WithdrawInv(c) == calls[c].op # "create" =>
    /\ calls[c].step \in {"store", "answer"} => calls[c].key \in touched
    /\ calls[c].step = "answer" => ~hashes[calls[c].key].enabled

AnswerInv(c) == calls[c].step = "answer" /\ calls[c].op = "create" =>
    calls[c].key \in touched \/ Stored(calls[c].key)

CheckInv(c) == calls[c].step = "check" =>
    /\ calls[c].barred => ~calls[c].rec.enabled
    /\ calls[c].due \subseteq {calls[c].key}
    /\ calls[c].key \in touched \/
          (calls[c].rec.enabled /\ calls[c].rec.expires = expiry[calls[c].key])

\* A listing has shown the keys it owes, or will look at them
ListInv(c) == calls[c].step = "read" =>
    /\ calls[c].key = NoKey /\ calls[c].due \subseteq issued
    /\ calls[c].due \cap Usable \subseteq calls[c].todo \cup calls[c].shown

CallInv(c) ==
    ShapeInv(c) /\ CreateInv(c) /\ WithdrawInv(c) /\ AnswerInv(c) /\ CheckInv(c) /\ ListInv(c)
RedisIInv ==
    /\ RedisTypeOK
    /\ \A k \in Keys : KeyInv(k)
    /\ \A c \in Callers : CallInv(c)
    /\ WithdrawnStaysOut /\ IssuedStaysUsable

(***************************************************************************)
(* A step of c that is about the key k, or about none.  Nothing else       *)
(* changes, no other caller is creating k, and what has been promised of k *)
(* is kept.                                                                *)
(***************************************************************************)
Untouched(k) ==
    /\ hashes'[k] = hashes[k] /\ expiry'[k] = expiry[k]
    /\ k \in index' <=> k \in index
    /\ k \in used' <=> k \in used
    /\ k \in issued' <=> k \in issued
    /\ k \in withdrawn' <=> k \in withdrawn
Grows == used \subseteq used' /\ issued \subseteq issued' /\ touched \subseteq touched' /\ now <= now'
Others(c) == \A d \in Callers \ {c} : calls'[d] = calls[d]
Alone(c, k) == \A d \in Callers \ {c} : calls[d].key # k

\* A lifetime, and the time that never comes, are times.
LEMMA LifetimesTyped == Lifetimes \subseteq Nat /\ Never \in Nat
<1>1. Never \in Nat
  BY RecordsTyped DEF Times
<1> QED BY <1>1, ApiKeysAssumption DEF Lifetimes

\* What a caller d knows stays true while it waits.
LEMMA OthersKeep ==
    ASSUME RedisIInv, RedisTypeOK', NEW d \in Callers, NEW k, Grows, calls'[d] = calls[d],
           \A x \in Keys \ {k} : Untouched(x), k \in used => expiry'[k] = expiry[k],
           Creating(d) => /\ calls[d].key # k
                          /\ \A e \in Callers \ {d} : calls'[e].key # calls[d].key,
           \/ calls[d].key # k
           \/ k \in Keys => /\ ~hashes[k].enabled => ~hashes'[k].enabled
                            /\ Stored(k) => k \in touched' \/ Stored(k)'
    PROVE  CallInv(d)'
<1> DEFINE x == calls[d].key
<1>1. calls'[d] = calls[d] /\ CallInv(d)
  BY DEF RedisIInv
<1>2. /\ issued \subseteq used /\ used \subseteq Keys /\ now \in Int /\ now' \in Int
      /\ used' \subseteq Keys /\ calls[d] \in Calls
      /\ expiry \in [Keys -> Times] /\ expiry' \in [Keys -> Times]
  BY DEF RedisIInv, RedisTypeOK, SharedTypeOK
<1>3. \A y \in used : expiry'[y] = expiry[y]
  BY <1>2 DEF Untouched
<1>4. ShapeInv(d)'
  BY <1>1 DEF CallInv, ShapeInv, Grows
<1>5. CreateInv(d)'
  <2> SUFFICES ASSUME Creating(d)
               PROVE  /\ x \notin issued' \cup withdrawn' /\ hashes'[x] = NoRecord /\ x \notin index'
                      /\ calls[d].rec.expires = expiry'[x] /\ expiry'[x] <= ExpiresAt(calls[d].ttl)'
                      /\ \A e \in Callers \ {d} : calls'[e].key # x
    BY <1>1 DEF CreateInv, Creating, Doing, ExpiresAt
  <2>1. x \in Keys /\ x # k /\ x \in used
    BY <1>1 DEF CallInv, ShapeInv, Creating, Doing
  <2>2. /\ x \notin issued \cup withdrawn /\ hashes[x] = NoRecord /\ x \notin index
        /\ calls[d].rec.expires = expiry[x] /\ expiry[x] <= ExpiresAt(calls[d].ttl)
        /\ \A e \in Callers \ {d} : calls[e].key # x
    BY <1>1 DEF CallInv, CreateInv
  <2>3. /\ x \notin issued' \cup withdrawn' /\ hashes'[x] = NoRecord /\ x \notin index'
        /\ expiry'[x] = expiry[x]
    BY <2>1, <2>2 DEF Untouched
  <2>4. expiry[x] <= ExpiresAt(calls[d].ttl)'
    <3>1. calls[d].ttl \in Lifetimes /\ expiry[x] \in Nat
      BY <1>2, <2>1 DEF Calls, Times
    <3>2. calls[d].ttl \in Nat /\ Never \in Nat
      BY <3>1, LifetimesTyped
    <3> QED BY <1>1, <1>2, <2>2, <3>1, <3>2 DEF ExpiresAt, Grows
  <2> QED BY <2>2, <2>3, <2>4
<1>6. ASSUME x \in Keys
      PROVE  /\ ~hashes[x].enabled => ~hashes'[x].enabled
             /\ Stored(x) => x \in touched' \/ Stored(x)'
  <2>1. CASE x = k
    BY <1>1, <1>6, <2>1 DEF Stored
  <2>2. CASE x # k
    BY <1>1, <1>6, <2>2 DEF Untouched, Stored
  <2> QED BY <2>1, <2>2
<1>7. WithdrawInv(d)' /\ AnswerInv(d)'
  <2>1. x \in touched => x \in touched'
    BY DEF Grows
  <2>2. calls[d].step = "answer" /\ calls[d].op = "create" => x \in touched' \/ Stored(x)'
    BY <1>1, <1>6, <2>1 DEF CallInv, ShapeInv, AnswerInv
  <2>3. calls[d].step = "answer" /\ calls[d].op = "create" => calls'[d].key \in touched' \/ Stored(calls[d].key)'
    <3>1. x = calls'[d].key
      BY <1>1
    <3> QED BY <1>1, <2>2, <3>1 DEF Stored
  <2> QED BY <1>1, <1>6, <2>1, <2>3 DEF CallInv, ShapeInv, WithdrawInv, AnswerInv
<1>8. CheckInv(d)'
  BY <1>1, <1>3 DEF CallInv, ShapeInv, CheckInv, Grows
<1>9. ListInv(d)'
  <2>1. \A y \in issued : y \in Usable' => y \in Usable
    BY <1>2, <1>3 DEF Usable, Grows, Times
  <2> QED BY <1>1, <2>1 DEF CallInv, ListInv, Grows
<1> QED BY <1>4, <1>5, <1>7, <1>8, <1>9 DEF CallInv

\* So a step keeps the invariant if c and k are as they should be after it.
LEMMA AboutOneKey ==
    ASSUME RedisIInv, RedisTypeOK', NEW c \in Callers, NEW k, Others(c), Grows,
           \A x \in Keys \ {k} : Untouched(x), k \in used => expiry'[k] = expiry[k],
           \A d \in Callers \ {c} :
              Creating(d) => calls[d].key # k /\ calls'[c].key # calls[d].key,
           \/ Alone(c, k)
           \/ k \in Keys => /\ ~hashes[k].enabled => ~hashes'[k].enabled
                            /\ Stored(k) => k \in touched' \/ Stored(k)',
           k \in Keys => KeyInv(k)', CallInv(c)', WithdrawnStaysOut', IssuedStaysUsable'
    PROVE  RedisIInv'
<1>1. ASSUME NEW d \in Callers \ {c} PROVE CallInv(d)'
  <2>1. calls'[d] = calls[d]
    BY DEF Others
  <2>2. Creating(d) => \A e \in Callers \ {d} : calls[e].key # calls[d].key
    BY DEF RedisIInv, CallInv, CreateInv
  <2>3. Creating(d) => \A e \in Callers \ {d} : calls'[e].key # calls[d].key
    BY <2>2 DEF Others
  <2>4. \/ calls[d].key # k
        \/ k \in Keys => /\ ~hashes[k].enabled => ~hashes'[k].enabled
                         /\ Stored(k) => k \in touched' \/ Stored(k)'
    BY DEF Alone
  <2> QED BY <2>1, <2>3, <2>4, OthersKeep
<1>2. ASSUME NEW x \in Keys \ {k} PROVE KeyInv(x)'
  BY <1>2 DEF RedisIInv, KeyInv, Untouched, Stored, Grows
<1> QED BY <1>1, <1>2 DEF RedisIInv

\* A caller that has nothing to do knows nothing.
LEMMA IdleKeeps == ASSUME NEW c, calls'[c] = Idle PROVE CallInv(c)'
BY IdleTyped, ApiKeysAssumption
   DEF CallInv, ShapeInv, CreateInv, Creating, Doing, WithdrawInv, AnswerInv, CheckInv, ListInv,
       Idle, Call

\* A step that changes no key, and tells nobody about one; a withdrawal may begin.
QuietStep ==
    /\ UNCHANGED <<hashes, index, now, used, issued, withdrawn, expiry>>
    /\ touched \subseteq touched' /\ touched' \subseteq used
LEMMA QuietHolds ==
    ASSUME RedisIInv, NEW c \in Callers, QuietStep, NEW new \in Calls,
           calls' = [calls EXCEPT ![c] = new], CallInv(c)', reply' \in Replies,
           reply'.ok => ~reply'.barred, reply'.missed = {},
           \A d \in Callers \ {c} : Creating(d) => new.key # calls[d].key
    PROVE  RedisIInv'
<1>1. /\ calls \in [Callers -> Calls] /\ now \in Int
      /\ \A d \in Callers : Creating(d) => calls[d].key \in Keys
  BY DEF RedisIInv, RedisTypeOK, SharedTypeOK, CallInv, ShapeInv, Creating, Doing
<1>2. calls' \in [Callers -> Calls] /\ calls'[c] = new /\ Others(c)
  BY <1>1 DEF Others
<1>3. RedisTypeOK'
  BY <1>2 DEF RedisIInv, RedisTypeOK, SharedTypeOK, QuietStep
<1>4. Grows /\ \A x \in Keys : Untouched(x)
  BY <1>1 DEF Grows, Untouched, QuietStep
<1>5. NoKey \notin Keys /\ NoKey \notin used
  BY ApiKeysAssumption DEF RedisIInv, RedisTypeOK, SharedTypeOK
<1>6. \A d \in Callers \ {c} : Creating(d) => calls[d].key # NoKey /\ calls'[c].key # calls[d].key
  BY <1>1, <1>2, <1>5
<1>7. WithdrawnStaysOut' /\ IssuedStaysUsable'
  BY DEF WithdrawnStaysOut, IssuedStaysUsable
<1> QED BY <1>2, <1>3, <1>4, <1>5, <1>6, <1>7, AboutOneKey

\* A call that ends tells nobody a lie.
LEMMA EndHolds ==
    ASSUME RedisIInv, NEW c \in Callers, QuietStep, calls' = [calls EXCEPT ![c] = Idle],
           reply' \in Replies, reply'.ok => ~reply'.barred, reply'.missed = {}
    PROVE  RedisIInv'
<1>1. calls \in [Callers -> Calls]
  BY DEF RedisIInv, RedisTypeOK, SharedTypeOK
<1>2. calls'[c] = Idle
  BY <1>1
<1>3. \A d \in Callers \ {c} : Creating(d) => Idle.key # calls[d].key
  BY IdleTyped, ApiKeysAssumption DEF RedisIInv, CallInv, ShapeInv, Creating, Doing
<1> QED BY <1>2, <1>3, IdleTyped, IdleKeeps, QuietHolds

\* Nobody is told anything.
LEMMA SilenceTyped == NoReply \in Replies /\ ~NoReply.ok /\ NoReply.missed = {}
BY DEF NoReply, Replies

\* The hash of a key that has to be accepted is there.
LEMMA UsableExists ==
    ASSUME RedisIInv, NEW k \in Usable
    PROVE  k \in Keys /\ Stored(k) /\ Exists(k)
<1>1. k \in Keys /\ k \in issued \ touched /\ now < expiry[k]
  BY DEF Usable, RedisIInv, RedisTypeOK, SharedTypeOK
<1>2. Stored(k)
  BY <1>1 DEF RedisIInv, KeyInv
<1>3. /\ hashes[k] \in Records /\ expiry[k] \in Nat /\ now \in Int
  BY <1>1 DEF RedisIInv, RedisTypeOK, SharedTypeOK, Times
<1>4. hashes[k] # NoRecord
  BY <1>2, RecordsTyped DEF Stored
<1>5. now < hashes[k].dies
  BY <1>1, <1>2, <1>3 DEF Stored, Records, Times
<1> QED BY <1>1, <1>2, <1>4, <1>5 DEF Exists

\* Redis could not be reached: the call ends.
LEMMA UnavailableHolds ==
    ASSUME RedisIInv, NEW c \in Callers, Unavailable(c), UNCHANGED <<hashes, index>>
    PROVE  RedisIInv'
<1>1. QuietStep /\ calls' = [calls EXCEPT ![c] = Idle] /\ reply' = NoReply
  BY DEF Unavailable, Become, QuietStep, RedisIInv, RedisTypeOK, SharedTypeOK
<1> QED BY <1>1, EndHolds, SilenceTyped

\* A lookup that ends with nothing to reproach.
LEMMA RedisReportHolds ==
    ASSUME RedisIInv, NEW c \in Callers, NEW ok \in BOOLEAN, NEW barred \in BOOLEAN, ok => ~barred,
           Report(c, ok, barred, {}), UNCHANGED <<hashes, index>>
    PROVE  RedisIInv'
<1>1. QuietStep /\ calls' = [calls EXCEPT ![c] = Idle]
  BY DEF Report, QuietStep, RedisIInv, RedisTypeOK, SharedTypeOK
<1>2. reply' \in Replies /\ reply'.ok = ok /\ reply'.barred = barred /\ reply'.missed = {}
  BY DEF Report, Replies
<1> QED BY <1>1, <1>2, EndHolds

\* A check: a disabled record is refused, one that is owed is active.
LEMMA RedisCheckHolds ==
    ASSUME RedisIInv, NEW c \in Callers, Check(c), UNCHANGED <<hashes, index>>
    PROVE  RedisIInv'
<1> DEFINE ok == Active(calls[c].rec)
           missed == IF ok THEN {} ELSE calls[c].due \cap Usable
<1>1. calls[c] \in Calls /\ calls[c].step = "check" /\ CheckInv(c)
  BY DEF RedisIInv, RedisTypeOK, SharedTypeOK, Check, CallInv
<1>2. calls[c].barred \in BOOLEAN /\ calls[c].rec \in Records
  BY <1>1 DEF Calls
<1>3. ok \in BOOLEAN
  BY <1>2 DEF Active, Records
<1>4. missed = {}
  <2> SUFFICES ASSUME NEW k \in calls[c].due, k \in Usable PROVE ok
    OBVIOUS
  <2>1. k = calls[c].key /\ k \notin touched /\ now < expiry[k]
    BY <1>1 DEF CheckInv, Usable
  <2>2. calls[c].rec.enabled /\ calls[c].rec.expires = expiry[k]
    BY <1>1, <2>1 DEF CheckInv
  <2>3. now \in Int /\ expiry[k] \in Int
    BY UsableExists DEF RedisIInv, RedisTypeOK, SharedTypeOK, Times
  <2> QED BY <2>1, <2>2, <2>3 DEF Active
<1>5. ok => ~calls[c].barred
  BY <1>1 DEF CheckInv, Active
<1>6. Report(c, ok, calls[c].barred, missed)
  BY DEF Check
<1> HIDE DEF ok, missed
<1> QED BY <1>2, <1>3, <1>4, <1>5, <1>6, RedisReportHolds

\* HGETALL of a verification reads a disabled hash if the key was withdrawn, a sound one if it is owed.
LEMMA RedisAuthenticateHolds ==
    ASSUME RedisIInv, NEW c \in Callers, RedisAuthenticate(c), UNCHANGED <<hashes, index>>
    PROVE  RedisIInv'
<1>1. PICK k \in issued :
        IF Exists(k) THEN Verified(c, k, hashes[k]) ELSE Unverified(c, k)
  BY DEF RedisAuthenticate
<1>2. k \in used /\ k \in Keys /\ hashes[k] \in Records /\ Usable \subseteq Keys /\ KeyInv(k)
  BY DEF RedisIInv, RedisTypeOK, SharedTypeOK, Usable
<1>3. CASE ~Exists(k)
  <2>1. Usable \cap {k} = {}
    BY <1>3, UsableExists
  <2>2. Report(c, FALSE, FALSE, {})
    BY <1>1, <1>3, <2>1 DEF Unverified
  <2> QED BY <2>2, RedisReportHolds
<1>4. CASE Exists(k)
  <2> DEFINE late == k \in withdrawn
             due == Usable \cap {k}
             new == [Call("authenticate", k, "check", hashes[k]) EXCEPT
                       !.due = due, !.barred = late]
  <2>0. late \in BOOLEAN /\ due \in SUBSET Keys /\ due \subseteq {k}
    BY <1>2
  <2>1. late => ~hashes[k].enabled
    BY <1>2 DEF KeyInv
  <2>2. k \in touched \/ (hashes[k].enabled /\ hashes[k].expires = expiry[k])
    BY <1>2 DEF KeyInv, Stored
  <2>3. /\ calls' = [calls EXCEPT ![c] = new] /\ reply' = NoReply
        /\ UNCHANGED <<now, used, issued, touched, withdrawn, expiry>>
    BY <1>1, <1>4 DEF Verified, Become
  <2> HIDE DEF late, due
  <2>4. /\ new \in Calls /\ new.op = "authenticate" /\ new.key = k
        /\ new.step = "check" /\ new.rec = hashes[k] /\ new.barred = late /\ new.due = due
    BY <1>2, <2>0, RecordsTyped DEF Calls, Ops, Call, Lifetimes
  <2> HIDE DEF new
  <2>5. QuietStep
    BY <2>3 DEF QuietStep, RedisIInv, RedisTypeOK, SharedTypeOK
  <2>6. calls'[c] = new
    BY <2>3, <2>4 DEF RedisIInv, RedisTypeOK, SharedTypeOK
  <2>7. CallInv(c)'
    <3>1. ShapeInv(c)' /\ CreateInv(c)' /\ WithdrawInv(c)' /\ AnswerInv(c)' /\ ListInv(c)'
      BY <1>2, <2>3, <2>4, <2>6, ApiKeysAssumption
         DEF ShapeInv, CreateInv, Creating, Doing, WithdrawInv, AnswerInv, ListInv
    <3>2. CheckInv(c)'
      BY <2>0, <2>1, <2>2, <2>3, <2>4, <2>6 DEF CheckInv
    <3> QED BY <3>1, <3>2 DEF CallInv
  <2>8. \A d \in Callers \ {c} : Creating(d) => new.key # calls[d].key
    BY <2>4 DEF RedisIInv, CallInv, CreateInv
  <2> QED BY <2>3, <2>4, <2>5, <2>7, <2>8, SilenceTyped, QuietHolds
<1> QED BY <1>3, <1>4

\* SMEMBERS names every key the listing owes.
LEMMA ListMembersHolds ==
    ASSUME RedisIInv, NEW c \in Callers, ListMembers(c), UNCHANGED <<hashes, index>>
    PROVE  RedisIInv'
<1> DEFINE due == Usable
           new == [Call("list", NoKey, "read", Record(Never, Never)) EXCEPT
                     !.todo = index, !.due = due]
<1>1. index \subseteq Keys /\ due \subseteq index /\ due \subseteq issued /\ due \subseteq Keys
  BY UsableExists DEF Stored, Usable, RedisIInv, RedisTypeOK, SharedTypeOK
<1>2. /\ calls' = [calls EXCEPT ![c] = new] /\ reply' = NoReply
      /\ UNCHANGED <<now, used, issued, touched, withdrawn, expiry>>
  BY DEF ListMembers, Become
<1> HIDE DEF due
<1>3. Record(Never, Never) \in Records
  BY RecordsTyped
<1>4. /\ new \in Calls /\ new.op = "list" /\ new.key = NoKey /\ new.step = "read"
      /\ new.todo = index /\ new.due = due
  BY <1>1, <1>3, RecordsTyped DEF Calls, Ops, Call, Lifetimes
<1> HIDE DEF new
<1>5. QuietStep
  BY <1>2 DEF QuietStep, RedisIInv, RedisTypeOK, SharedTypeOK
<1>6. calls'[c] = new
  BY <1>2, <1>4 DEF RedisIInv, RedisTypeOK, SharedTypeOK
<1>7. CallInv(c)'
  BY <1>1, <1>2, <1>4, <1>6, ApiKeysAssumption
     DEF CallInv, ShapeInv, CreateInv, Creating, Doing, WithdrawInv, AnswerInv, CheckInv, ListInv
<1>8. \A d \in Callers \ {c} : Creating(d) => new.key # calls[d].key
  BY <1>4, ApiKeysAssumption DEF RedisIInv, CallInv, ShapeInv, Creating, Doing
<1> QED BY <1>2, <1>4, <1>5, <1>7, <1>8, SilenceTyped, QuietHolds

\* An HGETALL of a listing shows the key, unless it is not owed.
LEMMA ListGetHolds ==
    ASSUME RedisIInv, NEW c \in Callers, ListGet(c), UNCHANGED <<hashes, index>>
    PROVE  RedisIInv'
<1>1. PICK k \in calls[c].todo :
        Become(c, [calls[c] EXCEPT
             !.todo = @ \ {k},
             !.shown = IF Exists(k) THEN @ \cup {k} ELSE @,
             !.rec.whole = @ /\ (Exists(k) => hashes[k].whole)])
  BY DEF ListGet
<1> DEFINE shown == IF Exists(k) THEN calls[c].shown \cup {k} ELSE calls[c].shown
           whole == calls[c].rec.whole /\ (Exists(k) => hashes[k].whole)
           new == [calls[c] EXCEPT !.todo = @ \ {k}, !.shown = shown, !.rec.whole = whole]
<1>2. /\ calls[c] \in Calls /\ calls[c].op = "list" /\ calls[c].step = "read"
      /\ ListInv(c)
  BY DEF ListGet, Doing, RedisIInv, RedisTypeOK, SharedTypeOK, CallInv
<1>3. k \in Keys /\ calls[c].shown \subseteq Keys /\ shown \subseteq Keys /\ calls[c].shown \subseteq shown
  BY <1>2 DEF Calls
<1>4. whole \in BOOLEAN
  BY <1>2, <1>3 DEF Calls, Records, RedisIInv, RedisTypeOK
<1>5. k \in Usable => k \in shown
  BY UsableExists
<1>6. calls' = [calls EXCEPT ![c] = new] /\ reply' = NoReply
  BY <1>1 DEF Become
<1>7. UNCHANGED <<now, used, issued, touched, withdrawn, expiry>>
  BY <1>1 DEF Become, ListGet
<1> HIDE DEF shown, whole
<1>8. [calls[c].rec EXCEPT !.whole = whole] \in Records
  BY <1>2, <1>4 DEF Calls, Records
<1>9. /\ new \in Calls /\ new.op = "list" /\ new.key = calls[c].key /\ new.step = "read"
      /\ new.todo = calls[c].todo \ {k} /\ new.shown = shown /\ new.due = calls[c].due
  BY <1>2, <1>3, <1>8 DEF Calls
<1> HIDE DEF new
<1>10. QuietStep
  BY <1>7 DEF QuietStep, RedisIInv, RedisTypeOK, SharedTypeOK
<1>11. calls'[c] = new
  BY <1>6, <1>9 DEF RedisIInv, RedisTypeOK, SharedTypeOK
<1>12. ListInv(c)'
  <2>1. Usable' = Usable
    BY <1>7 DEF Usable
  <2> QED BY <1>2, <1>3, <1>5, <1>7, <1>9, <1>11, <2>1 DEF ListInv
<1>13. CallInv(c)'
  BY <1>2, <1>9, <1>11, <1>12, ApiKeysAssumption
     DEF CallInv, ShapeInv, CreateInv, Creating, Doing, WithdrawInv, AnswerInv, CheckInv, ListInv
<1>14. \A d \in Callers \ {c} : Creating(d) => new.key # calls[d].key
  BY <1>2, <1>9, ApiKeysAssumption DEF RedisIInv, CallInv, ShapeInv, Creating, Doing, ListInv
<1> QED BY <1>6, <1>9, <1>10, <1>13, <1>14, SilenceTyped, QuietHolds

\* A listing that has looked at everything has shown what it owes, if it does not fail.
LEMMA ListDoneHolds ==
    ASSUME RedisIInv, NEW c \in Callers, ListDone(c), UNCHANGED <<hashes, index>>
    PROVE  RedisIInv'
<1>1. CASE Sortable(c)
  <2>1. (calls[c].due \cap Usable) \ calls[c].shown = {}
    BY DEF ListDone, Doing, RedisIInv, CallInv, ListInv
  <2>2. Report(c, TRUE, FALSE, {})
    BY <1>1, <2>1 DEF ListDone
  <2> QED BY <2>2, RedisReportHolds
<1>2. CASE ~Sortable(c)
  <2>1. QuietStep /\ calls' = [calls EXCEPT ![c] = Idle] /\ reply' = NoReply
    BY <1>2 DEF ListDone, Become, QuietStep, RedisIInv, RedisTypeOK, SharedTypeOK
  <2> QED BY <2>1, EndHolds, SilenceTyped
<1> QED BY <1>1, <1>2

\* A revoke that finds its key knows that the key was created.
LEMMA RevokeFoundHolds ==
    ASSUME RedisIInv, NEW c \in Callers, RevokeFound(c), UNCHANGED <<hashes, index>>
    PROVE  RedisIInv'
<1>1. PICK k \in used :
        Touch(k) /\ Become(c, IF Exists(k) THEN Call("revoke", k, "store", NoRecord) ELSE Idle)
  BY DEF RevokeFound
<1> DEFINE new == Call("revoke", k, "store", NoRecord)
<1>2. /\ touched' = touched \cup {k} /\ reply' = NoReply
      /\ UNCHANGED <<now, used, issued, withdrawn, expiry>> /\ QuietStep /\ k \in Keys
  BY <1>1 DEF Touch, Become, QuietStep, RedisIInv, RedisTypeOK, SharedTypeOK
<1>3. CASE ~Exists(k)
  <2>1. calls' = [calls EXCEPT ![c] = Idle]
    BY <1>1, <1>3 DEF Become
  <2> QED BY <1>2, <2>1, EndHolds, SilenceTyped
<1>4. CASE Exists(k)
  <2>1. calls' = [calls EXCEPT ![c] = new]
    BY <1>1, <1>4 DEF Become
  <2>2. /\ new \in Calls /\ new.op = "revoke" /\ new.key = k /\ new.step = "store"
    BY <1>2, RecordsTyped, CallTyped DEF Ops
  <2> HIDE DEF new
  <2>3. calls'[c] = new
    BY <2>1, <2>2 DEF RedisIInv, RedisTypeOK, SharedTypeOK
  <2>4. CallInv(c)'
    BY <1>2, <2>2, <2>3, ApiKeysAssumption
       DEF CallInv, ShapeInv, CreateInv, Creating, Doing, WithdrawInv, AnswerInv, CheckInv, ListInv
  <2>5. \A d \in Callers \ {c} : Creating(d) => new.key # calls[d].key
    BY <1>4, <2>2 DEF RedisIInv, CallInv, CreateInv, Exists
  <2> QED BY <1>2, <2>1, <2>2, <2>4, <2>5, SilenceTyped, QuietHolds
<1> QED BY <1>3, <1>4

\* What a withdrawal or a create promises is true when it is answered.
LEMMA RedisAnswerHolds ==
    ASSUME RedisIInv, NEW c \in Callers, AnswerDone(c), UNCHANGED <<hashes, index>>
    PROVE  RedisIInv'
<1>1. /\ calls[c].step = "answer" /\ CallInv(c) /\ calls \in [Callers -> Calls]
      /\ calls' = [calls EXCEPT ![c] = Idle] /\ reply' = NoReply
      /\ UNCHANGED <<now, used, touched, expiry>>
  BY DEF AnswerDone, RedisIInv, RedisTypeOK, SharedTypeOK
<1>2. PICK k \in Keys : k = calls[c].key /\ k \in used
  BY <1>1 DEF CallInv, ShapeInv
<1>3. \/ /\ calls[c].op = "create" /\ issued' = issued \cup {k} /\ withdrawn' = withdrawn
         /\ k \in touched \/ Stored(k)
      \/ /\ calls[c].op # "create" /\ withdrawn' = withdrawn \cup {k} /\ issued' = issued
         /\ k \in touched /\ ~hashes[k].enabled
  BY <1>1, <1>2 DEF AnswerDone, CallInv, AnswerInv, WithdrawInv
<1>4. calls'[c] = Idle /\ Others(c)
  BY <1>1 DEF Others
<1>5. RedisTypeOK'
  BY <1>1, <1>2, <1>3, IdleTyped, SilenceTyped DEF RedisIInv, RedisTypeOK, SharedTypeOK
<1>6. Grows /\ \A x \in Keys \ {k} : Untouched(x)
  BY <1>1, <1>2, <1>3 DEF Grows, Untouched, RedisIInv, RedisTypeOK, SharedTypeOK
<1>7. \A d \in Callers \ {c} : Creating(d) => calls[d].key # k /\ calls'[c].key # calls[d].key
  BY <1>2, <1>4, IdleTyped, ApiKeysAssumption
     DEF RedisIInv, CallInv, CreateInv, ShapeInv, Creating, Doing
<1>8. Stored(k) => Stored(k)'
  BY <1>1 DEF Stored
<1>9. KeyInv(k)'
  BY <1>1, <1>2, <1>3, <1>8 DEF KeyInv, RedisIInv
<1>10. CallInv(c)'
  BY <1>4, IdleKeeps
<1>11. WithdrawnStaysOut' /\ IssuedStaysUsable'
  BY <1>1, SilenceTyped DEF WithdrawnStaysOut, IssuedStaysUsable
<1> QED BY <1>1, <1>4, <1>5, <1>6, <1>7, <1>8, <1>9, <1>10, <1>11, AboutOneKey

\* A create writes a hash that lives until the key expires.
LEMMA RedisCreateHolds ==
    ASSUME RedisIInv, NEW c \in Callers, RedisCreate(c)
    PROVE  RedisIInv'
<1>1. Creating(c) /\ CallInv(c) /\ calls \in [Callers -> Calls] /\ calls[c] \in Calls
  BY DEF RedisCreate, Creating, RedisIInv, RedisTypeOK, SharedTypeOK
<1>2. PICK k \in Keys : k = calls[c].key /\ k \in used
  BY <1>1 DEF CallInv, ShapeInv, Creating, Doing
<1> DEFINE ttl == calls[c].ttl
           r == Record(calls[c].rec.expires, DropsAt(ttl))
           done == [calls[c] EXCEPT !.step = "answer"]
<1>3. /\ hashes' = [hashes EXCEPT ![k] = r] /\ index' = index \cup {k}
      /\ calls' = [calls EXCEPT ![c] = done] \/ calls' = [calls EXCEPT ![c] = Idle]
      /\ reply' = NoReply /\ UNCHANGED <<now, used, issued, touched, withdrawn, expiry>>
  BY <1>2 DEF RedisCreate, Executed, Become
<1>4. /\ k \notin issued \cup withdrawn /\ calls[c].rec.expires = expiry[k]
      /\ expiry[k] <= ExpiresAt(ttl) /\ Alone(c, k)
  BY <1>1, <1>2 DEF CallInv, CreateInv, Alone
<1>5. DropsAt(ttl) \in Nat /\ ExpiresAt(ttl) <= DropsAt(ttl) /\ expiry[k] \in Nat /\ ExpiresAt(ttl) \in Nat
  <2>1. ttl \in Nat /\ now \in Nat /\ expiry[k] \in Nat
    <3>1. ttl \in Lifetimes /\ now \in 0..MaxTime /\ expiry[k] \in Nat
      BY <1>1 DEF Calls, RedisIInv, RedisTypeOK, SharedTypeOK, Times
    <3>2. ttl \in Nat
      <4> HIDE DEF ttl
      <4> QED BY <3>1, LifetimesTyped
    <3>3. now \in Nat
      BY <3>1
    <3> QED BY <3>1, <3>2, <3>3
  <2> QED BY <2>1, LifetimesTyped DEF DropsAt, Lifetime, ExpiresAt
<1>6. r \in Records /\ r.enabled /\ r.expires = expiry[k] /\ expiry[k] <= r.dies
  BY <1>4, <1>5, RecordsTyped DEF Record, Times
<1>7. /\ done \in Calls /\ done.op = "create" /\ done.step = "answer" /\ done.key = k
  BY <1>1, <1>2 DEF Calls, Creating, Doing
<1> HIDE DEF r, done
<1>8. hashes'[k] = r /\ \A x \in Keys \ {k} : hashes'[x] = hashes[x]
  BY <1>3 DEF RedisIInv, RedisTypeOK
<1>9. Stored(k)'
  BY <1>3, <1>6, <1>8 DEF Stored
<1>10. (calls'[c] = done \/ calls'[c] = Idle) /\ Others(c) /\ calls' \in [Callers -> Calls]
  BY <1>1, <1>3, <1>7, IdleTyped DEF Others
<1>11. RedisTypeOK'
  BY <1>2, <1>3, <1>6, <1>10, SilenceTyped DEF RedisIInv, RedisTypeOK, SharedTypeOK
<1>12. Grows /\ \A x \in Keys \ {k} : Untouched(x)
  BY <1>3, <1>8 DEF Grows, Untouched, RedisIInv, RedisTypeOK, SharedTypeOK
<1>13. \A d \in Callers \ {c} : Creating(d) => calls[d].key # k /\ calls'[c].key # calls[d].key
  BY <1>4, <1>7, <1>10, IdleTyped, ApiKeysAssumption
     DEF RedisIInv, CallInv, ShapeInv, Creating, Doing, Alone
<1>14. KeyInv(k)'
  BY <1>2, <1>3, <1>4 DEF KeyInv
<1>15. CallInv(c)'
  <2>1. CASE calls'[c] = done
    <3>1. calls'[c].key = k /\ (k \in touched' \/ Stored(k)')
      BY <1>7, <1>9, <2>1
    <3>2. AnswerInv(c)'
      BY <1>3, <1>6, <1>7, <1>8, <2>1 DEF AnswerInv, Stored
    <3> QED BY <1>2, <1>3, <1>7, <2>1, <3>2, ApiKeysAssumption
        DEF CallInv, ShapeInv, CreateInv, Creating, Doing, WithdrawInv, CheckInv, ListInv
  <2> QED BY <1>10, <2>1, IdleKeeps
<1>16. WithdrawnStaysOut' /\ IssuedStaysUsable'
  BY <1>3, SilenceTyped DEF WithdrawnStaysOut, IssuedStaysUsable
<1> QED BY <1>3, <1>4, <1>10, <1>11, <1>12, <1>13, <1>14, <1>15, <1>16, AboutOneKey

\* A delete removes the hash and the entry in the index; a key that is still being
\* created has neither.
LEMMA RedisDeleteHolds ==
    ASSUME RedisIInv, NEW c \in Callers, RedisDelete(c)
    PROVE  RedisIInv'
<1>1. PICK k \in used :
        /\ Free(c) /\ Touch(k)
        /\ hashes' = [hashes EXCEPT ![k] = NoRecord] /\ index' = index \ {k}
        /\ Executed(c, IF Exists(k) THEN Call("delete", k, "answer", NoRecord) ELSE Idle)
  BY DEF RedisDelete
<1> DEFINE done == Call("delete", k, "answer", NoRecord)
<1>2. /\ calls' = [calls EXCEPT ![c] = Idle] \/ (Exists(k) /\ calls' = [calls EXCEPT ![c] = done])
      /\ reply' = NoReply /\ touched' = touched \cup {k}
      /\ UNCHANGED <<now, used, issued, withdrawn, expiry>>
  BY <1>1 DEF Executed, Become, Touch
<1>3. /\ k \in Keys /\ calls \in [Callers -> Calls] /\ hashes \in [Keys -> Records]
      /\ index \subseteq used /\ used \subseteq Keys /\ touched \subseteq used
  BY DEF RedisIInv, RedisTypeOK, SharedTypeOK
<1>4. CASE \E d \in Callers : Creating(d) /\ calls[d].key = k
  <2>1. hashes[k] = NoRecord /\ k \notin index
    BY <1>4 DEF RedisIInv, CallInv, CreateInv
  <2>2. hashes' = hashes /\ index' = index /\ ~Exists(k)
    BY <1>1, <1>3, <2>1 DEF Exists
  <2>3. QuietStep
    BY <1>2, <1>3, <2>2 DEF QuietStep
  <2> QED BY <1>2, <2>2, <2>3, SilenceTyped, EndHolds
<1>5. CASE \A d \in Callers : Creating(d) => calls[d].key # k
  <2>1. /\ done \in Calls /\ done.op = "delete" /\ done.key = k /\ done.step = "answer"
    BY <1>3, RecordsTyped, CallTyped DEF Ops
  <2> HIDE DEF done
  <2>2. (calls'[c] = done \/ calls'[c] = Idle) /\ Others(c) /\ calls' \in [Callers -> Calls]
    BY <1>2, <1>3, <2>1, IdleTyped DEF Others
  <2>3. hashes'[k] = NoRecord /\ \A x \in Keys \ {k} : hashes'[x] = hashes[x]
    BY <1>1, <1>3
  <2>4. RedisTypeOK'
    BY <1>1, <1>2, <1>3, <2>2, SilenceTyped, RecordsTyped
       DEF RedisIInv, RedisTypeOK, SharedTypeOK
  <2>5. Grows /\ \A x \in Keys \ {k} : Untouched(x)
    BY <1>1, <1>2, <2>3 DEF Grows, Untouched, RedisIInv, RedisTypeOK, SharedTypeOK
  <2>6. \A d \in Callers \ {c} : Creating(d) => calls[d].key # k /\ calls'[c].key # calls[d].key
    BY <1>5, <2>1, <2>2, IdleTyped, ApiKeysAssumption
       DEF RedisIInv, CallInv, ShapeInv, Creating, Doing
  <2>7. ~hashes'[k].enabled /\ k \in touched'
    BY <1>2, <2>3, RecordsTyped
  <2>8. KeyInv(k)'
    BY <1>2, <2>3, <2>7 DEF KeyInv
  <2>9. CallInv(c)'
    <3>1. CASE calls'[c] = done
      BY <1>1, <1>2, <1>3, <2>1, <2>7, <3>1, ApiKeysAssumption
         DEF CallInv, ShapeInv, CreateInv, Creating, Doing, WithdrawInv, AnswerInv, CheckInv, ListInv
    <3> QED BY <2>2, <3>1, IdleKeeps
  <2>10. WithdrawnStaysOut' /\ IssuedStaysUsable'
    BY <1>2, SilenceTyped DEF WithdrawnStaysOut, IssuedStaysUsable
  <2> QED BY <1>2, <2>2, <2>4, <2>5, <2>6, <2>7, <2>8, <2>9, <2>10, AboutOneKey
<1> QED BY <1>4, <1>5

\* A revoke leaves a disabled hash, whatever it finds.
LEMMA RevokeSetHolds ==
    ASSUME RedisIInv, NEW c \in Callers, RevokeSet(c)
    PROVE  RedisIInv'
<1>1. /\ Doing(c, "revoke", "store") /\ CallInv(c) /\ calls \in [Callers -> Calls]
      /\ calls[c] \in Calls
  BY DEF RevokeSet, RedisIInv, RedisTypeOK, SharedTypeOK
<1>2. PICK k \in Keys : k = calls[c].key /\ k \in used /\ k \in touched
  BY <1>1 DEF CallInv, ShapeInv, WithdrawInv, Doing
<1> DEFINE r == Revoked(k)
           done == [calls[c] EXCEPT !.step = "answer"]
<1>3. /\ hashes' = [hashes EXCEPT ![k] = r] /\ index' = index
      /\ calls' = [calls EXCEPT ![c] = done] \/ calls' = [calls EXCEPT ![c] = Idle]
      /\ reply' = NoReply /\ UNCHANGED <<now, used, issued, touched, withdrawn, expiry>>
  BY <1>2 DEF RevokeSet, Executed, Become
<1>4. hashes \in [Keys -> Records]
  BY DEF RedisIInv, RedisTypeOK
<1>5. r \in Records /\ ~r.enabled
  <2>1. hashes[k] \in Records /\ Never \in Times
    BY <1>4, RecordsTyped
  <2> QED BY <2>1 DEF Revoked, Records
<1>6. /\ done \in Calls /\ done.op = "revoke" /\ done.step = "answer" /\ done.key = k
  BY <1>1, <1>2 DEF Calls, Doing
<1> HIDE DEF r, done
<1>7. hashes'[k] = r /\ \A x \in Keys \ {k} : hashes'[x] = hashes[x]
  BY <1>3, <1>4
<1>8. (calls'[c] = done \/ calls'[c] = Idle) /\ Others(c) /\ calls' \in [Callers -> Calls]
  BY <1>1, <1>3, <1>6, IdleTyped DEF Others
<1>9. RedisTypeOK'
  BY <1>2, <1>3, <1>5, <1>8, SilenceTyped DEF RedisIInv, RedisTypeOK, SharedTypeOK
<1>10. Grows /\ \A x \in Keys \ {k} : Untouched(x)
  BY <1>3, <1>7 DEF Grows, Untouched, RedisIInv, RedisTypeOK, SharedTypeOK
<1>11. \A d \in Callers \ {c} : Creating(d) => calls[d].key # k
  BY <1>2 DEF RedisIInv, CallInv, CreateInv
<1>12. \A d \in Callers \ {c} : Creating(d) => calls[d].key # k /\ calls'[c].key # calls[d].key
  BY <1>6, <1>8, <1>11, IdleTyped, ApiKeysAssumption
     DEF RedisIInv, CallInv, ShapeInv, Creating, Doing
<1>13. KeyInv(k)'
  BY <1>2, <1>3, <1>5, <1>7 DEF KeyInv
<1>14. CallInv(c)'
  <2>1. CASE calls'[c] = done
    BY <1>2, <1>3, <1>5, <1>6, <1>7, <2>1, ApiKeysAssumption
       DEF CallInv, ShapeInv, CreateInv, Creating, Doing, WithdrawInv, AnswerInv, CheckInv, ListInv
  <2> QED BY <1>8, <2>1, IdleKeeps
<1>15. WithdrawnStaysOut' /\ IssuedStaysUsable'
  BY <1>3, SilenceTyped DEF WithdrawnStaysOut, IssuedStaysUsable
<1> QED
  BY <1>2, <1>3, <1>5, <1>7, <1>8, <1>9, <1>10, <1>12, <1>13, <1>14, <1>15, AboutOneKey

\* A create begins with a key of which there is no trace.
LEMMA RedisBeginCreateHolds ==
    ASSUME RedisIInv, NEW c \in Callers, BeginCreate(c), UNCHANGED <<hashes, index>>
    PROVE  RedisIInv'
<1>1. PICK k \in Keys \ used, ttl \in Lifetimes :
      /\ Free(c)
      /\ calls' = [calls EXCEPT ![c] =
            [Call("create", k, "store", Record(ExpiresAt(ttl), Never)) EXCEPT !.ttl = ttl]]
      /\ used' = used \cup {k}
      /\ expiry' = [expiry EXCEPT ![k] = ExpiresAt(ttl)]
      /\ reply' = NoReply
      /\ UNCHANGED <<now, issued, touched, withdrawn>>
  BY DEF BeginCreate
<1> DEFINE told == ExpiresAt(ttl)
           r == Record(told, Never)
           new == [Call("create", k, "store", r) EXCEPT !.ttl = ttl]
<1>2. /\ now \in 0..MaxTime /\ calls \in [Callers -> Calls] /\ expiry \in [Keys -> Times]
      /\ issued \subseteq used /\ touched \subseteq used /\ withdrawn \subseteq used
      /\ index \subseteq used /\ KeyInv(k)
  BY <1>1 DEF RedisIInv, RedisTypeOK, SharedTypeOK
<1>3. told \in Nat /\ told' = told
  BY <1>1, <1>2, LifetimesTyped DEF ExpiresAt
<1>4. r \in Records /\ r.expires = told
  BY <1>3, RecordsTyped DEF Record, Times
<1> HIDE DEF r
<1>5. /\ new \in Calls /\ new.op = "create" /\ new.key = k /\ new.step = "store"
      /\ new.rec = r /\ new.ttl = ttl
  BY <1>1, <1>4, RecordsTyped DEF Calls, Ops, Call
<1>6. calls' = [calls EXCEPT ![c] = new] /\ expiry' = [expiry EXCEPT ![k] = told]
  BY <1>1 DEF r
<1> HIDE DEF new
<1>7. calls'[c] = new /\ Others(c) /\ calls' \in [Callers -> Calls]
  BY <1>2, <1>5, <1>6 DEF Others
<1>8. expiry'[k] = told /\ expiry' \in [Keys -> Times] /\ \A x \in Keys \ {k} : expiry'[x] = expiry[x]
  BY <1>2, <1>3, <1>6 DEF Times
<1>9. RedisTypeOK'
  BY <1>1, <1>7, <1>8, SilenceTyped DEF RedisIInv, RedisTypeOK, SharedTypeOK
<1>10. Grows /\ \A x \in Keys \ {k} : Untouched(x)
  BY <1>1, <1>2, <1>8 DEF Grows, Untouched
<1>11. \A d \in Callers : calls[d].key # k
  BY <1>1 DEF RedisIInv, CallInv, ShapeInv
<1>12. KeyInv(k)'
  BY <1>1, <1>2 DEF KeyInv
<1>13. CallInv(c)'
  <2>1. CreateInv(c)'
    <3>1. k \notin issued' \cup withdrawn' /\ hashes'[k] = NoRecord /\ k \notin index'
      BY <1>1, <1>2 DEF KeyInv
    <3>2. ExpiresAt(calls[c].ttl)' = told
      BY <1>1, <1>5, <1>7 DEF ExpiresAt
    <3>3. \A d \in Callers \ {c} : calls'[d].key # k
      BY <1>7, <1>11 DEF Others
    <3> HIDE DEF told
    <3> QED BY <1>3, <1>4, <1>5, <1>7, <1>8, <3>1, <3>2, <3>3 DEF CreateInv
  <2>2. k \in Keys /\ k \in used'
    BY <1>1
  <2>3. ShapeInv(c)'
    BY <1>5, <1>7, <2>2, ApiKeysAssumption DEF ShapeInv
  <2> QED BY <1>5, <1>7, <2>1, <2>3 DEF CallInv, WithdrawInv, AnswerInv, CheckInv, ListInv
<1>14. WithdrawnStaysOut' /\ IssuedStaysUsable'
  BY <1>1, SilenceTyped DEF WithdrawnStaysOut, IssuedStaysUsable
<1> QED
  BY <1>1, <1>5, <1>7, <1>9, <1>10, <1>11, <1>12, <1>13, <1>14, AboutOneKey DEF Alone

\* Time takes nothing away from what is stored; what has expired is owed no more.
LEMMA RedisTickHolds == RedisIInv /\ Tick /\ UNCHANGED <<hashes, index>> => RedisIInv'
<1> SUFFICES ASSUME RedisIInv, Tick, UNCHANGED <<hashes, index>> PROVE RedisIInv'
  OBVIOUS
<1>1. /\ now \in 0..MaxTime /\ now < MaxTime /\ now' = now + 1 /\ reply' = NoReply
      /\ UNCHANGED <<calls, used, issued, touched, withdrawn, expiry>>
  BY DEF Tick, RedisIInv, RedisTypeOK, SharedTypeOK
<1>2. now' \in 0..MaxTime /\ now <= now'
  BY <1>1, ApiKeysAssumption
<1>3. RedisTypeOK'
  BY <1>1, <1>2, SilenceTyped DEF RedisIInv, RedisTypeOK, SharedTypeOK
<1>4. Grows /\ \A x \in Keys : Untouched(x)
  BY <1>1, <1>2 DEF Grows, Untouched
<1>5. NoKey \notin Keys /\ NoKey \notin used
  BY ApiKeysAssumption DEF RedisIInv, RedisTypeOK, SharedTypeOK
<1>6. ASSUME NEW d \in Callers PROVE CallInv(d)'
  <2>1. Creating(d) => /\ calls[d].key # NoKey
                       /\ \A e \in Callers \ {d} : calls'[e].key # calls[d].key
    BY <1>1, <1>5 DEF RedisIInv, CallInv, CreateInv, ShapeInv, Creating, Doing
  <2>2. calls'[d] = calls[d]
    BY <1>1
  <2> QED BY <1>3, <1>4, <1>5, <2>1, <2>2, OthersKeep
<1>7. \A k \in Keys : KeyInv(k)'
  BY <1>1 DEF RedisIInv, KeyInv, Stored
<1>8. WithdrawnStaysOut' /\ IssuedStaysUsable'
  BY <1>1, SilenceTyped DEF WithdrawnStaysOut, IssuedStaysUsable
<1> QED BY <1>3, <1>6, <1>7, <1>8 DEF RedisIInv

\* A crash of a worker loses its calls only.
LEMMA LoseCallsHolds == RedisIInv /\ LoseCalls /\ UNCHANGED <<hashes, index>> => RedisIInv'
<1> SUFFICES ASSUME RedisIInv, LoseCalls, UNCHANGED <<hashes, index>> PROVE RedisIInv'
  OBVIOUS
<1>1. /\ calls' = [c \in Callers |-> Idle] /\ reply' = NoReply
      /\ UNCHANGED <<now, used, issued, touched, withdrawn, expiry>>
  BY DEF LoseCalls
<1>2. RedisTypeOK'
  BY <1>1, IdleTyped, SilenceTyped DEF RedisIInv, RedisTypeOK, SharedTypeOK
<1>3. \A c \in Callers : CallInv(c)'
  BY <1>1, IdleKeeps
<1>4. \A k \in Keys : KeyInv(k)'
  BY <1>1 DEF RedisIInv, KeyInv, Stored
<1>5. WithdrawnStaysOut' /\ IssuedStaysUsable'
  BY <1>1, SilenceTyped DEF WithdrawnStaysOut, IssuedStaysUsable
<1> QED BY <1>2, <1>3, <1>4, <1>5 DEF RedisIInv

\* A new deployment has no keys.
LEMMA RedisInitHolds == RedisInit => RedisIInv
<1> SUFFICES ASSUME RedisInit PROVE RedisIInv
  OBVIOUS
<1> USE DEF RedisInit, SharedInit
<1>1. RedisTypeOK
  BY RecordsTyped, IdleTyped, SilenceTyped, ApiKeysAssumption
     DEF RedisTypeOK, SharedTypeOK, Times
<1>2. ASSUME NEW c \in Callers PROVE CallInv(c)
  BY IdleTyped, ApiKeysAssumption
     DEF CallInv, ShapeInv, CreateInv, Creating, Doing, WithdrawInv, AnswerInv, CheckInv, ListInv,
         Idle, Call
<1>3. \A k \in Keys : KeyInv(k)
  BY DEF KeyInv
<1>4. WithdrawnStaysOut /\ IssuedStaysUsable
  BY SilenceTyped DEF WithdrawnStaysOut, IssuedStaysUsable
<1> QED BY <1>1, <1>2, <1>3, <1>4 DEF RedisIInv

\* Every step of the Redis store keeps the invariant.
LEMMA RedisStepHolds == RedisIInv /\ [RedisNext]_redisVars => RedisIInv'
<1> SUFFICES ASSUME RedisIInv, [RedisNext]_redisVars PROVE RedisIInv'
  OBVIOUS
<1>1. ASSUME NEW c \in Callers, RedisCreate(c) \/ RedisDelete(c) \/ RevokeSet(c)
      PROVE  RedisIInv'
  BY <1>1, RedisCreateHolds, RedisDeleteHolds, RevokeSetHolds
<1>2. CASE (Tick \/ LoseCalls) /\ UNCHANGED <<hashes, index>>
  BY <1>2, RedisTickHolds, LoseCallsHolds
<1>3. ASSUME NEW c \in Callers, UNCHANGED <<hashes, index>>,
             \/ BeginCreate(c) \/ RevokeFound(c) \/ RedisAuthenticate(c) \/ Check(c)
             \/ ListMembers(c) \/ ListGet(c) \/ ListDone(c)
             \/ AnswerDone(c) \/ Unavailable(c)
      PROVE  RedisIInv'
  BY <1>3, RedisBeginCreateHolds, RevokeFoundHolds, RedisAuthenticateHolds, RedisCheckHolds,
     ListMembersHolds, ListGetHolds, ListDoneHolds, RedisAnswerHolds, UnavailableHolds
<1>4. CASE UNCHANGED redisVars
  <2>1. UNCHANGED <<now, calls, reply, used, issued, touched, withdrawn, expiry, hashes, index>>
    BY <1>4 DEF redisVars, shared, outside
  <2>2. RedisTypeOK' /\ \A k \in Keys : KeyInv(k)'
    BY <2>1 DEF RedisIInv, RedisTypeOK, SharedTypeOK, KeyInv, Stored
  <2>3. ASSUME NEW c \in Callers PROVE CallInv(c)'
    BY <2>1 DEF RedisIInv, CallInv, ShapeInv, CreateInv, Creating, Doing, WithdrawInv, AnswerInv,
       CheckInv, ListInv, Stored, ExpiresAt, Usable
  <2>4. WithdrawnStaysOut' /\ IssuedStaysUsable'
    BY <2>1 DEF RedisIInv, WithdrawnStaysOut, IssuedStaysUsable
  <2> QED BY <2>2, <2>3, <2>4 DEF RedisIInv
<1> QED BY <1>1, <1>2, <1>3, <1>4 DEF RedisNext

(***************************************************************************)
(* The store that was chosen at startup: its invariant holds, whichever it *)
(* is, and the other store is never used.                                  *)
(***************************************************************************)
ChosenInv ==
    /\ backend = "memory" => KeptInv
    /\ backend = "redis" => RedisIInv
    /\ WithdrawnStaysOut /\ IssuedStaysUsable

\* A run begins with either store, empty.
LEMMA ChosenInit == StoresInit => ChosenInv
<1>1. StoresInit => KeptInv /\ RedisIInv
  BY InitHolds, InitPromised, RedisInitHolds DEF StoresInit, KeptInv
<1> QED BY <1>1 DEF ChosenInv, RedisIInv

\* A step of the store in use leaves the other one as it was.
LEMMA ChosenStep == ChosenInv /\ [StoresNext]_storesVars => ChosenInv'
<1> SUFFICES ASSUME ChosenInv, [StoresNext]_storesVars PROVE ChosenInv'
  OBVIOUS
<1>1. backend' = backend
  BY DEF StoresNext, storesVars
<1>2. CASE backend = "memory" /\ (Next \/ UNCHANGED storesVars)
  <2>1. KeptInv /\ [Next]_vars
    BY <1>2 DEF ChosenInv, storesVars, vars
  <2>2. KeptInv'
    BY <2>1, StepKept
  <2> QED BY <1>1, <1>2, <2>2 DEF ChosenInv, KeptInv, IInv
<1>3. CASE backend = "redis" /\ (RedisNext \/ UNCHANGED storesVars)
  <2>1. RedisIInv /\ [RedisNext]_redisVars
    BY <1>3 DEF ChosenInv, storesVars, redisVars
  <2>2. RedisIInv'
    BY <2>1, RedisStepHolds
  <2> QED BY <1>1, <1>3, <2>2 DEF ChosenInv, RedisIInv
<1>4. CASE backend \notin {"memory", "redis"} /\ UNCHANGED storesVars
  <2>1. reply' = reply
    BY <1>4 DEF storesVars, shared, outside
  <2> QED BY <1>1, <1>4, <2>1 DEF ChosenInv, WithdrawnStaysOut, IssuedStaysUsable
<1> QED BY <1>2, <1>3, <1>4 DEF StoresNext

(***************************************************************************)
(* For any number of keys, callers and workers, and with either store: a   *)
(* key whose revoke or delete was answered with success never gets in      *)
(* again, whatever commands fail, answers are lost, keys expire or calls   *)
(* race.  (RedisApiKeyStore and ApiKeyStore, revoke, delete, authenticate.)*)
(***************************************************************************)
THEOREM WithdrawnStaysOutOfEitherStore == StoresSpec => []WithdrawnStaysOut
<1>1. ChosenInv => WithdrawnStaysOut
  BY DEF ChosenInv
<1> QED BY ChosenInit, ChosenStep, <1>1, PTL DEF StoresSpec

(***************************************************************************)
(* ... and a key that was issued, that nobody tried to withdraw and that   *)
(* has not expired is let in and listed: in Redis its hash outlives it,    *)
(* and a listing that read its index before a change has seen it anyway.   *)
(***************************************************************************)
THEOREM IssuedStaysUsableInEitherStore == StoresSpec => []IssuedStaysUsable
<1>1. ChosenInv => IssuedStaysUsable
  BY DEF ChosenInv
<1> QED BY ChosenInit, ChosenStep, <1>1, PTL DEF StoresSpec
=============================================================================
