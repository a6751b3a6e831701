------------------------ MODULE RedisLimiters_proofs ------------------------
(***************************************************************************)
(* Proofs about the four Redis limiters, for every set of policies, every  *)
(* clock resolution and any number of workers whose limiter objects come   *)
(* and go.                                                                 *)
(***************************************************************************)
EXTENDS RedisLimiters, Limiter_proofs, SequenceTheorems

(***************************************************************************)
(* What the four algorithms' invariants have in common.                    *)
(***************************************************************************)
Base ==
    /\ now \in Nat /\ expires \in Nat
    /\ limit \in Limits /\ window \in Windows
    /\ log \in Seq(Nat) /\ LogOrdered

\* Every step other than a decision
Quiet ==
    /\ ~Rejected'
    /\ log' = log /\ expires' = expires
    /\ now' \in Nat /\ now <= now'
    /\ limit' \in Limits /\ window' \in Windows

\* A decision admits, or rejects and says how long to wait
Admits ==
    /\ ~Rejected'
    /\ log' = Append(log, now)
    /\ UNCHANGED <<now, limit, window>>
Rejects(reset) ==
    /\ reply'.val = reset
    /\ UNCHANGED <<log, now, limit, window>>

(***************************************************************************)
(* The bounds of what the policies may set.                                *)
(***************************************************************************)
LEMMA BaseFacts ==
    ASSUME Base
    PROVE  /\ now \in Nat /\ expires \in Nat /\ log \in Seq(Nat) /\ Len(log) \in Nat
           /\ SEC \in Nat /\ SEC > 0
           /\ limit \in Nat /\ limit > 0 /\ MinLimit <= limit /\ limit <= MaxLimit
           /\ MinLimit \in Nat /\ MinLimit > 0 /\ MaxLimit \in Nat
           /\ Period \in Nat /\ MinPeriod \in Nat /\ MaxPeriod \in Nat
           /\ MinPeriod <= Period /\ Period <= MaxPeriod
           /\ \A i \in 1..Len(log) : log[i] \in Nat /\ log[i] <= now
  <1>1. /\ limit \in Nat /\ limit > 0 /\ limit <= MaxLimit /\ MaxLimit \in Nat
        /\ SEC \in Nat /\ SEC > 0
    BY LimiterAssumption DEF LimiterAssumption, Base
  <1>2. MinLimit \in Nat /\ MinLimit > 0 /\ MinLimit <= limit
    BY BucketAssumption DEF BucketAssumption, Base
  <1>3. Period \in Nat /\ MinPeriod \in Nat /\ MinPeriod <= Period
    BY PeriodFacts DEF Base
  <1>4. MaxPeriod \in Nat /\ Period <= MaxPeriod
    BY RedisAssumption DEF RedisAssumption, Base, Period
  <1>5. QED  BY <1>1, <1>2, <1>3, <1>4 DEF Base, LogOrdered

(***************************************************************************)
(* Every step keeps the common part: the clock does not go back, and what  *)
(* is admitted is recorded with the present time.                          *)
(***************************************************************************)
LEMMA QuietBase == ASSUME Base, Quiet PROVE Base'
  <1>1. LogOrdered'
    BY PassOrdered DEF Base, Quiet
  <1>2. QED  BY <1>1 DEF Base, Quiet

\* An admission is logged at the present, which is the latest moment.
LEMMA AdmitsBase ==
    ASSUME Base, Admits, expires' \in Nat
    PROVE  Base'
  <1>1. now \in Nat /\ log \in Seq(Nat) /\ LogOrdered /\ now' = now /\ log' = Append(log, now)
    BY DEF Base, Admits
  <1>2. LogOrdered'
    BY <1>1, AppendOrdered
  <1>3. log' \in Seq(Nat)
    BY <1>1
  <1>4. QED  BY <1>2, <1>3 DEF Base, Admits

\* A rejection is not logged.
LEMMA RejectsBase ==
    ASSUME Base, NEW reset, Rejects(reset), expires' \in Nat
    PROVE  Base'
  <1>1. now \in Nat /\ log \in Seq(Nat) /\ LogOrdered /\ now' = now /\ log' = log
    BY DEF Base, Rejects
  <1>2. LogOrdered'
    BY <1>1, PassOrdered
  <1>3. QED  BY <1>1, <1>2 DEF Base, Rejects

(***************************************************************************)
(* A duration rounded up to seconds is not shorter.                        *)
(***************************************************************************)
LEMMA CeilReaches ==
    ASSUME NEW t \in Int
    PROVE  CeilSeconds(t) \in Nat /\ CeilSeconds(t) * SEC \in Nat /\ CeilSeconds(t) * SEC >= t
  <1>0. SEC \in Nat /\ SEC > 0
    BY LimiterAssumption DEF LimiterAssumption
  <1>1. CASE t > 0
    <2>1. t \in Nat /\ CeilSeconds(t) = (t + SEC - 1) \div SEC
      BY <1>1 DEF CeilSeconds
    <2>2. QED  BY <1>0, <2>1, QuotientUp
  <1>2. CASE ~(t > 0)
    <2>1. CeilSeconds(t) = 0 /\ 0 * SEC = 0
      BY <1>0, <1>2 DEF CeilSeconds
    <2>2. QED  BY <1>2, <2>1
  <1>3. QED  BY <1>1, <1>2

----------------------------------------------------------------------------
(***************************************************************************)
(* The fixed window: m of the counted requests were admitted since the     *)
(* key was made at time s, the others were rejected; what was admitted     *)
(* more than MaxLimit admissions before that is a window older than s.     *)
(***************************************************************************)
FixedCounted(m, s) ==
    /\ counter > 0 /\ m <= counter /\ m <= MaxLimit /\ m <= Len(log)
    /\ m = counter \/ m >= MinLimit
    /\ s <= now /\ s + MinPeriod <= expires /\ expires <= s + MaxPeriod
    /\ \A i \in 1..(Len(log) - m) : log[i] <= s
    /\ \A i \in (Len(log) - m + 1)..Len(log) : log[i] >= s
    /\ \A i \in 1..(Len(log) - m - MaxLimit) : log[i] + MinPeriod <= s

FixedInv ==
    /\ Base /\ counter \in Nat
    /\ Spaced(2 * MaxLimit, MinPeriod)
    /\ (counter = 0 /\ log = <<>>) \/ \E m, s \in Nat : FixedCounted(m, s)

FixedSafe ==
    Rejected => Spent(MinLimit, MaxPeriod) /\ Fixed!AdmitsAt(now + reply.val * SEC)

\* A decision that leaves the count c and the deadline e
FixedDecides(c, e) ==
    /\ counter' = c /\ expires' = e
    /\ \/ c <= limit /\ Admits
       \/ c > limit /\ Rejects(CeilSeconds(e - now))

(***************************************************************************)
(* Every step of the fixed window is a decision that starts a new count,   *)
(* a decision that counts on, or quiet.                                    *)
(***************************************************************************)
LEMMA FixedShape ==
    ASSUME FixedInv, Fixed!Next
    PROVE  \/ FixedDecides(1, now + Period) /\ (now >= expires \/ counter = 0)
           \/ FixedDecides(counter + 1, expires) /\ now < expires /\ counter > 0
           \/ Quiet /\ counter' = counter
  <1>0. /\ now \in Nat /\ expires \in Nat /\ counter \in Nat
        /\ limit \in Limits /\ window \in Windows /\ limit \in Nat
    BY BaseFacts DEF FixedInv, Base
  <1>1. CASE Fixed!AllowRequest
    <2>1. \A t : Fixed!CeilSeconds(t) = CeilSeconds(t)
      BY DEF Fixed!CeilSeconds, CeilSeconds
    <2>2. Fixed!Period = Period
      BY DEF Fixed!Period, Period
    <2>3. \A c, e : Fixed!Count + 1 = c /\ Fixed!Deadline = e => FixedDecides(c, e)
      <3> SUFFICES ASSUME NEW c, NEW e, Fixed!Count + 1 = c, Fixed!Deadline = e
                   PROVE  FixedDecides(c, e)
        OBVIOUS
      <3>1. /\ counter' = c /\ expires' = e /\ UNCHANGED <<now, limit, window>>
            /\ reply' = [op |-> "allow", ok |-> c <= limit, val |-> CeilSeconds(e - now)]
            /\ log' = IF c <= limit THEN Append(log, now) ELSE log
        BY <1>1, <2>1 DEF Fixed!AllowRequest, Fixed!Decide
      <3>2. c \in Nat /\ limit \in Nat
        BY <1>0 DEF Fixed!Count
      <3>3. CASE c <= limit
        BY <3>1, <3>3 DEF FixedDecides, Admits, Rejected
      <3>4. CASE c > limit
        BY <3>1, <3>2, <3>4 DEF FixedDecides, Rejects
      <3>5. QED  BY <3>2, <3>3, <3>4
    <2>4. CASE now >= expires \/ counter = 0
      <3>1. Fixed!Count = 0 /\ Fixed!Deadline = now + Period
        BY <2>2, <2>4 DEF Fixed!Count, Fixed!Deadline, Fixed!Gone
      <3>2. Fixed!Count + 1 = 1
        BY <3>1
      <3>3. QED  BY <2>3, <2>4, <3>1, <3>2
    <2>5. CASE ~(now >= expires \/ counter = 0)
      <3>1. Fixed!Count = counter /\ Fixed!Deadline = expires /\ now < expires /\ counter > 0
        BY <1>0, <2>5 DEF Fixed!Count, Fixed!Deadline, Fixed!Gone
      <3>2. QED  BY <2>3, <3>1
    <2>6. QED  BY <2>4, <2>5
  <1>2. CASE ~Fixed!AllowRequest
    <2>1. reply'.op # "allow"
      BY <1>2 DEF Fixed!Next, Fixed!AnswerFromCache, Fixed!ReadFresh, Fixed!AnswerFresh,
           Fixed!Recreate, Fixed!Tick, Fixed!Retune, Fixed!Answer, Fixed!NoReply
    <2>2. /\ log' = log /\ expires' = expires /\ counter' = counter
          /\ now' = now \/ now' = now + 1
          /\ limit' \in Limits /\ window' \in Windows
      BY <1>0, <1>2 DEF Fixed!Next, Fixed!AnswerFromCache, Fixed!ReadFresh,
           Fixed!AnswerFresh, Fixed!Recreate, Fixed!Tick, Fixed!Retune
    <2>3. QED  BY <1>0, <2>1, <2>2 DEF Quiet, Rejected
  <1>3. QED  BY <1>1, <1>2

(***************************************************************************)
(* A decision that starts a new count admits: what was admitted before is  *)
(* of an earlier window.                                                   *)
(***************************************************************************)
LEMMA FixedStarts ==
    ASSUME FixedInv, now >= expires \/ counter = 0, FixedDecides(1, now + Period)
    PROVE  FixedInv' /\ FixedSafe'
  <1>0. /\ now \in Nat /\ expires \in Nat /\ log \in Seq(Nat) /\ Len(log) \in Nat
        /\ limit \in Nat /\ limit > 0 /\ MaxLimit \in Nat /\ limit <= MaxLimit
        /\ MinLimit \in Nat /\ MinLimit > 0
        /\ Period \in Nat /\ MinPeriod \in Nat /\ MaxPeriod \in Nat
        /\ MinPeriod <= Period /\ Period <= MaxPeriod
        /\ \A i \in 1..Len(log) : log[i] \in Nat /\ log[i] <= now
    BY BaseFacts DEF FixedInv
  <1>1. /\ counter' = 1 /\ expires' = now + Period /\ now' = now
        /\ log' = Append(log, now) /\ ~Rejected' /\ Admits
    BY <1>0 DEF FixedDecides, Admits
  <1>2. /\ Len(log') = Len(log) + 1 /\ log'[Len(log) + 1] = now
        /\ \A i \in 1..Len(log) : log'[i] = log[i]
    BY <1>0, <1>1
  <1>3. ASSUME NEW i \in 1..(Len(log) - MaxLimit) PROVE log[i] + MinPeriod <= now
    <2>1. CASE counter = 0 /\ log = <<>>
      BY <1>0, <2>1
    <2>2. CASE \E m, s \in Nat : FixedCounted(m, s)
      <3>1. PICK m, s \in Nat : FixedCounted(m, s)
        BY <2>2
      <3>2. /\ m <= MaxLimit /\ counter > 0 /\ s + MinPeriod <= expires
            /\ \A j \in 1..(Len(log) - m) : log[j] <= s
        BY <3>1 DEF FixedCounted
      <3>3. i \in 1..(Len(log) - m) /\ i \in 1..Len(log)
        BY <1>0, <3>2
      <3>4. now >= expires
        BY <3>2
      <3>5. log[i] <= s /\ log[i] \in Nat
        BY <1>0, <3>2, <3>3
      <3>6. s + MinPeriod <= expires /\ MinPeriod \in Nat /\ now \in Nat /\ expires \in Nat
        BY <1>0, <3>2
      <3>7. QED  BY <3>4, <3>5, <3>6
    <2>3. QED  BY <2>1, <2>2 DEF FixedInv
  <1>4. Base'
    <2>1. Base /\ expires' \in Nat
      BY <1>0, <1>1 DEF FixedInv
    <2>2. QED  BY <1>1, <2>1, AdmitsBase
  <1>5. Spaced(2 * MaxLimit, MinPeriod)'
    <2>1. Len(log) + 1 - 2 * MaxLimit \in 1..Len(log)
             => log[Len(log) + 1 - 2 * MaxLimit] + MinPeriod <= now
      <3>1. Len(log) + 1 - 2 * MaxLimit \in 1..Len(log)
               => Len(log) + 1 - 2 * MaxLimit \in 1..(Len(log) - MaxLimit)
        BY <1>0
      <3>2. QED  BY <1>3, <3>1
    <2>2. 2 * MaxLimit \in Nat /\ 2 * MaxLimit > 0
      BY <1>0
    <2>3. QED  BY <1>0, <1>1, <2>1, <2>2, AppendSpaced DEF FixedInv
  <1>6. FixedCounted(1, now)'
    <2>1. /\ counter' > 0 /\ 1 <= counter' /\ 1 <= MaxLimit /\ 1 <= Len(log') /\ 1 = counter'
          /\ now' <= now' /\ now' + MinPeriod <= expires' /\ expires' <= now' + MaxPeriod
      BY <1>0, <1>1, <1>2
    <2>2. \A i \in 1..(Len(log') - 1) : log'[i] <= now'
      BY <1>0, <1>1, <1>2
    <2>3. \A i \in (Len(log') - 1 + 1)..Len(log') : log'[i] >= now'
      BY <1>0, <1>1, <1>2
    <2>4. ASSUME NEW i \in 1..(Len(log') - 1 - MaxLimit) PROVE log'[i] + MinPeriod <= now'
      <3>1. i \in 1..(Len(log) - MaxLimit) /\ i \in 1..Len(log)
        BY <1>0, <1>2
      <3>2. QED  BY <1>1, <1>2, <1>3, <3>1
    <2>5. QED  BY <2>1, <2>2, <2>3, <2>4 DEF FixedCounted
  <1>7. \E m, s \in Nat : FixedCounted(m, s)'
    BY <1>0, <1>1, <1>6
  <1>8. QED  BY <1>0, <1>1, <1>4, <1>5, <1>7 DEF FixedInv, FixedSafe

(***************************************************************************)
(* A decision that counts on: what is counted and admitted fits into the   *)
(* limit, what is rejected has at least the strictest limit of admissions  *)
(* since the key was made.                                                 *)
(***************************************************************************)
LEMMA FixedContinues ==
    ASSUME FixedInv, now < expires, counter > 0, FixedDecides(counter + 1, expires)
    PROVE  FixedInv' /\ FixedSafe'
  <1>0. /\ now \in Nat /\ expires \in Nat /\ log \in Seq(Nat) /\ Len(log) \in Nat
        /\ limit \in Nat /\ limit > 0 /\ MaxLimit \in Nat /\ limit <= MaxLimit
        /\ MinLimit \in Nat /\ MinLimit > 0 /\ MinLimit <= limit
        /\ MinPeriod \in Nat /\ MaxPeriod \in Nat /\ counter \in Nat
        /\ \A i \in 1..Len(log) : log[i] \in Nat /\ log[i] <= now
    BY BaseFacts DEF FixedInv
  <1>1. counter' = counter + 1 /\ expires' = expires
    BY DEF FixedDecides
  <1>2. PICK m, s \in Nat : FixedCounted(m, s)
    BY <1>0 DEF FixedInv
  <1>3. /\ m <= counter /\ m <= MaxLimit /\ m <= Len(log)
        /\ m = counter \/ m >= MinLimit
        /\ s <= now /\ s + MinPeriod <= expires /\ expires <= s + MaxPeriod
        /\ \A i \in 1..(Len(log) - m) : log[i] <= s
        /\ \A i \in (Len(log) - m + 1)..Len(log) : log[i] >= s
        /\ \A i \in 1..(Len(log) - m - MaxLimit) : log[i] + MinPeriod <= s
    BY <1>2 DEF FixedCounted
  <1> DEFINE L == Len(log)
  <1>n. /\ now \in Nat /\ expires \in Nat /\ L \in Nat /\ limit \in Nat /\ limit > 0
        /\ MaxLimit \in Nat /\ limit <= MaxLimit /\ MinLimit \in Nat /\ MinLimit > 0
        /\ MinLimit <= limit /\ MinPeriod \in Nat /\ MaxPeriod \in Nat /\ counter \in Nat
        /\ m <= counter /\ m <= MaxLimit /\ m <= L /\ (m = counter \/ m >= MinLimit)
        /\ s <= now /\ s + MinPeriod <= expires /\ expires <= s + MaxPeriod
    BY <1>0, <1>3
  <1>4. CASE counter + 1 <= limit /\ Admits
    <2>1. /\ now' = now /\ log' = Append(log, now) /\ ~Rejected'
          /\ Len(log') = Len(log) + 1 /\ log'[Len(log) + 1] = now
          /\ \A i \in 1..Len(log) : log'[i] = log[i]
      BY <1>0, <1>4 DEF Admits
    <2>2. Base'
      <3>1. Base /\ expires' \in Nat
        BY <1>0, <1>1 DEF FixedInv
      <3>2. QED  BY <1>4, <3>1, AdmitsBase
    <2>3. Spaced(2 * MaxLimit, MinPeriod)'
      <3>1. Len(log) + 1 - 2 * MaxLimit \in 1..Len(log)
               => log[Len(log) + 1 - 2 * MaxLimit] + MinPeriod <= now
        <4> SUFFICES ASSUME Len(log) + 1 - 2 * MaxLimit \in 1..Len(log)
                     PROVE  log[Len(log) + 1 - 2 * MaxLimit] + MinPeriod <= now
          OBVIOUS
        <4>1. PICK i \in 1..Len(log) : i = Len(log) + 1 - 2 * MaxLimit
          OBVIOUS
        <4>2. i \in 1..(Len(log) - m - MaxLimit)
          BY <1>0, <1>3, <1>4, <4>1
        <4>3. log[i] + MinPeriod <= s /\ log[i] \in Nat
          BY <1>0, <1>3, <4>2
        <4>4. \A x \in Nat : x + MinPeriod <= s => x + MinPeriod <= now
          BY <1>n
        <4>5. log[i] + MinPeriod <= now
          BY <4>3, <4>4
        <4>6. QED  BY <4>1, <4>5
      <3>2. 2 * MaxLimit \in Nat /\ 2 * MaxLimit > 0
        BY <1>0
      <3>3. QED  BY <1>0, <2>1, <3>1, <3>2, AppendSpaced DEF FixedInv
    <2>4. FixedCounted(m + 1, s)'
      <3>1. /\ counter' > 0 /\ m + 1 <= counter' /\ m + 1 <= MaxLimit /\ m + 1 <= Len(log')
            /\ m + 1 = counter' \/ m + 1 >= MinLimit
            /\ s <= now' /\ s + MinPeriod <= expires' /\ expires' <= s + MaxPeriod
        BY <1>0, <1>1, <1>3, <1>4, <2>1
      <3>2. ASSUME NEW i \in 1..(Len(log') - (m + 1)) PROVE log'[i] <= s
        <4>1. i \in 1..(Len(log) - m) /\ i \in 1..Len(log)
          BY <1>0, <2>1
        <4>2. QED  BY <1>3, <2>1, <4>1
      <3>3. ASSUME NEW i \in (Len(log') - (m + 1) + 1)..Len(log') PROVE log'[i] >= s
        <4>1. i = Len(log) + 1 \/ (i \in (Len(log) - m + 1)..Len(log) /\ i \in 1..Len(log))
          <5>1. Len(log') = L + 1
            BY <2>1
          <5> HIDE DEF L
          <5>2. i = L + 1 \/ (i \in (L - m + 1)..L /\ i \in 1..L)
            BY <1>n, <5>1
          <5>3. QED  BY <5>2 DEF L
        <4>2. QED  BY <1>0, <1>3, <2>1, <4>1
      <3>4. ASSUME NEW i \in 1..(Len(log') - (m + 1) - MaxLimit) PROVE log'[i] + MinPeriod <= s
        <4>1. i \in 1..(Len(log) - m - MaxLimit) /\ i \in 1..Len(log)
          BY <1>0, <2>1
        <4>2. QED  BY <1>3, <2>1, <4>1
      <3>5. QED  BY <3>1, <3>2, <3>3, <3>4 DEF FixedCounted
    <2>5. \E n, t \in Nat : FixedCounted(n, t)'
      <3>1. m + 1 \in Nat
        OBVIOUS
      <3>2. QED  BY <2>4, <3>1
    <2>6. FixedInv'
      BY <1>0, <1>1, <2>2, <2>3, <2>5 DEF FixedInv
    <2>7. FixedSafe'
      BY <2>1 DEF FixedSafe
    <2>8. QED  BY <2>6, <2>7
  <1>5. CASE counter + 1 > limit /\ Rejects(CeilSeconds(expires - now))
    <2>1. /\ now' = now /\ log' = log /\ limit' = limit
          /\ reply'.val = CeilSeconds(expires - now)
      BY <1>5 DEF Rejects
    <2>2. Base'
      <3>1. Base /\ expires' \in Nat
        BY <1>0, <1>1 DEF FixedInv
      <3>2. QED  BY <1>5, <3>1, RejectsBase
    <2>3. Spaced(2 * MaxLimit, MinPeriod)'
      BY <2>1 DEF FixedInv, Spaced
    <2>4. m >= MinLimit
      BY <1>0, <1>3, <1>5
    <2>5. FixedCounted(m, s)'
      <3>1. counter' > 0 /\ m <= counter'
        BY <1>0, <1>1, <1>3
      <3>2. QED  BY <1>1, <1>3, <2>1, <2>4, <3>1 DEF FixedCounted
    <2>6. Spent(MinLimit, MaxPeriod)'
      <3> DEFINE i == L - MinLimit + 1
      <3>1. i \in 1..L /\ i \in (L - m + 1)..L
        <4> HIDE DEF L
        <4>1. QED  BY <1>n, <2>4
      <3>2. log[i] \in Nat
        BY <1>0, <3>1
      <3>3. log[i] >= s
        BY <1>3, <3>1
      <3>4. log[i] > now - MaxPeriod
        <4>1. \A x \in Nat : x >= s => x > now - MaxPeriod
          BY <1>n
        <4>2. QED  BY <3>2, <3>3, <4>1
      <3>5. Len(log) >= MinLimit
        BY <1>n, <2>4
      <3>6. QED  BY <2>1, <3>4, <3>5 DEF Spent
    <2>7. Fixed!AdmitsAt(now + reply.val * SEC)'
      <3>1. /\ CeilSeconds(expires - now) * SEC \in Nat
            /\ CeilSeconds(expires - now) * SEC >= expires - now
        <4>1. expires - now \in Int
          BY <1>n
        <4>2. QED  BY <4>1, CeilReaches
      <3>2. now + CeilSeconds(expires - now) * SEC >= expires
        BY <1>n, <3>1
      <3>3. QED  BY <1>1, <2>1, <3>2 DEF Fixed!AdmitsAt
    <2>8. \E n, t \in Nat : FixedCounted(n, t)'
      BY <2>5
    <2>9. QED  BY <1>0, <1>1, <2>2, <2>3, <2>6, <2>7, <2>8 DEF FixedInv, FixedSafe
  <1>6. QED  BY <1>4, <1>5 DEF FixedDecides

(***************************************************************************)
(* The invariant of the fixed window, from the start and over every step.  *)
(***************************************************************************)
LEMMA FixedQuiet ==
    ASSUME FixedInv, Quiet, counter' = counter
    PROVE  FixedInv' /\ FixedSafe'
  <1>0. now \in Nat /\ now' \in Nat /\ now <= now' /\ log' = log /\ expires' = expires
    BY DEF FixedInv, Base, Quiet
  <1>1. Base'
    BY QuietBase DEF FixedInv
  <1>2. Spaced(2 * MaxLimit, MinPeriod)'
    BY <1>0 DEF FixedInv, Spaced
  <1>3. ASSUME NEW m \in Nat, NEW s \in Nat, FixedCounted(m, s) PROVE FixedCounted(m, s)'
    <2>1. s <= now'
      BY <1>0, <1>3 DEF FixedCounted
    <2>2. QED  BY <1>0, <1>3, <2>1 DEF FixedCounted
  <1>4. (counter' = 0 /\ log' = <<>>) \/ \E m, s \in Nat : FixedCounted(m, s)'
    BY <1>0, <1>3 DEF FixedInv
  <1>5. QED  BY <1>0, <1>1, <1>2, <1>4 DEF FixedInv, FixedSafe, Quiet

\* Every step of the fixed window keeps its invariant and its promises.
LEMMA FixedStep == ASSUME FixedInv, Fixed!Next PROVE FixedInv' /\ FixedSafe'
  BY FixedShape, FixedStarts, FixedContinues, FixedQuiet

----------------------------------------------------------------------------
(***************************************************************************)
(* The sliding window: a set s that holds the end of the history, of which *)
(* the rest is at least the shortest window old.                           *)
(***************************************************************************)
Kept(s) ==
    /\ s \in Seq(Nat) /\ Len(s) <= Len(log)
    /\ \A i \in 1..Len(s) : s[i] = log[Len(log) - Len(s) + i]
    /\ \A i \in 1..(Len(log) - Len(s)) : log[i] + MinPeriod <= now

SlidingInv ==
    /\ Base /\ Kept(stamps)
    /\ Spaced(MaxLimit, MinPeriod)
    /\ \A i \in 1..Len(log) : log[i] + MinPeriod <= expires

SlidingSafe ==
    Rejected => /\ Spent(limit, Period)
                /\ Len(stamps) = limit => Sliding!AdmitsAt(now + reply.val * SEC)

(***************************************************************************)
(* What the two scripts work on at time t, for a set m that expires at e   *)
(* and a window of p ticks: nothing once the set expired, otherwise what   *)
(* is left without its first j members.                                    *)
(***************************************************************************)
Out(m, p, t, j) ==
    /\ \A i \in 1..j : m[i] <= t - p
    /\ j < Len(m) => m[j + 1] > t - p
LiveOf(m, e, p, t) ==
    IF t >= e THEN <<>>
    ELSE SubSeq(m, 1 + CHOOSE j \in 0..Len(m) : Out(m, p, t, j), Len(m))

\* The live members are the rest of the list after the first j, which are out.
LEMMA LiveFacts ==
    ASSUME NEW m \in Seq(Nat), NEW e \in Nat, NEW p \in Nat, NEW t \in Nat, t < e
    PROVE  \E j \in 0..Len(m) :
              /\ LiveOf(m, e, p, t) \in Seq(Nat)
              /\ Len(LiveOf(m, e, p, t)) = Len(m) - j
              /\ \A i \in 1..(Len(m) - j) : LiveOf(m, e, p, t)[i] = m[j + i]
              /\ \A i \in 1..j : m[i] + p <= t
              /\ j < Len(m) => m[j + 1] + p > t
  <1> DEFINE j == CHOOSE k \in 0..Len(m) : Out(m, p, t, k)
             n == Len(m)
  <1>0. ~(t >= e)
    OBVIOUS
  <1>1. \E k \in 0..Len(m) : Out(m, p, t, k)
    <2>1. t - p \in Int
      OBVIOUS
    <2>2. QED  BY <2>1, FirstLater DEF Out
  <1>2. j \in 0..n /\ Out(m, p, t, j)
    BY <1>1
  <1>3. n \in Nat /\ \A i \in 1..n : m[i] \in Nat
    OBVIOUS
  <1>4. LiveOf(m, e, p, t) = SubSeq(m, 1 + j, n)
    BY <1>0 DEF LiveOf
  <1> HIDE DEF j
  <1>5. /\ SubSeq(m, 1 + j, n) \in Seq(Nat)
        /\ Len(SubSeq(m, 1 + j, n)) = n - j
        /\ \A i \in 1..(n - j) : SubSeq(m, 1 + j, n)[i] = m[j + i]
    <2>1. 1 + j \in Int /\ n \in Int /\ \A i \in (1 + j)..n : m[i] \in Nat
      BY <1>2, <1>3
    <2>2. /\ SubSeq(m, 1 + j, n) \in Seq(Nat)
          /\ Len(SubSeq(m, 1 + j, n)) = IF 1 + j <= n THEN n - (1 + j) + 1 ELSE 0
          /\ \A i \in 1..(n - (1 + j) + 1) : SubSeq(m, 1 + j, n)[i] = m[1 + j + i - 1]
      BY <2>1, SubSeqProperties
    <2>3. /\ (IF 1 + j <= n THEN n - (1 + j) + 1 ELSE 0) = n - j /\ n - (1 + j) + 1 = n - j
      BY <1>2, <1>3
    <2>4. ASSUME NEW i \in 1..(n - j) PROVE SubSeq(m, 1 + j, n)[i] = m[j + i]
      <3>1. 1 + j + i - 1 = j + i /\ i \in 1..(n - (1 + j) + 1)
        BY <1>2, <1>3
      <3>2. SubSeq(m, 1 + j, n)[i] = m[1 + j + i - 1]
        BY <2>2, <3>1
      <3>3. QED  BY <3>1, <3>2
    <2>5. QED  BY <2>2, <2>3, <2>4
  <1>6. /\ \A i \in 1..j : m[i] + p <= t
        /\ j < n => m[j + 1] + p > t
    <2>1. ASSUME NEW i \in 1..j PROVE m[i] + p <= t
      <3>1. m[i] \in Nat /\ m[i] <= t - p
        BY <1>2, <1>3 DEF Out
      <3>2. QED  BY <3>1
    <2>2. ASSUME j < n PROVE m[j + 1] + p > t
      <3>1. m[j + 1] \in Nat /\ m[j + 1] > t - p
        BY <1>2, <1>3, <2>2 DEF Out
      <3>2. QED  BY <3>1
    <2>3. QED  BY <2>1, <2>2
  <1>7. QED  BY <1>2, <1>4, <1>5, <1>6

\* The script trims the list in just this way.
LEMMA SameLive == Sliding!LiveAt(now) = LiveOf(stamps, expires, Period, now)
  BY DEF Sliding!LiveAt, Sliding!Expired, Sliding!Period, Period, LiveOf, Out

(***************************************************************************)
(* The live set is the end of the history and lies in the window in force. *)
(***************************************************************************)
LEMMA LiveKept ==
    ASSUME SlidingInv
    PROVE  /\ Kept(Sliding!LiveAt(now))
           /\ \A i \in 1..Len(Sliding!LiveAt(now)) : Sliding!LiveAt(now)[i] + Period > now
  <1>0. /\ now \in Nat /\ expires \in Nat /\ log \in Seq(Nat) /\ Len(log) \in Nat
        /\ Period \in Nat /\ MinPeriod \in Nat /\ MinPeriod <= Period
        /\ \A i \in 1..Len(log) : log[i] \in Nat
    BY BaseFacts DEF SlidingInv
  <1>1. /\ stamps \in Seq(Nat) /\ Len(stamps) \in Nat /\ Len(stamps) <= Len(log)
        /\ \A i \in 1..Len(stamps) : stamps[i] = log[Len(log) - Len(stamps) + i]
        /\ \A i \in 1..(Len(log) - Len(stamps)) : log[i] + MinPeriod <= now
    BY DEF SlidingInv, Kept
  <1> DEFINE live == Sliding!LiveAt(now)
             F == Len(log) - Len(stamps)
  <1>2. CASE now >= expires
    <2>1. live = <<>>
      BY <1>2 DEF Sliding!LiveAt
    <2>2. \A i \in 1..Len(log) : log[i] + MinPeriod <= now
      <3>1. ASSUME NEW x \in Nat, x + MinPeriod <= expires PROVE x + MinPeriod <= now
        BY <1>0, <1>2, <3>1
      <3>2. QED  BY <1>0, <3>1 DEF SlidingInv
    <2> HIDE DEF live
    <2>3. QED  BY <1>0, <2>1, <2>2 DEF Kept, live
  <1>3. CASE now < expires
    <2>1. PICK j \in 0..Len(stamps) :
              /\ live \in Seq(Nat)
              /\ Len(live) = Len(stamps) - j
              /\ \A i \in 1..(Len(stamps) - j) : live[i] = stamps[j + i]
              /\ \A i \in 1..j : stamps[i] + Period <= now
              /\ j < Len(stamps) => stamps[j + 1] + Period > now
      <3>1. live = LiveOf(stamps, expires, Period, now)
        BY SameLive
      <3> HIDE DEF live
      <3>2. stamps \in Seq(Nat) /\ expires \in Nat /\ Period \in Nat /\ now \in Nat
        BY <1>0, <1>1
      <3> DEFINE x == LiveOf(stamps, expires, Period, now)
      <3>3. \E j \in 0..Len(stamps) :
              /\ x \in Seq(Nat)
              /\ Len(x) = Len(stamps) - j
              /\ \A i \in 1..(Len(stamps) - j) : x[i] = stamps[j + i]
              /\ \A i \in 1..j : stamps[i] + Period <= now
              /\ j < Len(stamps) => stamps[j + 1] + Period > now
        BY <1>3, <3>2, LiveFacts
      <3> HIDE DEF x
      <3>4. live = x
        BY <3>1 DEF x
      <3>5. QED  BY <3>3, <3>4
    <2> HIDE DEF live
    <2> DEFINE n == Len(stamps)
    <2>2. /\ n \in Nat /\ F \in Nat /\ j \in 0..n /\ Len(live) = n - j
          /\ Len(log) - Len(live) = F + j /\ Len(live) <= Len(log)
      BY <1>0, <1>1, <2>1
    <2>3. ASSUME NEW i \in 1..Len(live)
          PROVE  /\ live[i] = log[Len(log) - Len(live) + i]
                 /\ live[i] + Period > now
      <3>1. live[i] = stamps[j + i] /\ j + i \in 1..n /\ i \in Nat /\ i > 0 /\ j < n
        BY <2>1, <2>2
      <3>2. stamps[j + i] = log[F + (j + i)] /\ stamps[j + 1] = log[F + (j + 1)]
        <4>1. j + 1 \in 1..n
          BY <2>2, <3>1
        <4>2. QED  BY <1>1, <3>1, <4>1
      <3>3. F + (j + i) = Len(log) - Len(live) + i
        BY <2>2, <3>1
      <3>4. /\ F + (j + i) \in 1..Len(log) /\ F + (j + 1) \in 1..Len(log)
            /\ F + (j + 1) <= F + (j + i)
        <4> DEFINE L == Len(log)
        <4>1. L \in Nat /\ F = L - n /\ n <= L /\ n \in Nat
          BY <1>0, <1>1
        <4> HIDE DEF L, F, n
        <4>2. F + (j + i) \in 1..L /\ F + (j + 1) \in 1..L /\ F + (j + 1) <= F + (j + i)
          BY <2>2, <3>1, <4>1
        <4>3. QED  BY <4>2 DEF L
      <3>5. log[F + (j + 1)] <= log[F + (j + i)]
        BY <3>4 DEF SlidingInv, Base, LogOrdered
      <3>6. stamps[j + 1] + Period > now
        BY <2>1, <3>1
      <3>7. /\ log[F + (j + 1)] \in Nat /\ log[F + (j + i)] \in Nat
            /\ log[F + (j + 1)] + Period > now
        BY <1>0, <3>2, <3>4, <3>6
      <3>8. \A x, y \in Nat : x <= y /\ x + Period > now => y + Period > now
        BY <1>0
      <3>9. log[F + (j + i)] + Period > now
        BY <3>5, <3>7, <3>8
      <3>10. QED  BY <3>1, <3>2, <3>3, <3>9
    <2>4. ASSUME NEW i \in 1..(Len(log) - Len(live)) PROVE log[i] + MinPeriod <= now
      <3>1. CASE i \in 1..F
        BY <1>1, <3>1
      <3>2. CASE i \notin 1..F
        <4>1. i - F \in 1..j /\ i - F \in 1..n /\ F + (i - F) = i /\ i \in 1..Len(log)
          <5> DEFINE L == Len(log)
          <5>1. L \in Nat /\ F = L - n /\ n <= L /\ n \in Nat /\ i \in 1..(F + j)
            BY <1>0, <1>1, <2>2
          <5> HIDE DEF L, F, n
          <5>2. i - F \in 1..j /\ i - F \in 1..n /\ F + (i - F) = i /\ i \in 1..L
            BY <2>2, <3>2, <5>1
          <5>3. QED  BY <5>2 DEF L
        <4>2. stamps[i - F] + Period <= now /\ stamps[i - F] = log[F + (i - F)]
          BY <1>1, <2>1, <4>1
        <4>3. log[i] + Period <= now /\ log[i] \in Nat
          BY <1>0, <4>1, <4>2
        <4>4. \A x \in Nat : x + Period <= now => x + MinPeriod <= now
          BY <1>0
        <4>5. QED  BY <4>3, <4>4
      <3>3. QED  BY <3>1, <3>2
    <2>5. QED  BY <2>1, <2>2, <2>3, <2>4 DEF Kept, live
  <1>4. QED  BY <1>0, <1>2, <1>3

\* A decision on the live set s
SlidingDecides(s) ==
    /\ expires' = now + Period + Margin
    /\ \/ Len(s) < limit /\ stamps' = Append(s, now) /\ Admits
       \/ Len(s) >= limit /\ stamps' = s /\ Rejects(Sliding!SecondsLeft(s))

(***************************************************************************)
(* Every step of the sliding window is a decision on the live set, or      *)
(* quiet; a read leaves the live set.                                      *)
(***************************************************************************)
LEMMA SlidingShape ==
    ASSUME SlidingInv, Sliding!Next
    PROVE  \/ SlidingDecides(Sliding!LiveAt(now))
           \/ Quiet /\ now' = now /\ stamps' = Sliding!LiveAt(now)
           \/ Quiet /\ stamps' = stamps
  <1>0. /\ now \in Nat /\ expires \in Nat /\ limit \in Limits /\ window \in Windows
        /\ limit \in Nat
    BY BaseFacts DEF SlidingInv, Base
  <1>1. CASE Sliding!AllowRequest
    <2> DEFINE s == Sliding!LiveAt(now)
    <2>1. Len(s) \in Nat
      BY LiveKept DEF Kept
    <2> HIDE DEF s
    <2>2. /\ stamps' = IF Len(s) < limit THEN Append(s, now) ELSE s
          /\ expires' = now + Period + Margin /\ UNCHANGED <<now, limit, window>>
          /\ reply' = [op |-> "allow", ok |-> Len(s) < limit, val |-> Sliding!SecondsLeft(s)]
          /\ log' = IF Len(s) < limit THEN Append(log, now) ELSE log
      BY <1>1 DEF Sliding!AllowRequest, Sliding!Decide, Sliding!HasRoom, Sliding!Period,
                  Period, s
    <2>3. CASE Len(s) < limit
      BY <2>2, <2>3 DEF SlidingDecides, Admits, Rejected, s
    <2>4. CASE Len(s) >= limit
      <3>1. ~(Len(s) < limit)
        BY <1>0, <2>1, <2>4
      <3>2. QED  BY <2>2, <2>4, <3>1 DEF SlidingDecides, Rejects, s
    <2>5. QED  BY <1>0, <2>1, <2>3, <2>4
  <1>2. CASE ~Sliding!AllowRequest
    <2>1. reply'.op # "allow"
      BY <1>2 DEF Sliding!Next, Sliding!AnswerFromCache, Sliding!ReadFresh,
           Sliding!AnswerFresh, Sliding!Recreate, Sliding!Tick, Sliding!Retune,
           Sliding!Answer, Sliding!NoReply
    <2>2. /\ log' = log /\ expires' = expires
          /\ (stamps' = Sliding!LiveAt(now) /\ now' = now) \/ stamps' = stamps
          /\ now' = now \/ now' = now + 1
          /\ limit' \in Limits /\ window' \in Windows
      BY <1>0, <1>2 DEF Sliding!Next, Sliding!AnswerFromCache, Sliding!ReadFresh,
           Sliding!AnswerFresh, Sliding!Recreate, Sliding!Tick, Sliding!Retune
    <2>3. QED  BY <1>0, <2>1, <2>2 DEF Quiet, Rejected
  <1>3. QED  BY <1>1, <1>2

(***************************************************************************)
(* What is kept stays kept while time passes.                              *)
(***************************************************************************)
LEMMA KeptLater ==
    ASSUME Base, Quiet, NEW s, Kept(s), stamps' = s
    PROVE  Kept(stamps)'
  <1>0. now \in Nat /\ now' \in Nat /\ now <= now' /\ log' = log /\ log \in Seq(Nat)
    BY DEF Base, Quiet
  <1>1. ASSUME NEW i \in 1..(Len(log) - Len(s)) PROVE log[i] + MinPeriod <= now'
    <2>1. log[i] + MinPeriod <= now
      BY <1>1 DEF Kept
    <2>2. log[i] \in Nat /\ MinPeriod \in Nat
      <3>1. i \in 1..Len(log)
        BY <1>0 DEF Kept
      <3>2. QED  BY <1>0, <3>1, BaseFacts
    <2>3. \A x \in Nat : x + MinPeriod <= now => x + MinPeriod <= now'
      BY <1>0, <2>2
    <2>4. QED  BY <2>1, <2>2, <2>3
  <1>2. QED  BY <1>0, <1>1 DEF Kept

(***************************************************************************)
(* An admission: there is room among what lies in the window in force, so  *)
(* the admission MaxLimit places before is out of the shortest window.     *)
(***************************************************************************)
LEMMA SlidingAdmits ==
    ASSUME SlidingInv, NEW s, Kept(s), Len(s) < limit, Admits,
           stamps' = Append(s, now), expires' = now + Period + Margin
    PROVE  SlidingInv' /\ SlidingSafe'
  <1>0. /\ now \in Nat /\ log \in Seq(Nat) /\ limit \in Nat /\ limit <= MaxLimit
        /\ limit > 0 /\ MaxLimit \in Nat /\ Period \in Nat /\ MinPeriod \in Nat
        /\ MinPeriod <= Period /\ Margin \in Nat
        /\ \A i \in 1..Len(log) : log[i] \in Nat /\ log[i] <= now
    BY BaseFacts, RedisAssumption DEF SlidingInv, RedisAssumption
  <1>1. /\ s \in Seq(Nat) /\ Len(s) <= Len(log)
        /\ \A i \in 1..Len(s) : s[i] = log[Len(log) - Len(s) + i]
        /\ \A i \in 1..(Len(log) - Len(s)) : log[i] + MinPeriod <= now
    BY DEF Kept
  <1> DEFINE L == Len(log)
             n == Len(s)
             e == now + Period + Margin
  <1>2. /\ L \in Nat /\ n \in Nat /\ n <= L /\ n < limit
        /\ Len(log') = L + 1 /\ log'[L + 1] = now /\ log' = Append(log, now)
        /\ \A i \in 1..L : log'[i] = log[i]
        /\ Len(stamps') = n + 1 /\ stamps'[n + 1] = now /\ stamps' \in Seq(Nat)
        /\ \A i \in 1..n : stamps'[i] = s[i]
        /\ now' = now /\ ~Rejected'
    BY <1>0, <1>1 DEF Admits
  <1>3. e \in Nat /\ \A x \in Nat : x <= now => x + MinPeriod <= e
    BY <1>0
  <1>4. Base'
    <2>1. Base /\ expires' \in Nat
      BY <1>3 DEF SlidingInv
    <2>2. QED  BY <2>1, AdmitsBase
  <1>5. Spaced(MaxLimit, MinPeriod)'
    <2>1. ASSUME Len(log) + 1 - MaxLimit \in 1..Len(log)
          PROVE  log[Len(log) + 1 - MaxLimit] + MinPeriod <= now
      <3>1. L + 1 - MaxLimit \in 1..(L - n)
        <4>1. L + 1 - MaxLimit >= 1
          BY <2>1
        <4> HIDE DEF L, n
        <4>2. QED  BY <1>0, <1>2, <4>1
      <3>2. QED  BY <1>1, <3>1
    <2>2. MaxLimit > 0
      BY <1>0
    <2>3. QED  BY <1>0, <1>2, <2>1, <2>2, AppendSpaced DEF SlidingInv
  <1>6. Kept(stamps)'
    <2> HIDE DEF L, n
    <2>1. L + 1 - (n + 1) = L - n /\ n + 1 <= L + 1
      BY <1>2
    <2>2. ASSUME NEW i \in 1..(n + 1) PROVE stamps'[i] = log'[L - n + i]
      <3>1. CASE i = n + 1
        <4>1. L - n + (n + 1) = L + 1
          BY <1>2
        <4>2. QED  BY <1>2, <3>1, <4>1
      <3>2. CASE i \in 1..n
        <4>1. L - n + i \in 1..L
          BY <1>2, <3>2
        <4>2. s[i] = log[L - n + i]
          BY <1>1, <3>2 DEF L, n
        <4>3. QED  BY <1>2, <3>2, <4>1, <4>2
      <3>3. i = n + 1 \/ i \in 1..n
        BY <1>2
      <3>4. QED  BY <3>1, <3>2, <3>3
    <2>3. ASSUME NEW i \in 1..(L - n) PROVE log'[i] + MinPeriod <= now
      <3>1. i \in 1..L
        BY <1>2
      <3>2. log[i] + MinPeriod <= now
        BY <1>1 DEF L, n
      <3>3. QED  BY <1>2, <3>1, <3>2
    <2>4. /\ Len(stamps') = n + 1 /\ Len(log') - Len(stamps') = L - n
          /\ Len(stamps') <= Len(log') /\ now' = now /\ stamps' \in Seq(Nat)
      BY <1>2, <2>1
    <2>5. QED  BY <2>2, <2>3, <2>4 DEF Kept
  <1>7. \A i \in 1..Len(log') : log'[i] + MinPeriod <= expires'
    <2> SUFFICES ASSUME NEW i \in 1..Len(log') PROVE log'[i] + MinPeriod <= expires'
      OBVIOUS
    <2>1. log'[i] \in Nat /\ log'[i] <= now
      <3>1. CASE i = L + 1
        BY <1>0, <1>2, <3>1
      <3>2. CASE i \in 1..L
        BY <1>0, <1>2, <3>2
      <3>3. i = L + 1 \/ i \in 1..L
        <4>1. L \in Nat /\ i \in 1..(L + 1)
          BY <1>2
        <4> HIDE DEF L
        <4>2. QED  BY <4>1
      <3>4. QED  BY <3>1, <3>2, <3>3
    <2>2. QED  BY <1>3, <2>1
  <1>8. SlidingSafe'
    BY <1>2 DEF SlidingSafe
  <1>9. QED  BY <1>4, <1>5, <1>6, <1>7, <1>8 DEF SlidingInv

(***************************************************************************)
(* A rejection: the live set is full of admissions of the window in force, *)
(* and the first of them has left it after the time that is advertised.    *)
(***************************************************************************)
LEMMA SlidingRejects ==
    ASSUME SlidingInv, NEW s, Kept(s), \A i \in 1..Len(s) : s[i] + Period > now,
           Len(s) >= limit, Rejects(Sliding!SecondsLeft(s)),
           stamps' = s, expires' = now + Period + Margin
    PROVE  SlidingInv' /\ SlidingSafe'
  <1>0. /\ now \in Nat /\ log \in Seq(Nat) /\ limit \in Nat /\ limit > 0
        /\ Period \in Nat /\ MinPeriod \in Nat /\ MinPeriod <= Period /\ Margin \in Nat
        /\ SEC \in Nat /\ SEC > 0 /\ Len(log) \in Nat
        /\ \A i \in 1..Len(log) : log[i] \in Nat /\ log[i] <= now
    BY BaseFacts, RedisAssumption DEF SlidingInv, RedisAssumption
  <1>1. /\ s \in Seq(Nat) /\ Len(s) \in Nat /\ Len(s) <= Len(log)
        /\ \A i \in 1..Len(s) : s[i] = log[Len(log) - Len(s) + i] /\ s[i] \in Nat
    BY DEF Kept
  <1> DEFINE e == now + Period + Margin
             v == Sliding!SecondsLeft(s)
  <1>2. /\ now' = now /\ log' = log /\ limit' = limit /\ window' = window
        /\ reply'.val = v /\ Period' = Period
    BY DEF Rejects, Period
  <1>3. e \in Nat /\ \A x \in Nat : x <= now => x + MinPeriod <= e
    BY <1>0
  <1>4. Base'
    <2>1. Base /\ expires' \in Nat
      BY <1>3 DEF SlidingInv
    <2>2. QED  BY <2>1, RejectsBase
  <1>5. Spaced(MaxLimit, MinPeriod)'
    BY <1>2 DEF SlidingInv, Spaced
  <1>6. Kept(stamps)'
    BY <1>2 DEF Kept
  <1>7. \A i \in 1..Len(log') : log'[i] + MinPeriod <= expires'
    BY <1>0, <1>2, <1>3
  <1>8. Spent(limit, Period)'
    <2> DEFINE i == Len(s) - limit + 1
    <2>1. i \in 1..Len(s) /\ Len(log) - limit + 1 = Len(log) - Len(s) + i /\ Len(log) >= limit
      BY <1>0, <1>1
    <2> HIDE DEF i
    <2>2. log[Len(log) - limit + 1] = s[i] /\ s[i] \in Nat /\ s[i] + Period > now
      BY <1>1, <2>1
    <2>3. \A x \in Nat : x + Period > now => x > now - Period
      BY <1>0
    <2>4. log[Len(log) - limit + 1] > now - Period
      BY <2>2, <2>3
    <2>5. QED  BY <1>2, <2>1, <2>4 DEF Spent
  <1>9. v * SEC \in Nat /\ s[1] + Period <= now + v * SEC
    <2>1. 1 \in 1..Len(s) /\ s[1] \in Nat /\ ~Sliding!HasRoom(Len(s))
      <3>1. 1 \in 1..Len(s) /\ ~(Len(s) < limit)
        BY <1>0, <1>1
      <3>2. QED  BY <1>1, <3>1 DEF Sliding!HasRoom
    <2> DEFINE d == s[1] + Period - now
               r == CeilSeconds(d)
    <2>2. d \in Int
      BY <1>0, <2>1
    <2>3. v = IF r < 1 THEN 1 ELSE r
      BY <2>1 DEF Sliding!SecondsLeft, Sliding!CeilSeconds, CeilSeconds, Sliding!Period,
                  Period
    <2>4. r \in Nat /\ r * SEC \in Nat /\ r * SEC >= d
      BY <2>2, CeilReaches
    <2> HIDE DEF r, v
    <2>5. v * SEC \in Nat /\ v * SEC >= d
      <3>1. CASE r < 1
        <4>1. r = 0 /\ v = 1 /\ 0 * SEC = 0 /\ 1 * SEC = SEC
          BY <1>0, <2>3, <2>4, <3>1
        <4> HIDE DEF d
        <4>2. QED  BY <1>0, <2>2, <2>4, <4>1
      <3>2. CASE ~(r < 1)
        BY <2>3, <2>4, <3>2
      <3>3. QED  BY <3>1, <3>2
    <2> DEFINE x == s[1]
               y == v * SEC
    <2>6. x \in Nat /\ y \in Nat /\ y >= x + Period - now
      BY <2>1, <2>5
    <2> HIDE DEF x, y
    <2>7. x + Period <= now + y
      BY <1>0, <2>6
    <2>8. QED  BY <2>6, <2>7 DEF x, y
  <1>10. ASSUME (Len(stamps) = limit)' PROVE Sliding!AdmitsAt(now + reply.val * SEC)'
    <2> DEFINE t == now + v * SEC
               live == LiveOf(s, e, Period, t)
    <2>1. Sliding!LiveAt(now + reply.val * SEC)' = live
      <3>1. Sliding!LiveAt(now + reply.val * SEC)'
               = LiveOf(stamps', expires', Period', now' + reply'.val * SEC)
        BY DEF Sliding!LiveAt, Sliding!Expired, Sliding!Period, Period, LiveOf, Out
      <3>2. QED  BY <1>2, <3>1
    <2>2. t \in Nat /\ s[1] + Period <= t /\ Len(s) = limit
      BY <1>0, <1>2, <1>9, <1>10
    <2> HIDE DEF t, e
    <2>3. Len(live) < limit
      <3>1. CASE t >= e
        <4>1. live = <<>>
          BY <3>1 DEF LiveOf
        <4>2. QED  BY <1>0, <4>1
      <3>2. CASE ~(t >= e)
        <4>1. t < e
          BY <1>3, <2>2, <3>2
        <4>2. PICK j \in 0..Len(s) :
                  /\ Len(live) = Len(s) - j
                  /\ j < Len(s) => s[j + 1] + Period > t
          BY <1>0, <1>1, <1>3, <2>2, <4>1, LiveFacts
        <4>3. j # 0
          <5>1. s[1] \in Nat
            BY <1>0, <1>1, <2>2
          <5>2. ~(s[1] + Period > t)
            BY <1>0, <2>2, <5>1
          <5>3. 0 < Len(s) /\ 0 + 1 = 1
            BY <1>0, <2>2
          <5>4. QED  BY <4>2, <5>2, <5>3
        <4> HIDE DEF live
        <4>4. QED  BY <1>0, <2>2, <4>2, <4>3
      <3>3. QED  BY <3>1, <3>2
    <2>4. QED  BY <1>2, <2>1, <2>3 DEF Sliding!AdmitsAt, Sliding!HasRoom
  <1>11. QED
    BY <1>4, <1>5, <1>6, <1>7, <1>8, <1>10 DEF SlidingInv, SlidingSafe

(***************************************************************************)
(* The invariant of the sliding window is kept by every step.              *)
(***************************************************************************)
LEMMA SlidingQuiet ==
    ASSUME SlidingInv, Quiet, NEW s, Kept(s), stamps' = s
    PROVE  SlidingInv' /\ SlidingSafe'
  <1>1. Base'
    BY QuietBase DEF SlidingInv
  <1>2. Kept(stamps)'
    BY KeptLater DEF SlidingInv
  <1>3. Spaced(MaxLimit, MinPeriod)' /\ \A i \in 1..Len(log') : log'[i] + MinPeriod <= expires'
    BY DEF SlidingInv, Spaced, Quiet
  <1>4. SlidingSafe'
    BY DEF SlidingSafe, Quiet
  <1>5. QED  BY <1>1, <1>2, <1>3, <1>4 DEF SlidingInv

\* Every step of the sliding window keeps its invariant and its promises.
LEMMA SlidingStep == ASSUME SlidingInv, Sliding!Next PROVE SlidingInv' /\ SlidingSafe'
  <1> DEFINE live == Sliding!LiveAt(now)
  <1>1. Kept(live) /\ \A i \in 1..Len(live) : live[i] + Period > now
    BY LiveKept
  <1>2. Kept(stamps)
    BY DEF SlidingInv
  <1>3. \/ SlidingDecides(live)
        \/ Quiet /\ stamps' = live
        \/ Quiet /\ stamps' = stamps
    BY SlidingShape
  <1> HIDE DEF live
  <1>4. QED
    BY <1>1, <1>2, <1>3, SlidingAdmits, SlidingRejects, SlidingQuiet DEF SlidingDecides

----------------------------------------------------------------------------
(***************************************************************************)
(* The two buckets: their rate and the lifetime of their keys are those of *)
(* some policy.  (An object that _retune caught halfway has the rate of    *)
(* one policy and the capacity of another.)                                *)
(***************************************************************************)
BucketBase == Base /\ rate \in Rates /\ ttl \in TTLs

\* A lifetime is at most the longest period.
LEMMA TTLFacts ==
    ASSUME NEW d \in TTLs
    PROVE  d \in Nat /\ MaxPeriod \in Nat /\ d <= MaxPeriod
  <1>1. PICK l \in Limits, w \in Windows : d = TTLOf(l, w)
    BY DEF TTLs
  <1> DEFINE v == IF <<l, w>> \in Shortened THEN w - 1 ELSE w
  <1>2. w \in Nat /\ SEC \in Nat /\ v \in Nat /\ v <= w
    BY LimiterAssumption DEF LimiterAssumption
  <1>3. d = v * SEC
    BY <1>1 DEF TTLOf
  <1>4. MaxPeriod \in Nat /\ w * SEC <= MaxPeriod
    BY RedisAssumption DEF RedisAssumption
  <1> HIDE DEF v
  <1>5. v * SEC \in Nat /\ w * SEC \in Nat /\ v * SEC <= w * SEC
    BY <1>2, ProductMonotone
  <1>6. QED  BY <1>3, <1>4, <1>5

\* The numbers of a bucket and their order.
LEMMA BucketFacts ==
    ASSUME BucketBase
    PROVE  /\ Unit \in Nat /\ Unit > 0
           /\ rate \in Nat /\ MinRate \in Nat /\ MaxRate \in Nat /\ FullRate \in Nat
           /\ MinRate > 0 /\ MinRate <= rate /\ rate <= MaxRate /\ MaxRate <= FullRate
           /\ ttl \in Nat /\ MaxPeriod \in Nat /\ ttl <= MaxPeriod
           /\ limit * Unit \in Nat /\ MinLimit * Unit \in Nat /\ MaxLimit * Unit \in Nat
           /\ Unit <= limit * Unit /\ MinLimit * Unit <= limit * Unit
           /\ limit * Unit <= MaxLimit * Unit
  <1>1. PICK l \in Limits, w \in Windows : rate = Rate(l, w)
    BY DEF BucketBase, Rates
  <1>2. /\ rate \in Nat /\ MinRate <= rate /\ rate <= MaxRate
        /\ MinRate \in Nat /\ MinRate > 0 /\ MaxRate \in Nat
        /\ Unit \in Nat /\ Unit > 0
    BY <1>1, BucketAssumption DEF BucketAssumption
  <1>3. FullRate \in Nat /\ MaxRate <= FullRate
    BY RedisBucketAssumption DEF RedisBucketAssumption
  <1>4. ttl \in Nat /\ MaxPeriod \in Nat /\ ttl <= MaxPeriod
    BY TTLFacts DEF BucketBase
  <1>5. /\ limit \in Nat /\ 1 <= limit /\ MinLimit <= limit /\ limit <= MaxLimit
        /\ MinLimit \in Nat /\ MaxLimit \in Nat
    BY BaseFacts DEF BucketBase
  <1>6. 1 * Unit <= limit * Unit /\ 1 * Unit = Unit
    BY <1>2, <1>5, ProductMonotone
  <1>7. /\ MinLimit * Unit <= limit * Unit /\ limit * Unit <= MaxLimit * Unit
        /\ limit * Unit \in Nat /\ MinLimit * Unit \in Nat /\ MaxLimit * Unit \in Nat
    BY <1>2, <1>5, ProductMonotone
  <1>8. QED  BY <1>2, <1>3, <1>4, <1>6, <1>7

(***************************************************************************)
(* A balance a at time y, of which at most (at least) what flows at rate f *)
(* until time z is added, keeps within (above) a line of that slope.       *)
(***************************************************************************)
LEMMA CarryUp ==
    ASSUME NEW f \in Nat, NEW x \in Nat, NEW y \in Nat, NEW z \in Nat,
           NEW c \in Int, NEW a \in Int, NEW n \in Int, NEW m \in Int,
           c + a <= m + f * (y - x), n <= a + f * (z - y)
    PROVE  c + n <= m + f * (z - x)
  <1> DEFINE p == f * (y - x)
             q == f * (z - y)
             r == f * (z - x)
  <1>1. p \in Int /\ q \in Int /\ r = q + p
    BY ProductSplit
  <1>2. c + a <= m + p /\ n <= a + q
    OBVIOUS
  <1> HIDE DEF p, q, r
  <1>3. c + n <= m + r
    BY <1>1, <1>2
  <1>4. QED  BY <1>3 DEF r

\* The other half of it: what stays above the line.
LEMMA CarryDown ==
    ASSUME NEW f \in Nat, NEW x \in Nat, NEW y \in Nat, NEW z \in Nat,
           NEW c \in Int, NEW a \in Int, NEW n \in Int, NEW m \in Int,
           m + f * (y - x) <= c + a, a + f * (z - y) <= n
    PROVE  m + f * (z - x) <= c + n
  <1> DEFINE p == f * (y - x)
             q == f * (z - y)
             r == f * (z - x)
  <1>1. p \in Int /\ q \in Int /\ r = q + p
    BY ProductSplit
  <1>2. m + p <= c + a /\ a + q <= n
    OBVIOUS
  <1> HIDE DEF p, q, r
  <1>3. m + r <= c + n
    BY <1>1, <1>2
  <1>4. QED  BY <1>3 DEF r

(***************************************************************************)
(* The policies do not change, so a rate and a lifetime that are of some   *)
(* policy stay so.                                                         *)
(***************************************************************************)
LEMMA RateKept == (rate' \in Rates <=> (rate \in Rates)') /\ (ttl' \in TTLs <=> (ttl \in TTLs)')
  BY DEF Rates, Rate, TTLs, TTLOf

\* The lifetimes are constant.
LEMMA LifetimesKept == TTLs' = TTLs
  BY DEF TTLs, TTLOf

\* Products of naturals, stated once for the leaves that hide them.
LEMMA ProductNat == ASSUME NEW a \in Nat, NEW b \in Nat PROVE a * b \in Nat
  OBVIOUS

\* The same for an integer factor.
LEMMA ProductInt == ASSUME NEW a \in Nat, NEW b \in Int PROVE a * b \in Int
  OBVIOUS

----------------------------------------------------------------------------
(***************************************************************************)
(* The token bucket: from every admission on, what was admitted and what   *)
(* is left in the bucket came from a full bucket and the fastest way of    *)
(* filling it (Backed); from some admission on it is all that a full       *)
(* bucket and the slowest refill gave (Funded).  The hash lives for a      *)
(* lifetime after the last decision.                                       *)
(***************************************************************************)
Backed(i) ==
    (Len(log) - i + 1) * Unit + tokens <= MaxLimit * Unit + FullRate * (last_refill - log[i])
Funded(i) ==
    MinLimit * Unit + MinRate * (last_refill - log[i]) <= (Len(log) - i + 1) * Unit + tokens

TokenInv ==
    /\ BucketBase
    /\ tokens \in 0..(MaxLimit * Unit)
    /\ last_refill \in Nat /\ last_refill <= now
    /\ \A i \in 1..Len(log) : Backed(i)
    /\ \/ log = <<>> /\ expires = 0
       \/ /\ \E i \in 1..Len(log) : Funded(i)
          /\ \E d \in TTLs : expires = last_refill + d
    /\ Token!AdmissionsBounded

TokenSafe ==
    Rejected => /\ \E i \in 1..Len(log) :
                      (Len(log) - i + 2) * Unit > MinLimit * Unit + MinRate * (now - log[i])
                /\ Token!AdmitsAt(now + reply.val * SEC)

\* A decision that finds n parts in the bucket
TokenDecides(n) ==
    /\ last_refill' = now /\ expires' = now + ttl /\ UNCHANGED <<rate, ttl>>
    /\ \/ n >= Unit /\ tokens' = n - Unit /\ Admits
       \/ n < Unit /\ tokens' = n /\ Rejects(Token!SecondsUp(n))

(***************************************************************************)
(* What a decision finds in the bucket.                                    *)
(***************************************************************************)
LEMMA TokenRefilled ==
    ASSUME TokenInv
    PROVE  LET n == Token!Refilled IN
           /\ n \in Nat /\ n <= MaxLimit * Unit
           /\ log # <<>> => n <= tokens + FullRate * (now - last_refill)
           /\ n < limit * Unit => /\ log # <<>>
                                  /\ tokens + MinRate * (now - last_refill) <= n
  <1> DEFINE n == Token!Refilled
             d == now - last_refill
             f == limit * Unit
             m == MaxLimit * Unit
             r == d * rate
             u == FullRate * d
             v == MinRate * d
  <1>1. /\ now \in Nat /\ expires \in Nat /\ last_refill \in Nat /\ d \in Nat /\ log \in Seq(Nat)
        /\ tokens \in Nat /\ tokens <= m /\ f \in Nat /\ m \in Nat /\ f <= m
        /\ limit \in Limits
    BY BucketFacts, BaseFacts DEF TokenInv, BucketBase, Base
  <1>2. r \in Nat /\ u \in Nat /\ v \in Nat /\ v <= r /\ r <= u
    <2>1. rate \in Nat /\ MinRate \in Nat /\ FullRate \in Nat /\ MinRate <= rate /\ rate <= FullRate
      BY BucketFacts DEF TokenInv
    <2>2. d \in Nat
      BY <1>1
    <2> HIDE DEF d
    <2>3. MinRate * d <= rate * d /\ rate * d <= FullRate * d /\ rate * d \in Nat
          /\ MinRate * d \in Nat /\ FullRate * d \in Nat
      BY <2>1, <2>2, ProductMonotone
    <2>4. d * rate = rate * d
      BY <2>1, <2>2
    <2>5. QED  BY <2>3, <2>4
  <1>3. CASE now >= expires
    <2>1. Token!Refilled = limit * Unit + (now - now) * rate
      BY <1>3 DEF Token!Refilled, Token!Stored, Token!LastRefill, Token!Gone
    <2>2. now - now = 0 /\ 0 * rate = 0
      BY <1>1, BucketFacts DEF TokenInv
    <2>3. n = f
      BY <1>1, <2>1, <2>2
    <2>4. ASSUME log # <<>> PROVE f <= u
      <3>1. PICK e \in TTLs : expires = last_refill + e
        BY <2>4 DEF TokenInv
      <3>2. e \in Nat /\ limit * Unit <= FullRate * e /\ FullRate \in Nat
        BY <1>1, TTLFacts, RedisBucketAssumption DEF RedisBucketAssumption
      <3>3. e <= d
        BY <1>1, <1>3, <3>1, <3>2
      <3>4. FullRate * e <= FullRate * d /\ e * FullRate \in Nat /\ FullRate * e = e * FullRate
        <4> HIDE DEF d
        <4>1. QED  BY <1>1, <3>2, <3>3, ProductMonotone
      <3> DEFINE g == FullRate * e
      <3>5. g \in Nat /\ f <= g /\ g <= u
        BY <3>2, <3>4
      <3> HIDE DEF f, g, u
      <3>6. QED  BY <1>1, <1>2, <3>5
    <2> HIDE DEF n, d, f, m, u, v
    <2>5. /\ n \in Nat /\ n <= m /\ (log # <<>> => n <= tokens + u) /\ ~(n < f)
      BY <1>1, <1>2, <2>3, <2>4
    <2>6. QED  BY <2>5 DEF n, d, f, m, u
  <1>4. CASE ~(now >= expires)
    <2>1. n = IF now = last_refill \/ tokens + r < f THEN tokens + r ELSE f
      BY <1>4 DEF Token!Refilled, Token!Stored, Token!LastRefill, Token!Gone
    <2>2. now = last_refill => r = 0 /\ v = 0
      <3> SUFFICES ASSUME now = last_refill PROVE r = 0 /\ v = 0
        OBVIOUS
      <3>1. d = 0 /\ rate \in Nat /\ MinRate \in Nat
        BY <1>1, BucketFacts DEF TokenInv
      <3> HIDE DEF d
      <3>2. QED  BY <3>1
    <2>3. log # <<>>
      BY <1>1, <1>4 DEF TokenInv
    <2> HIDE DEF n, d, f, m, u, v, r
    <2>4. n \in Nat /\ n <= m /\ n <= tokens + u /\ (n < f => tokens + v <= n)
      BY <1>1, <1>2, <2>1, <2>2
    <2>5. QED  BY <2>3, <2>4 DEF n, d, f, m, u, v
  <1>5. QED  BY <1>3, <1>4

(***************************************************************************)
(* Every step of the token bucket is a decision or quiet.                  *)
(***************************************************************************)
LEMMA TokenShape ==
    ASSUME TokenInv, Token!Next
    PROVE  \/ TokenDecides(Token!Refilled)
           \/ Quiet /\ UNCHANGED <<tokens, last_refill>> /\ rate' \in Rates /\ ttl' \in TTLs
  <1>0. /\ now \in Nat /\ limit \in Limits /\ window \in Windows
        /\ rate \in Rates /\ ttl \in TTLs /\ Unit \in Nat
    BY BucketFacts DEF TokenInv, BucketBase, Base
  <1>1. CASE Token!AllowRequest
    <2> DEFINE n == Token!Refilled
    <2>1. n \in Nat
      BY TokenRefilled
    <2> HIDE DEF n
    <2>2. /\ last_refill' = now /\ expires' = now + ttl
          /\ UNCHANGED <<now, limit, window, rate, ttl>>
          /\ tokens' = IF n >= Unit THEN n - Unit ELSE n
          /\ reply'.op = "allow" /\ reply'.ok = (n >= Unit)
          /\ reply'.val = Token!SecondsUp(tokens')
          /\ log' = IF n >= Unit THEN Append(log, now) ELSE log
      BY <1>1 DEF Token!AllowRequest, Token!Decide, Token!HasToken, n
    <2>3. CASE n >= Unit
      BY <2>2, <2>3 DEF TokenDecides, Admits, Rejected, n
    <2>4. CASE n < Unit
      <3>1. ~(n >= Unit)
        BY <1>0, <2>1, <2>4
      <3>2. QED  BY <2>2, <2>4, <3>1 DEF TokenDecides, Rejects, n
    <2>5. QED  BY <1>0, <2>1, <2>3, <2>4
  <1>2. CASE ~Token!AllowRequest
    <2>1. reply'.op # "allow"
      BY <1>2 DEF Token!Next, Token!OutsideScripts, Token!AnswerFromCache, Token!ReadFresh,
           Token!AnswerFresh, Token!RecreateBucket, Token!Recreate, Token!Tick,
           Token!RetuneCapacity, Token!RetuneRate, Token!Retune, Token!Answer, Token!NoReply
    <2>2. /\ log' = log /\ expires' = expires /\ UNCHANGED <<tokens, last_refill>>
          /\ now' = now \/ now' = now + 1
          /\ limit' \in Limits /\ window' \in Windows
      BY <1>0, <1>2 DEF Token!Next, Token!OutsideScripts, Token!AnswerFromCache,
           Token!ReadFresh, Token!AnswerFresh, Token!RecreateBucket, Token!Recreate,
           Token!Tick, Token!RetuneCapacity, Token!RetuneRate, Token!Retune
    <2>3. /\ rate' = rate \/ \E l \in Limits, w \in Windows : rate' = Token!Rate(l, w)
          /\ ttl' = ttl \/ \E l \in Limits, w \in Windows : ttl' = Token!TTLOf(l, w)
      BY <1>0, <1>2 DEF Token!Next, Token!OutsideScripts, Token!AnswerFromCache,
           Token!ReadFresh, Token!AnswerFresh, Token!RecreateBucket, Token!Recreate,
           Token!Tick, Token!RetuneCapacity, Token!RetuneRate, Token!Retune
    <2>4. \A l, w : Token!Rate(l, w) = Rate(l, w) /\ Token!TTLOf(l, w) = TTLOf(l, w)
      BY DEF Token!Rate, Rate, Token!TTLOf, TTLOf
    <2>5. rate' \in Rates /\ ttl' \in TTLs
      BY <1>0, <2>3, <2>4 DEF Rates, TTLs
    <2>6. QED  BY <1>0, <2>1, <2>2, <2>5 DEF Quiet, Rejected
  <1>3. QED  BY <1>1, <1>2

(***************************************************************************)
(* The balances of the history with what a decision finds in the bucket.   *)
(***************************************************************************)
LEMMA TokenCarried ==
    ASSUME TokenInv
    PROVE  LET n == Token!Refilled IN
           /\ \A i \in 1..Len(log) :
                 /\ (Len(log) - i + 1) * Unit \in Int
                 /\ (Len(log) - i + 1) * Unit + n
                       <= MaxLimit * Unit + FullRate * (now - log[i])
           /\ n < limit * Unit =>
                 \E i \in 1..Len(log) :
                    MinLimit * Unit + MinRate * (now - log[i]) <= (Len(log) - i + 1) * Unit + n
  <1> DEFINE n == Token!Refilled
             m == MaxLimit * Unit
             f == MinLimit * Unit
             C(i) == (Len(log) - i + 1) * Unit
  <1>1. /\ now \in Nat /\ last_refill \in Nat /\ log \in Seq(Nat) /\ Len(log) \in Nat
        /\ tokens \in Int /\ Unit \in Nat /\ m \in Int /\ f \in Int
        /\ FullRate \in Nat /\ MinRate \in Nat
    BY BucketFacts, BaseFacts DEF TokenInv, BucketBase
  <1>2. /\ n \in Int
        /\ log # <<>> => n <= tokens + FullRate * (now - last_refill)
        /\ n < limit * Unit => /\ log # <<>>
                               /\ tokens + MinRate * (now - last_refill) <= n
    BY TokenRefilled
  <1>3. ASSUME NEW i \in 1..Len(log) PROVE C(i) \in Int /\ log[i] \in Nat /\ log # <<>>
    BY <1>1, OneMore
  <1> HIDE DEF n, m, f
  <1>4. ASSUME NEW i \in 1..Len(log) PROVE C(i) + n <= m + FullRate * (now - log[i])
    <2>1. C(i) + tokens <= m + FullRate * (last_refill - log[i])
      BY DEF TokenInv, Backed, m
    <2>2. C(i) \in Int /\ log[i] \in Nat /\ n <= tokens + FullRate * (now - last_refill)
      BY <1>2, <1>3
    <2> HIDE DEF C
    <2>3. QED  BY <1>1, <1>2, <2>1, <2>2, CarryUp
  <1>5. ASSUME n < limit * Unit
        PROVE  \E i \in 1..Len(log) : f + MinRate * (now - log[i]) <= C(i) + n
    <2>1. PICK i \in 1..Len(log) : Funded(i)
      BY <1>2, <1>5 DEF TokenInv
    <2>2. f + MinRate * (last_refill - log[i]) <= C(i) + tokens
      BY <2>1 DEF Funded, f
    <2>3. C(i) \in Int /\ log[i] \in Nat /\ tokens + MinRate * (now - last_refill) <= n
      BY <1>2, <1>3, <1>5
    <2> HIDE DEF C
    <2>4. f + MinRate * (now - log[i]) <= C(i) + n
      BY <1>1, <1>2, <2>2, <2>3, CarryDown
    <2>5. QED  BY <2>4
  <1>6. QED  BY <1>3, <1>4, <1>5 DEF n, m, f

(***************************************************************************)
(* What every admission does to a bound on all intervals of the history:   *)
(* it holds on if it holds for the intervals that end with the new one.    *)
(***************************************************************************)
Within(b, f) ==
    \A i, k \in 1..Len(log) :
        i <= k => (k - i + 1) * Unit <= b + f * (log[k] - log[i])

\* One admission more keeps the bound of the log, if every suffix has room for it.
LEMMA AppendWithin ==
    ASSUME NEW b \in Nat, NEW f \in Nat, Unit \in Nat, Unit <= b,
           now \in Nat, log \in Seq(Nat), log' = Append(log, now), Within(b, f),
           \A i \in 1..Len(log) :
              (Len(log) - i + 1) * Unit + Unit <= b + f * (now - log[i])
    PROVE  Within(b, f)'
  <1> DEFINE n == Len(log)
  <1>1. /\ n \in Nat /\ Len(log') = n + 1 /\ log'[n + 1] = now
        /\ \A i \in 1..n : log'[i] = log[i] /\ log[i] \in Nat
        /\ \A i \in 1..Len(log') : i \in 1..n \/ i = n + 1
    BY LogGrown
  <1>2. ASSUME NEW i \in 1..n
        PROVE  (n + 1 - i + 1) * Unit <= b + f * (now - log[i])
    <2>1. (n + 1 - i + 1) * Unit = (n - i + 1) * Unit + Unit
      BY <1>1, OneMore
    <2>2. QED  BY <2>1
  <1>3. (n + 1 - (n + 1) + 1) * Unit <= b + f * (now - now)
    <2>1. n + 1 - (n + 1) + 1 = 1 /\ now - now = 0 /\ f * 0 = 0 /\ 1 * Unit = Unit
      BY <1>1
    <2>2. QED  BY <2>1
  <1> HIDE DEF n
  <1>4. ASSUME NEW i \in 1..Len(log'), NEW k \in 1..Len(log'), i <= k
        PROVE  (k - i + 1) * Unit <= b + f * (log'[k] - log'[i])
    <2>1. CASE k = n + 1 /\ i \in 1..n
      <3>1. log'[k] = now /\ log'[i] = log[i]
        BY <1>1, <2>1
      <3>2. (n + 1 - i + 1) * Unit <= b + f * (now - log[i])
        BY <1>2, <2>1
      <3>3. k - i + 1 = n + 1 - i + 1
        BY <1>1, <2>1
      <3>4. QED  BY <3>1, <3>2, <3>3
    <2>2. CASE k = n + 1 /\ i = n + 1
      BY <1>1, <1>3, <2>2
    <2>3. CASE k \in 1..n
      <3>1. i \in 1..n
        BY <1>1, <1>4, <2>3
      <3>2. (k - i + 1) * Unit <= b + f * (log[k] - log[i])
        BY <1>4, <2>3, <3>1 DEF Within, n
      <3>3. QED  BY <1>1, <2>3, <3>1, <3>2
    <2>4. QED  BY <1>1, <2>1, <2>2, <2>3
  <1>5. QED  BY <1>4 DEF Within

(***************************************************************************)
(* An admission takes the token out of the bucket that it adds to the      *)
(* history; if the bucket was full, the history is funded from here on.    *)
(***************************************************************************)
LEMMA TokenAdmits ==
    ASSUME TokenInv, NEW n, n = Token!Refilled, n >= Unit, tokens' = n - Unit, Admits,
           last_refill' = now, expires' = now + ttl, UNCHANGED <<rate, ttl>>
    PROVE  TokenInv' /\ TokenSafe'
  <1> DEFINE m == MaxLimit * Unit
             f == MinLimit * Unit
             L == Len(log)
             C(k) == k * Unit
  <1>0. /\ now \in Nat /\ log \in Seq(Nat) /\ Unit \in Nat /\ Unit > 0 /\ m \in Nat /\ f \in Nat
        /\ f <= limit * Unit /\ limit * Unit \in Nat /\ Unit <= m
        /\ FullRate \in Nat /\ MinRate \in Nat /\ ttl \in Nat
    <2>1. /\ Unit <= limit * Unit /\ limit * Unit <= m
          /\ m \in Nat /\ limit * Unit \in Nat /\ Unit \in Nat
      BY BucketFacts DEF TokenInv
    <2> HIDE DEF m
    <2>2. Unit <= m
      BY <2>1
    <2>3. QED  BY <2>2, BucketFacts, BaseFacts DEF TokenInv, BucketBase, m
  <1>1. n \in Nat /\ n <= m
    BY TokenRefilled
  <1>2. /\ \A i \in 1..L : C(L - i + 1) \in Int /\ C(L - i + 1) + n <= m + FullRate * (now - log[i])
        /\ n < limit * Unit =>
              \E i \in 1..L : f + MinRate * (now - log[i]) <= C(L - i + 1) + n
    BY TokenCarried
  <1>3. log' = Append(log, now) /\ now' = now /\ ~Rejected'
    BY DEF Admits
  <1>4. /\ L \in Nat /\ Len(log') = L + 1 /\ log'[L + 1] = now
        /\ \A i \in 1..L : log'[i] = log[i] /\ log[i] \in Nat
        /\ \A i \in 1..Len(log') : i \in 1..L \/ i = L + 1
    BY <1>0, <1>3, LogGrown
  <1> HIDE DEF L
  <1>5. /\ \A i \in 1..L : C(L + 1 - i + 1) = C(L - i + 1) + Unit
        /\ C(L + 1 - (L + 1) + 1) = Unit
        /\ FullRate * (now - now) = 0 /\ MinRate * (now - now) = 0
    <2>1. \A i \in 1..L : C(L + 1 - i + 1) = C(L - i + 1) + Unit
      BY <1>0, <1>4, OneMore
    <2>2. /\ L + 1 - (L + 1) + 1 = 1 /\ now - now = 0
          /\ FullRate * 0 = 0 /\ MinRate * 0 = 0 /\ 1 * Unit = Unit
      BY <1>0, <1>4
    <2>3. QED  BY <2>1, <2>2
  <1> HIDE DEF C, m, f
  <1>6. BucketBase' /\ tokens' \in 0..m /\ last_refill' \in Nat /\ last_refill' <= now'
    <2>1. Base /\ expires' \in Nat
      BY <1>0 DEF TokenInv, BucketBase
    <2>2. Base'
      BY <2>1, AdmitsBase
    <2>3. BucketBase'
      BY <2>2, RateKept DEF TokenInv, BucketBase
    <2>4. QED  BY <1>0, <1>1, <1>3, <2>3
  <1>7. ASSUME NEW i \in 1..Len(log') PROVE Backed(i)'
    <2>1. C(L + 1 - i + 1) + (n - Unit) <= m + FullRate * (now - log'[i])
      <3>1. CASE i \in 1..L
        <4>1. /\ C(L - i + 1) \in Int /\ C(L - i + 1) + n <= m + FullRate * (now - log[i])
              /\ C(L + 1 - i + 1) = C(L - i + 1) + Unit /\ log'[i] = log[i]
          BY <1>2, <1>4, <1>5, <3>1
        <4>2. C(L + 1 - i + 1) + (n - Unit) = C(L - i + 1) + n
          BY <1>0, <1>1, <4>1
        <4>3. QED  BY <4>1, <4>2
      <3>2. CASE i = L + 1
        BY <1>0, <1>1, <1>4, <1>5, <3>2
      <3>3. QED  BY <1>4, <3>1, <3>2
    <2>2. QED  BY <1>4, <2>1 DEF Backed, C, m
  <1>8. \E i \in 1..Len(log') : Funded(i)'
    <2>1. CASE n < limit * Unit
      <3>1. PICK i \in 1..L : f + MinRate * (now - log[i]) <= C(L - i + 1) + n
        BY <1>2, <2>1
      <3>2. /\ C(L - i + 1) \in Int /\ C(L + 1 - i + 1) = C(L - i + 1) + Unit
            /\ log'[i] = log[i] /\ i \in 1..Len(log')
        BY <1>2, <1>4, <1>5
      <3>3. C(L + 1 - i + 1) + (n - Unit) = C(L - i + 1) + n
        <4> DEFINE c == C(L - i + 1)
                   d == C(L + 1 - i + 1)
        <4>1. c \in Int /\ d = c + Unit
          BY <3>2
        <4> HIDE DEF c, d
        <4>2. d + (n - Unit) = c + n
          BY <1>0, <1>1, <4>1
        <4>3. QED  BY <4>2 DEF c, d
      <3>4. f + MinRate * (now - log'[i]) <= C(L + 1 - i + 1) + (n - Unit)
        BY <3>1, <3>2, <3>3
      <3>5. Funded(i)'
        BY <1>4, <3>4 DEF Funded, C, f
      <3>6. QED  BY <3>2, <3>5
    <2>2. CASE ~(n < limit * Unit)
      <3>1. f + MinRate * (now - log'[L + 1]) <= C(L + 1 - (L + 1) + 1) + (n - Unit)
        BY <1>0, <1>1, <1>4, <1>5, <2>2
      <3>2. PICK i \in 1..Len(log') : i = L + 1
        BY <1>4
      <3>3. Funded(i)'
        BY <1>4, <3>1, <3>2 DEF Funded, C, f
      <3>4. QED  BY <3>3
    <2>3. QED  BY <2>1, <2>2
  <1>9. expires' = last_refill' + ttl' /\ ttl' \in TTLs
    BY <1>6 DEF BucketBase
  <1>10. Token!AdmissionsBounded'
    <2>1. ASSUME NEW i \in 1..L PROVE C(L - i + 1) + Unit <= m + FullRate * (now - log[i])
      <3> DEFINE z == FullRate * (now - log[i])
                 c == C(L - i + 1)
      <3>1. c \in Int /\ c + n <= m + z
        BY <1>2
      <3>2. z \in Int
        <4>1. now - log[i] \in Int
          BY <1>0, <1>4
        <4>2. QED  BY <1>0, <4>1, ProductInt
      <3> HIDE DEF z, c
      <3>3. c + Unit <= m + z
        BY <1>0, <1>1, <3>1, <3>2
      <3>4. QED  BY <3>3 DEF z, c
    <2>2. Within(m, FullRate)
      BY DEF TokenInv, Token!AdmissionsBounded, Within, m
    <2>3. Within(m, FullRate)'
      BY <1>0, <1>3, <2>1, <2>2, AppendWithin DEF C, L
    <2>4. QED  BY <2>3 DEF Token!AdmissionsBounded, Within, m
  <1>11. TokenSafe'
    BY <1>3 DEF TokenSafe
  <1>12. TokenInv'
    BY <1>6, <1>7, <1>8, <1>9, <1>10 DEF TokenInv, m
  <1>13. QED  BY <1>11, <1>12

(***************************************************************************)
(* A rejection: the bucket was not full, so all that it was funded with    *)
(* has been admitted, but for less than a token; and the time that is      *)
(* advertised fills up that token.                                         *)
(***************************************************************************)
LEMMA TokenRejects ==
    ASSUME TokenInv, NEW n, n = Token!Refilled, n < Unit, tokens' = n,
           Rejects(Token!SecondsUp(n)),
           last_refill' = now, expires' = now + ttl, UNCHANGED <<rate, ttl>>
    PROVE  TokenInv' /\ TokenSafe'
  <1> DEFINE m == MaxLimit * Unit
             f == MinLimit * Unit
             L == Len(log)
             C(k) == k * Unit
             v == Token!SecondsUp(n)
  <1>0. /\ now \in Nat /\ log \in Seq(Nat) /\ L \in Nat /\ Unit \in Nat /\ Unit > 0
        /\ m \in Nat /\ f \in Nat /\ limit * Unit \in Nat /\ Unit <= limit * Unit
        /\ FullRate \in Nat /\ MinRate \in Nat /\ ttl \in Nat
        /\ rate \in Nat /\ rate > 0 /\ SEC \in Nat /\ SEC > 0
        /\ \A i \in 1..L : log[i] \in Nat
    <2>1. Base /\ BucketBase
      BY DEF TokenInv, BucketBase
    <2>2. rate > 0
      BY <2>1, BucketFacts
    <2>3. QED  BY <2>1, <2>2, BucketFacts, BaseFacts
  <1>1. n \in Nat /\ n <= m /\ n < limit * Unit
    <2>1. n \in Nat /\ n <= m
      BY TokenRefilled
    <2> HIDE DEF m
    <2>2. QED  BY <1>0, <2>1
  <1>2. /\ \A i \in 1..L : C(L - i + 1) \in Int /\ C(L - i + 1) + n <= m + FullRate * (now - log[i])
        /\ \E i \in 1..L : f + MinRate * (now - log[i]) <= C(L - i + 1) + n
    BY <1>1, TokenCarried
  <1>3. /\ log' = log /\ now' = now /\ limit' = limit /\ window' = window
        /\ reply'.val = v
    BY DEF Rejects
  <1>4. BucketBase'
    <2>1. Base /\ expires' \in Nat
      BY <1>0 DEF TokenInv, BucketBase
    <2>2. Base'
      BY <2>1, RejectsBase
    <2>3. QED  BY <2>2, RateKept DEF TokenInv, BucketBase
  <1>5. \A i \in 1..Len(log') : Backed(i)'
    BY <1>2, <1>3 DEF Backed
  <1>6. \E i \in 1..Len(log') : Funded(i)'
    BY <1>2, <1>3 DEF Funded
  <1>7. expires' = last_refill' + ttl' /\ ttl' \in TTLs
    BY <1>4 DEF BucketBase
  <1>8. Token!AdmissionsBounded'
    BY <1>3 DEF TokenInv, Token!AdmissionsBounded
  <1>9. \E i \in 1..Len(log') :
           (Len(log') - i + 2) * Unit > MinLimit * Unit + MinRate * (now' - log'[i])
    <2>1. PICK i \in 1..L : f + MinRate * (now - log[i]) <= C(L - i + 1) + n
      BY <1>2
    <2>2. (L - i + 2) * Unit = (L - i + 1) * Unit + Unit /\ (L - i + 1) * Unit \in Int
      <3>1. L - i + 1 \in Int /\ L - i + 2 = (L - i + 1) + 1
        BY <1>0
      <3> DEFINE k == L - i + 1
      <3> HIDE DEF k
      <3>2. k \in Int => (k + 1) * Unit = k * Unit + Unit /\ k * Unit \in Int
        BY <1>0
      <3>3. QED  BY <3>1, <3>2 DEF k
    <2> DEFINE z == MinRate * (now - log[i])
               c == (L - i + 1) * Unit
    <2>3. z \in Int
      <3>1. now - log[i] \in Int
        BY <1>0
      <3>2. QED  BY <1>0, <3>1, ProductInt
    <2>4. f + z <= c + n /\ c \in Int
      BY <2>1, <2>2
    <2>5. c + Unit > f + z
      <3> HIDE DEF z, c, f
      <3>1. QED  BY <1>0, <1>1, <2>3, <2>4
    <2>6. (L - i + 2) * Unit > f + z
      BY <2>2, <2>5
    <2>7. QED  BY <1>3, <2>6
  <1>10. Token!AdmitsAt(now + reply.val * SEC)'
    <2> DEFINE q == rate * SEC
               r == Unit - n
    <2>1. v = (r + q - 1) \div q
      <3>1. ~(n >= Unit)
        BY <1>0, <1>1
      <3>2. QED  BY <3>1 DEF Token!SecondsUp, Token!HasToken
    <2>2. q \in Nat /\ q > 0 /\ r \in Nat
      BY <1>0, <1>1
    <2>3. v \in Nat /\ v * q >= r /\ v * q \in Nat
      <3> HIDE DEF q, r
      <3>1. QED  BY <2>1, <2>2, QuotientUp
    <2> HIDE DEF v
    <2>4. ((now + v * SEC) - now) * rate = v * q
      <3>1. v * SEC \in Nat /\ (v * SEC) * rate = v * (rate * SEC)
        BY <1>0, <2>3
      <3>2. (now + v * SEC) - now = v * SEC
        BY <1>0, <3>1
      <3>3. QED  BY <3>1, <3>2
    <2> DEFINE sum == n + ((now + v * SEC) - now) * rate
    <2>5. sum >= Unit
      <3>1. sum = n + v * q
        BY <2>4
      <3> DEFINE y == v * q
      <3>2. y \in Nat /\ y >= Unit - n /\ sum = n + y
        BY <2>3, <3>1
      <3> HIDE DEF y, sum
      <3>3. QED  BY <1>0, <1>1, <3>2
    <2>6. Token!UnexpiredAt(now + reply.val * SEC)'
             = IF sum < limit * Unit THEN sum ELSE limit * Unit
      <3>1. /\ rate' = rate /\ last_refill' = now /\ tokens' = n
            /\ now' = now /\ limit' = limit /\ reply'.val = v
        BY <1>3
      <3>2. QED  BY <3>1, Zenon DEF Token!UnexpiredAt
    <2> HIDE DEF sum
    <2>7. Token!UnexpiredAt(now + reply.val * SEC)' >= Unit
      BY <1>0, <2>5, <2>6
    <2>8. QED  BY <2>7 DEF Token!AdmitsAt, Token!HasToken
  <1>11. TokenInv'
    <2>1. tokens' \in 0..(MaxLimit * Unit) /\ last_refill' \in Nat /\ last_refill' <= now'
      BY <1>0, <1>1, <1>3
    <2>2. QED  BY <1>4, <1>5, <1>6, <1>7, <1>8, <2>1 DEF TokenInv
  <1>12. QED  BY <1>9, <1>10, <1>11 DEF TokenSafe

(***************************************************************************)
(* The invariant of the token bucket is kept by every step.                *)
(***************************************************************************)
LEMMA TokenQuiet ==
    ASSUME TokenInv, Quiet, UNCHANGED <<tokens, last_refill>>, rate' \in Rates, ttl' \in TTLs
    PROVE  TokenInv' /\ TokenSafe'
  <1>0. /\ log' = log /\ expires' = expires /\ now <= now' /\ now \in Nat /\ now' \in Nat
        /\ ~Rejected'
    BY DEF TokenInv, BucketBase, Base, Quiet
  <1>1. BucketBase'
    <2>1. Base'
      BY QuietBase DEF TokenInv, BucketBase
    <2>2. QED  BY <2>1, RateKept DEF BucketBase
  <1>2. last_refill \in Nat /\ last_refill' \in Nat /\ last_refill' <= now'
    BY <1>0 DEF TokenInv
  <1>3. tokens' \in 0..(MaxLimit * Unit)
    BY DEF TokenInv
  <1>4. \A i \in 1..Len(log') : Backed(i)'
    BY <1>0 DEF TokenInv, Backed
  <1>5. \/ log' = <<>> /\ expires' = 0
        \/ /\ \E i \in 1..Len(log') : Funded(i)'
           /\ \E d \in TTLs : expires' = last_refill' + d
    BY <1>0 DEF TokenInv, Funded
  <1>6. Token!AdmissionsBounded'
    BY <1>0 DEF TokenInv, Token!AdmissionsBounded
  <1>7. TokenInv'
    <2>1. (\E d \in TTLs : expires' = last_refill' + d)
             => (\E d \in TTLs : expires = last_refill + d)'
      BY LifetimesKept
    <2>2. QED  BY <1>1, <1>2, <1>3, <1>4, <1>5, <1>6, <2>1 DEF TokenInv
  <1>8. QED  BY <1>0, <1>7 DEF TokenSafe

\* Every step of the token bucket keeps its invariant and its promises.
LEMMA TokenStep == ASSUME TokenInv, Token!Next PROVE TokenInv' /\ TokenSafe'
  <1> DEFINE n == Token!Refilled
  <1>1. \/ TokenDecides(n)
        \/ Quiet /\ UNCHANGED <<tokens, last_refill>> /\ rate' \in Rates /\ ttl' \in TTLs
    BY TokenShape
  <1>2. CASE TokenDecides(n)
    <2>1. CASE n >= Unit /\ tokens' = n - Unit /\ Admits
      BY <1>2, <2>1, TokenAdmits DEF TokenDecides
    <2>2. CASE n < Unit /\ tokens' = n /\ Rejects(Token!SecondsUp(n))
      BY <1>2, <2>2, TokenRejects DEF TokenDecides
    <2>3. QED  BY <1>2, <2>1, <2>2 DEF TokenDecides
  <1>3. QED  BY <1>1, <1>2, TokenQuiet

----------------------------------------------------------------------------
(***************************************************************************)
(* The leaky bucket, t being the time of the last decision (or a later     *)
(* time at which the set was seen expired): from every admission on, what  *)
(* was admitted is in the queue, or drained until last_leak, or expired    *)
(* until t (Held).  From some admission on the queue was never empty, and  *)
(* what left it is at least what drains at one request per LeakCost until  *)
(* the time that counts as drained, which is the deadline of the set when  *)
(* last_leak_key may be gone before it (Drained).                          *)
(***************************************************************************)
Held(i, t) ==
    (Len(log) - i + 1) * Unit
       <= (queue * Unit + Leaky!Slack) + MaxRate * (last_leak - log[i]) + FullRate * (t - log[i])
Counts == IF leak_expires < expires THEN expires ELSE last_leak
Drained(i) == MinRate * (Counts - log[i]) <= ((Len(log) - i + 1) - queue) * LeakCost

LeakyInv ==
    /\ BucketBase
    /\ queue \in Nat /\ last_leak \in Nat /\ leak_expires \in Nat
    /\ last_leak <= now /\ expires <= now + MaxPeriod
    /\ queue = 0 \/ \E l \in Limits : queue <= l
    /\ \E t \in Nat :
          /\ t <= now
          /\ queue = 0 \/ \E d \in TTLs : t + d <= expires
          /\ \A i \in 1..Len(log) : Held(i, t)
    /\ queue = 0 \/ now >= expires \/ \E i \in 1..Len(log) : Drained(i)
    /\ Leaky!AdmissionsBounded

LeakySafe ==
    Rejected => /\ \E i \in 1..Len(log) :
                      (Len(log) - i + 1) * LeakCost + Unit
                         > MinLimit * LeakCost + MinRate * (now - log[i])
                /\ queue = limit => Leaky!AdmitsAt(now + reply.val * SEC)

\* The slack and the cost are natural numbers
LEMMA LeakConstants ==
    ASSUME BucketBase
    PROVE  /\ Leaky!Slack \in Nat /\ LeakCost \in Nat /\ 2 * Unit \in Nat
           /\ MinRate * MaxPeriod \in Nat /\ LeakCost = 2 * Unit + MinRate * MaxPeriod
  <1>1. /\ Unit \in Nat /\ MinRate \in Nat /\ MinRate > 0 /\ MaxRate \in Nat /\ MaxPeriod \in Nat
    BY BucketFacts
  <1>2. (Unit + MinRate - 1) \div MinRate \in Nat
    BY <1>1, QuotientUp
  <1>3. Leaky!Slack \in Nat
    BY <1>1, <1>2 DEF Leaky!Slack
  <1>4. MinRate * MaxPeriod \in Nat /\ 2 * Unit \in Nat
    BY <1>1
  <1>5. QED  BY <1>3, <1>4 DEF LeakCost

(***************************************************************************)
(* What a script finds at the present: the time y it stores, what has      *)
(* leaked, k, and what is left of the queue, n.                            *)
(***************************************************************************)
LEMMA LeakyFound ==
    ASSUME LeakyInv
    PROVE  LET n == Leaky!QueueAt(now)
               k == Leaky!Leaked(now)
               y == Leaky!LeakTime
           IN  /\ n \in Nat /\ k \in Nat /\ y \in Nat
               /\ last_leak <= y /\ y <= now /\ n <= queue
               /\ MinRate * (now - y) < Unit /\ MaxRate * (now - y) <= Leaky!Slack
               /\ now < expires => queue * Unit <= n * Unit + MaxRate * (y - last_leak)
               /\ n > 0 => now < expires /\ n = queue - k
               /\ now < leak_expires => MinRate * (y - last_leak) <= k * (2 * Unit)
               /\ k = 0 /\ now < leak_expires => y = last_leak
  <1> DEFINE n == Leaky!QueueAt(now)
             k == Leaky!Leaked(now)
             y == Leaky!LeakTime
             z == Leaky!LastLeak(now)
             d == now - z
  <1>1. /\ now \in Nat /\ last_leak \in Nat /\ leak_expires \in Nat /\ expires \in Nat
        /\ last_leak <= now /\ queue \in Nat
        /\ Unit \in Nat /\ Unit > 0 /\ rate \in Nat
        /\ MinRate \in Nat /\ MinRate > 0 /\ MaxRate \in Nat
        /\ MinRate <= rate /\ rate <= MaxRate
    BY BucketFacts, BaseFacts DEF LeakyInv, BucketBase
  <1>2. z \in Nat /\ last_leak <= z /\ z <= now /\ (now < leak_expires => z = last_leak)
        /\ (z = now \/ z = last_leak)
    BY <1>1 DEF Leaky!LastLeak
  <1>3. d \in Nat
    BY <1>1, <1>2
  <1>4. k = (d * rate) \div Unit
    BY DEF Leaky!Leaked
  <1>5. y = IF k > 0 THEN now ELSE z
    BY DEF Leaky!LeakTime
  <1>6. n = IF now >= expires \/ queue <= k THEN 0 ELSE queue - k
    BY DEF Leaky!QueueAt
  <1> HIDE DEF n, k, y, z
  <1>7. /\ k \in Nat /\ k * Unit \in Nat /\ MinRate * d \in Nat /\ MaxRate * d \in Nat
        /\ k * Unit <= MaxRate * d
        /\ k > 0 => MinRate * d <= 2 * (k * Unit)
        /\ k = 0 => MinRate * d < Unit
    <2> HIDE DEF d
    <2>1. QED  BY <1>1, <1>3, <1>4, LeakArithmetic
  <1>8. /\ n \in Nat /\ n <= queue /\ (n > 0 => now < expires /\ n = queue - k)
        /\ now < expires => queue <= n + k
    BY <1>1, <1>6, <1>7
  <1>9. y \in Nat /\ last_leak <= y /\ y <= now
    BY <1>1, <1>2, <1>5, <1>7
  <1>10. MinRate * (now - y) < Unit /\ MaxRate * (now - y) <= Leaky!Slack
    <2>1. CASE k > 0
      <3>1. now - y = 0 /\ MinRate * 0 = 0 /\ MaxRate * 0 = 0
        BY <1>1, <1>5, <2>1
      <3>2. Leaky!Slack \in Nat
        BY LeakConstants DEF LeakyInv
      <3>3. QED  BY <1>1, <3>1, <3>2
    <2>2. CASE ~(k > 0)
      <3>1. now - y = d /\ MinRate * d < Unit
        BY <1>5, <1>7, <2>2
      <3> HIDE DEF d
      <3>2. MaxRate * d <= Leaky!Slack
        BY <1>1, <1>3, <3>1, PendingArithmetic DEF Leaky!Slack
      <3>3. QED  BY <3>1, <3>2
    <2>3. QED  BY <2>1, <2>2
  <1>11. ASSUME now < expires
         PROVE  queue * Unit <= n * Unit + MaxRate * (y - last_leak)
    <2>1. queue * Unit <= (n + k) * Unit /\ (n + k) * Unit = n * Unit + k * Unit /\ n * Unit \in Nat
          /\ queue * Unit \in Nat
      <3>1. n + k \in Nat /\ queue <= n + k
        BY <1>7, <1>8, <1>11
      <3>2. queue * Unit <= (n + k) * Unit /\ queue * Unit \in Nat
        BY <1>1, <3>1, ProductMonotone
      <3>3. (n + k) * Unit = n * Unit + k * Unit /\ n * Unit \in Nat
        BY <1>1, <1>7, <1>8
      <3>4. QED  BY <3>2, <3>3
    <2>2. k * Unit <= MaxRate * (y - last_leak)
      <3>1. CASE k > 0
        <4>1. d # 0
          <5> SUFFICES ASSUME d = 0 PROVE FALSE
            OBVIOUS
          <5>1. MaxRate * d = 0
            <6> HIDE DEF d
            <6>1. QED  BY <1>1
          <5>2. 1 * Unit <= k * Unit /\ 1 * Unit = Unit
            BY <1>1, <1>7, <3>1, ProductMonotone
          <5>3. QED  BY <1>1, <1>7, <5>1, <5>2
        <4>2. z = last_leak
          BY <1>1, <1>2, <4>1
        <4>3. y - last_leak = d
          BY <1>5, <3>1, <4>2
        <4>4. QED  BY <1>7, <4>3
      <3>2. CASE k = 0
        <4>1. 0 * Unit = 0 /\ y - last_leak \in Nat
          BY <1>1, <1>9
        <4>2. MaxRate * (y - last_leak) \in Nat
          BY <1>1, <4>1
        <4>3. QED  BY <3>2, <4>1, <4>2
      <3>3. QED  BY <1>7, <3>1, <3>2
    <2> DEFINE a == queue * Unit
               b == n * Unit
               c == k * Unit
               e == MaxRate * (y - last_leak)
    <2>3. /\ a \in Nat /\ b \in Nat /\ c \in Nat /\ e \in Int
          /\ a <= b + c /\ c <= e
      <3>1. y - last_leak \in Int
        BY <1>1, <1>9
      <3>2. e \in Int
        BY <1>1, <3>1, ProductInt
      <3>3. QED  BY <1>7, <2>1, <2>2, <3>2
    <2> HIDE DEF a, b, c, e
    <2>4. a <= b + e
      BY <2>3
    <2>5. QED  BY <2>4 DEF a, b, e
  <1>12. ASSUME now < leak_expires
         PROVE  /\ MinRate * (y - last_leak) <= k * (2 * Unit)
                /\ k = 0 => y = last_leak
    <2>1. CASE k > 0
      <3>1. y - last_leak = d
        BY <1>2, <1>5, <1>12, <2>1
      <3>2. 2 * (k * Unit) = k * (2 * Unit)
        BY <1>1, <1>7
      <3>3. k # 0
        BY <2>1
      <3>4. QED  BY <1>7, <2>1, <3>1, <3>2, <3>3
    <2>2. CASE k = 0
      <3>1. y = last_leak
        BY <1>2, <1>5, <1>12, <2>2
      <3>2. y - last_leak = 0 /\ MinRate * 0 = 0 /\ 0 * (2 * Unit) = 0
        BY <1>1, <3>1
      <3>3. QED  BY <2>2, <3>1, <3>2
    <2>3. QED  BY <1>7, <2>1, <2>2
  <1>13. QED  BY <1>7, <1>8, <1>9, <1>10, <1>11, <1>12 DEF n, k, y

(***************************************************************************)
(* The upper balance of the history, with what a script finds.  When it    *)
(* finds the set expired, the whole queue expired in the time since t.     *)
(***************************************************************************)
LEMMA LeakyHeld ==
    ASSUME LeakyInv
    PROVE  LET n == Leaky!QueueAt(now)
               y == Leaky!LeakTime
           IN  \E t \in Nat :
                 /\ t <= now
                 /\ n = 0 \/ \E d \in TTLs : t + d <= expires
                 /\ \A i \in 1..Len(log) :
                       (Len(log) - i + 1) * Unit
                          <= (n * Unit + Leaky!Slack) + MaxRate * (y - log[i]) + FullRate * (t - log[i])
  <1> DEFINE n == Leaky!QueueAt(now)
             y == Leaky!LeakTime
             S == Leaky!Slack
             C(i) == (Len(log) - i + 1) * Unit
             U(i) == MaxRate * (y - log[i])
             V(i, t) == FullRate * (t - log[i])
  <1>1. /\ now \in Nat /\ expires \in Nat /\ last_leak \in Nat /\ queue \in Nat
        /\ Unit \in Nat /\ MaxRate \in Nat /\ FullRate \in Nat /\ S \in Nat
        /\ log \in Seq(Nat) /\ Len(log) \in Nat /\ queue * Unit \in Nat
    <2>1. /\ now \in Nat /\ expires \in Nat /\ log \in Seq(Nat) /\ Len(log) \in Nat
          /\ Unit \in Nat /\ MaxRate \in Nat /\ FullRate \in Nat /\ S \in Nat
      BY BucketFacts, BaseFacts, LeakConstants DEF LeakyInv, BucketBase
    <2>2. queue \in Nat /\ last_leak \in Nat
      BY DEF LeakyInv
    <2>3. QED  BY <2>1, <2>2
  <1>2. /\ n \in Nat /\ y \in Nat /\ last_leak <= y /\ y <= now /\ n <= queue
        /\ now < expires => queue * Unit <= n * Unit + MaxRate * (y - last_leak)
        /\ n > 0 => now < expires
    BY LeakyFound
  <1> HIDE DEF n, y, S
  <1>3. PICK t \in Nat :
           /\ t <= now
           /\ queue = 0 \/ \E d \in TTLs : t + d <= expires
           /\ \A i \in 1..Len(log) : Held(i, t)
    BY DEF LeakyInv
  <1>4. ASSUME NEW i \in 1..Len(log)
        PROVE  /\ C(i) \in Int /\ U(i) \in Int /\ V(i, t) \in Int /\ V(i, now) \in Int
               /\ V(i, now) = FullRate * (now - t) + V(i, t) /\ FullRate * (now - t) \in Nat
               /\ U(i) = MaxRate * (y - last_leak) + MaxRate * (last_leak - log[i])
               /\ MaxRate * (y - last_leak) \in Nat /\ MaxRate * (last_leak - log[i]) \in Int
               /\ C(i) <= (queue * Unit + S) + MaxRate * (last_leak - log[i]) + V(i, t)
    <2>1. log[i] \in Nat
      BY <1>1
    <2>2. C(i) \in Int
      BY <1>1, OneMore
    <2>3. /\ y - log[i] \in Int /\ t - log[i] \in Int /\ now - log[i] \in Int
          /\ last_leak - log[i] \in Int /\ now - t \in Nat /\ y - last_leak \in Nat
      <3> DEFINE x == log[i]
      <3>1. /\ x \in Nat /\ y \in Nat /\ t \in Nat /\ now \in Nat /\ last_leak \in Nat
            /\ t <= now /\ last_leak <= y
        BY <1>1, <1>2, <1>3, <2>1
      <3> HIDE DEF x
      <3>2. /\ y - x \in Int /\ t - x \in Int /\ now - x \in Int
            /\ last_leak - x \in Int /\ now - t \in Nat /\ y - last_leak \in Nat
        BY <3>1
      <3>3. QED  BY <3>2 DEF x
    <2>4. /\ U(i) \in Int /\ V(i, t) \in Int /\ V(i, now) \in Int
          /\ MaxRate * (last_leak - log[i]) \in Int
      BY <1>1, <2>3, ProductInt
    <2>5. FullRate * (now - t) \in Nat /\ MaxRate * (y - last_leak) \in Nat
      BY <1>1, <2>3, ProductNat
    <2>6. V(i, now) = FullRate * (now - t) + V(i, t)
      BY <1>1, <2>1, ProductSplit
    <2>7. U(i) = MaxRate * (y - last_leak) + MaxRate * (last_leak - log[i])
      BY <1>1, <1>2, <2>1, ProductSplit
    <2>8. C(i) <= (queue * Unit + S) + MaxRate * (last_leak - log[i]) + V(i, t)
      BY <1>3 DEF Held, S
    <2>9. QED  BY <2>2, <2>4, <2>5, <2>6, <2>7, <2>8
  <1>5. CASE now < expires
    <2>1. ASSUME NEW i \in 1..Len(log)
          PROVE  C(i) <= (n * Unit + S) + U(i) + V(i, t)
      <3> DEFINE c == C(i)
                 u == U(i)
                 v == V(i, t)
                 a == queue * Unit
                 b == n * Unit
                 e == MaxRate * (y - last_leak)
                 f == MaxRate * (last_leak - log[i])
      <3>1. /\ c \in Int /\ u \in Int /\ v \in Int /\ a \in Nat /\ b \in Nat /\ e \in Nat
            /\ f \in Int
            /\ u = e + f /\ c <= (a + S) + f + v /\ a <= b + e
        <4>1. b \in Nat
          BY <1>1, <1>2
        <4>2. QED  BY <1>1, <1>2, <1>4, <1>5, <4>1
      <3> HIDE DEF c, u, v, a, b, e, f
      <3>2. c <= (b + S) + u + v
        BY <1>1, <3>1
      <3>3. QED  BY <3>2 DEF c, u, v, b
    <2>2. n = 0 \/ \E d \in TTLs : t + d <= expires
      BY <1>1, <1>2, <1>3
    <2>3. QED  BY <1>3, <2>1, <2>2 DEF n, y, S
  <1>6. CASE ~(now < expires)
    <2>1. n = 0
      BY <1>2, <1>6
    <2>2. queue * Unit <= FullRate * (now - t)
      <3>1. CASE queue = 0
        <4>1. 0 * Unit = 0 /\ now - t \in Nat
          BY <1>1, <1>3
        <4>2. FullRate * (now - t) \in Nat
          BY <1>1, <4>1
        <4>3. QED  BY <3>1, <4>1, <4>2
      <3>2. CASE queue # 0
        <4>1. PICK l \in Limits : queue <= l
          BY <3>2 DEF LeakyInv
        <4>2. PICK d \in TTLs : t + d <= expires
          BY <1>3, <3>2
        <4>3. l \in Nat /\ d \in Nat /\ l * Unit <= FullRate * d
          BY LimiterAssumption, TTLFacts, RedisBucketAssumption
             DEF LimiterAssumption, RedisBucketAssumption
        <4>4. d <= now - t /\ now - t \in Nat
          BY <1>1, <1>3, <1>6, <4>2, <4>3
        <4>5. queue * Unit <= l * Unit /\ queue * Unit \in Nat /\ l * Unit \in Nat
          BY <1>1, <4>1, <4>3, ProductMonotone
        <4>6. FullRate * d <= FullRate * (now - t) /\ FullRate * d \in Nat
              /\ FullRate * (now - t) \in Nat
          <5> DEFINE x == now - t
          <5> HIDE DEF x
          <5>1. d <= x /\ x \in Nat
            BY <4>4 DEF x
          <5>2. FullRate * d <= FullRate * x
            BY <1>1, <4>3, <5>1, ProductMonotone
          <5>3. FullRate * d \in Nat /\ FullRate * x \in Nat
            BY <1>1, <4>3, <5>1
          <5>4. QED  BY <5>2, <5>3 DEF x
        <4> DEFINE a == queue * Unit
                   b == l * Unit
                   c == FullRate * d
                   e == FullRate * (now - t)
        <4>7. a \in Nat /\ b \in Nat /\ c \in Nat /\ e \in Nat /\ a <= b /\ b <= c /\ c <= e
          BY <4>3, <4>5, <4>6
        <4> HIDE DEF a, b, c, e
        <4>8. a <= e
          BY <4>7
        <4>9. QED  BY <4>8 DEF a, e
      <3>3. QED  BY <3>1, <3>2
    <2>3. ASSUME NEW i \in 1..Len(log)
          PROVE  C(i) <= (n * Unit + S) + U(i) + V(i, now)
      <3> DEFINE c == C(i)
                 u == U(i)
                 v == V(i, t)
                 w == V(i, now)
                 a == queue * Unit
                 e == MaxRate * (y - last_leak)
                 f == MaxRate * (last_leak - log[i])
                 g == FullRate * (now - t)
                 h == n * Unit
      <3>1. /\ c \in Int /\ u \in Int /\ v \in Int /\ w \in Int /\ a \in Nat /\ e \in Nat
            /\ f \in Int /\ g \in Nat
            /\ w = g + v /\ u = e + f /\ c <= (a + S) + f + v /\ a <= g
        BY <1>1, <1>4, <2>2
      <3>2. h = 0
        BY <1>1, <2>1
      <3> HIDE DEF c, u, v, w, a, e, f, g, h
      <3>3. c <= (h + S) + u + w
        BY <1>1, <3>1, <3>2
      <3>4. QED  BY <3>3 DEF c, u, w, h
    <2>4. now <= now
      BY <1>1
    <2>5. QED  BY <1>1, <2>1, <2>3, <2>4 DEF n, y, S
  <1>7. QED  BY <1>5, <1>6

(***************************************************************************)
(* What left the queue pays for the time that counts as drained: each      *)
(* request for two of its Units at the slowest rate, and for the longest   *)
(* lifetime, which is lost at most once after each time something leaked.  *)
(***************************************************************************)
LEMMA LeakyPaid ==
    ASSUME LeakyInv, now < expires, NEW c \in Nat,
           \/ c = Leaky!LeakTime
           \/ c = expires /\ (Leaky!Leaked(now) > 0 \/ leak_expires < expires)
    PROVE  MinRate * (c - Counts) <= Leaky!Leaked(now) * LeakCost
  <1> DEFINE k == Leaky!Leaked(now)
             y == Leaky!LeakTime
             a == 2 * Unit
             b == MinRate * MaxPeriod
  <1>1. /\ now \in Nat /\ expires \in Nat /\ last_leak \in Nat /\ leak_expires \in Nat
        /\ expires <= now + MaxPeriod /\ MaxPeriod \in Nat
        /\ MinRate \in Nat /\ a \in Nat /\ b \in Nat /\ LeakCost = a + b
    <2>1. /\ now \in Nat /\ expires \in Nat /\ MaxPeriod \in Nat
          /\ MinRate \in Nat /\ a \in Nat /\ b \in Nat /\ LeakCost = a + b
      BY BucketFacts, BaseFacts, LeakConstants DEF LeakyInv, BucketBase
    <2>2. last_leak \in Nat /\ leak_expires \in Nat /\ expires <= now + MaxPeriod
      BY DEF LeakyInv
    <2>3. QED  BY <2>1, <2>2
  <1>2. /\ k \in Nat /\ y \in Nat /\ last_leak <= y /\ y <= now
        /\ now < leak_expires => MinRate * (y - last_leak) <= k * a
        /\ k = 0 /\ now < leak_expires => y = last_leak
        /\ MinRate * (now - y) < Unit
    BY LeakyFound
  <1> HIDE DEF a, b
  <1>3. /\ k * LeakCost = k * a + k * b /\ k * a \in Nat /\ k * b \in Nat
        /\ k > 0 => b <= k * b
    <2> HIDE DEF k
    <2>1. k * LeakCost = k * a + k * b /\ k * a \in Nat /\ k * b \in Nat
      BY <1>1, <1>2
    <2>2. k > 0 => 1 * b <= k * b /\ 1 * b = b
      BY <1>1, <1>2, ProductMonotone
    <2>3. QED  BY <2>1, <2>2
  <1>4. CASE leak_expires < expires
    <2>1. Counts = expires /\ c <= expires
      BY <1>1, <1>2, <1>4 DEF Counts
    <2>2. MinRate * (expires - c) \in Nat /\ MinRate * (c - expires) = 0 - MinRate * (expires - c)
      <3>1. expires - c \in Nat
        BY <1>1, <2>1
      <3> DEFINE x == expires - c
      <3>2. c - expires = 0 - x /\ x \in Nat
        BY <1>1, <3>1
      <3> HIDE DEF x
      <3>3. MinRate * x \in Nat /\ MinRate * (0 - x) = 0 - MinRate * x
        BY <1>1, <3>2
      <3>4. QED  BY <3>2, <3>3 DEF x
    <2> DEFINE p == MinRate * (expires - c)
               q == MinRate * (c - expires)
               u == k * a
               v == k * b
    <2>3. p \in Nat /\ q = 0 - p /\ u \in Nat /\ v \in Nat
      BY <1>3, <2>2
    <2> HIDE DEF p, q, u, v
    <2>4. q <= u + v
      BY <2>3
    <2>5. QED  BY <1>3, <2>1, <2>4 DEF q, u, v
  <1>5. CASE ~(leak_expires < expires)
    <2>1. Counts = last_leak /\ now < leak_expires
      BY <1>1, <1>5 DEF Counts
    <2>2. CASE c = y
      <3> DEFINE p == MinRate * (y - last_leak)
                 u == k * a
                 v == k * b
      <3>1. u \in Nat /\ v \in Nat /\ p <= u /\ p \in Int
        <4>1. y - last_leak \in Int
          BY <1>1, <1>2
        <4>2. p \in Int
          BY <1>1, <4>1, ProductInt
        <4>3. QED  BY <1>2, <1>3, <2>1, <4>2
      <3> HIDE DEF p, u, v
      <3>2. p <= u + v
        BY <3>1
      <3>3. QED  BY <1>3, <2>1, <2>2, <3>2 DEF p, u, v
    <2>3. CASE c = expires /\ k > 0
      <3>1. MinRate * (expires - last_leak)
               = MinRate * (expires - y) + MinRate * (y - last_leak)
        BY <1>1, <1>2, ProductSplit
      <3>2. y = now
        BY <2>3 DEF Leaky!LeakTime
      <3>3. MinRate * (expires - y) <= b /\ MinRate * (expires - y) \in Nat
        <4> DEFINE x == expires - y
        <4>1. x \in Nat /\ x <= MaxPeriod
          BY <1>1, <3>2
        <4> HIDE DEF x
        <4>2. MinRate * x <= MinRate * MaxPeriod /\ x * MinRate \in Nat /\ x * MinRate = MinRate * x
          BY <1>1, <4>1, ProductMonotone
        <4>3. QED  BY <4>2 DEF x, b
      <3> DEFINE p == MinRate * (expires - y)
                 q == MinRate * (y - last_leak)
                 r == MinRate * (expires - last_leak)
                 u == k * a
                 v == k * b
      <3>4. /\ p \in Nat /\ q \in Int /\ u \in Nat /\ v \in Nat /\ b \in Nat
            /\ r = p + q /\ p <= b /\ q <= u /\ b <= v
        <4>1. y - last_leak \in Int
          BY <1>1, <1>2
        <4>2. q \in Int
          BY <1>1, <4>1, ProductInt
        <4>3. QED  BY <1>1, <1>2, <1>3, <2>1, <2>3, <3>1, <3>3, <4>2
      <3> HIDE DEF p, q, r, u, v
      <3>5. r <= u + v
        BY <3>4
      <3>6. QED  BY <1>3, <2>1, <2>3, <3>5 DEF r, u, v
    <2>4. QED  BY <1>5, <2>2, <2>3
  <1>6. QED  BY <1>4, <1>5

(***************************************************************************)
(* While something is left in the queue, what drained pays for the time.   *)
(***************************************************************************)
LEMMA LeakyDrained ==
    ASSUME LeakyInv, Leaky!QueueAt(now) > 0, NEW c \in Nat,
           \/ c = Leaky!LeakTime
           \/ c = expires /\ (Leaky!Leaked(now) > 0 \/ leak_expires < expires)
    PROVE  \E i \in 1..Len(log) :
              MinRate * (c - log[i]) <= ((Len(log) - i + 1) - Leaky!QueueAt(now)) * LeakCost
  <1> DEFINE n == Leaky!QueueAt(now)
             k == Leaky!Leaked(now)
  <1>1. n \in Nat /\ k \in Nat /\ now < expires /\ n = queue - k
    BY LeakyFound
  <1>2. MinRate * (c - Counts) <= k * LeakCost
    BY <1>1, LeakyPaid
  <1>3. /\ expires \in Nat /\ now \in Nat /\ queue \in Nat /\ Counts \in Nat
        /\ MinRate \in Nat /\ LeakCost \in Nat /\ Len(log) \in Nat /\ log \in Seq(Nat)
    <2>1. /\ expires \in Nat /\ now \in Nat /\ log \in Seq(Nat) /\ Len(log) \in Nat
          /\ MinRate \in Nat /\ LeakCost \in Nat
      BY BucketFacts, BaseFacts, LeakConstants DEF LeakyInv, BucketBase
    <2>2. queue \in Nat /\ Counts \in Nat
      BY <2>1 DEF LeakyInv, Counts
    <2>3. QED  BY <2>1, <2>2
  <1> HIDE DEF n, k
  <1>4. PICK i \in 1..Len(log) : Drained(i)
    BY <1>1, <1>3 DEF LeakyInv, n
  <1> DEFINE a == Len(log) - i + 1
             x == log[i]
  <1>5. /\ a \in Int /\ x \in Nat /\ MinRate * (Counts - x) <= (a - queue) * LeakCost
    <2>1. a \in Int /\ x \in Nat
      BY <1>3
    <2>2. MinRate * (Counts - x) <= (a - queue) * LeakCost
      BY <1>4 DEF Drained
    <2>3. QED  BY <2>1, <2>2
  <1> HIDE DEF a, x
  <1>6. (a - n) * LeakCost = (a - queue) * LeakCost + k * LeakCost
    <2>1. a - n = (a - queue) + k
      BY <1>1, <1>3, <1>5
    <2> DEFINE b == a - queue
    <2>2. b \in Int
      BY <1>3, <1>5
    <2> HIDE DEF b
    <2>3. (b + k) * LeakCost = b * LeakCost + k * LeakCost
      BY <1>1, <1>3, <2>2
    <2>4. QED  BY <2>1, <2>3 DEF b
  <1>7. MinRate * (c - x) = MinRate * (c - Counts) + MinRate * (Counts - x)
    BY <1>3, <1>5, ProductSplit
  <1> DEFINE p == MinRate * (c - Counts)
             q == MinRate * (Counts - x)
             u == (a - queue) * LeakCost
             v == k * LeakCost
  <1>8. p \in Int /\ q \in Int /\ u \in Int /\ v \in Int /\ p <= v /\ q <= u
    <2>1. c - Counts \in Int /\ Counts - x \in Int /\ a - queue \in Int
      BY <1>3, <1>5
    <2>2. p \in Int /\ q \in Int
      BY <1>3, <2>1, ProductInt
    <2>3. u \in Int /\ v \in Int
      <3> DEFINE b == a - queue
      <3> HIDE DEF b
      <3>1. b \in Int => b * LeakCost \in Int
        BY <1>3
      <3>2. k * LeakCost \in Int
        BY <1>1, <1>3
      <3>3. QED  BY <2>1, <3>1, <3>2 DEF b
    <2>4. QED  BY <1>2, <1>5, <2>2, <2>3
  <1> HIDE DEF p, q, u, v
  <1>9. p + q <= u + v
    BY <1>8
  <1>10. MinRate * (c - x) <= (a - n) * LeakCost
    BY <1>6, <1>7, <1>9 DEF p, q, u, v
  <1>11. QED  BY <1>10 DEF a, x, n

(***************************************************************************)
(* The upper balance of the history at the present.                        *)
(***************************************************************************)
LEMMA LeakyHeldNow ==
    ASSUME LeakyInv
    PROVE  \A i \in 1..Len(log) :
              (Len(log) - i + 1) * Unit
                 <= (Leaky!QueueAt(now) * Unit + Leaky!Slack) + MaxRate * (Leaky!LeakTime - log[i])
                       + FullRate * (now - log[i])
  <1> DEFINE n == Leaky!QueueAt(now)
             y == Leaky!LeakTime
             S == Leaky!Slack
  <1>1. /\ now \in Nat /\ Unit \in Nat /\ MaxRate \in Nat /\ FullRate \in Nat /\ S \in Nat
        /\ log \in Seq(Nat) /\ Len(log) \in Nat /\ n \in Nat /\ y \in Nat
    <2>1. /\ now \in Nat /\ log \in Seq(Nat) /\ Len(log) \in Nat
          /\ Unit \in Nat /\ MaxRate \in Nat /\ FullRate \in Nat /\ S \in Nat
      BY BucketFacts, BaseFacts, LeakConstants DEF LeakyInv, BucketBase
    <2>2. n \in Nat /\ y \in Nat
      BY LeakyFound
    <2>3. QED  BY <2>1, <2>2
  <1>2. PICK t \in Nat :
           /\ t <= now
           /\ \A i \in 1..Len(log) :
                 (Len(log) - i + 1) * Unit
                    <= (n * Unit + S) + MaxRate * (y - log[i]) + FullRate * (t - log[i])
    BY LeakyHeld
  <1> HIDE DEF n, y, S
  <1>3. ASSUME NEW i \in 1..Len(log)
        PROVE  (Len(log) - i + 1) * Unit
                  <= (n * Unit + S) + MaxRate * (y - log[i]) + FullRate * (now - log[i])
    <2> DEFINE x == log[i]
               c == (Len(log) - i + 1) * Unit
               a == n * Unit
               u == MaxRate * (y - x)
               v == FullRate * (t - x)
               w == FullRate * (now - x)
               g == FullRate * (now - t)
    <2>1. x \in Nat /\ c \in Int /\ a \in Nat /\ c <= (a + S) + u + v
      <3>1. x \in Nat /\ c \in Int
        BY <1>1, OneMore
      <3>2. a \in Nat
        BY <1>1
      <3>3. QED  BY <1>2, <3>1, <3>2
    <2> HIDE DEF x, c, a
    <2>2. y - x \in Int /\ t - x \in Int /\ now - t \in Nat
      BY <1>1, <1>2, <2>1
    <2>3. u \in Int /\ v \in Int /\ g \in Nat
      BY <1>1, <2>2, ProductInt, ProductNat
    <2>4. w = g + v
      BY <1>1, <2>1, ProductSplit
    <2> HIDE DEF u, v, w, g
    <2>5. c <= (a + S) + u + w
      BY <1>1, <2>1, <2>3, <2>4
    <2>6. QED  BY <2>5 DEF x, c, a, u, w
  <1>4. QED  BY <1>3 DEF n, y, S

\* A decision that finds n requests in the queue, and a read
LeakyDecides(n) ==
    /\ last_leak' = Leaky!LeakTime /\ expires' = now + ttl /\ leak_expires' = now + ttl
    /\ UNCHANGED <<rate, ttl>>
    /\ \/ n < limit /\ queue' = n + 1 /\ Admits
       \/ n >= limit /\ queue' = n /\ Rejects(Leaky!SecondsToSlot(n))
LeakyReads ==
    /\ Quiet /\ UNCHANGED <<now, rate, ttl>>
    /\ queue' = Leaky!QueueAt(now) /\ last_leak' = Leaky!LeakTime
    /\ leak_expires' = IF now >= leak_expires \/ Leaky!Leaked(now) > 0
                       THEN now + ttl ELSE leak_expires

(***************************************************************************)
(* Every step of the leaky bucket is a decision, a read or quiet.          *)
(***************************************************************************)
LEMMA LeakyShape ==
    ASSUME LeakyInv, Leaky!Next
    PROVE  \/ LeakyDecides(Leaky!QueueAt(now))
           \/ LeakyReads
           \/ /\ Quiet /\ UNCHANGED <<queue, last_leak, leak_expires>>
              /\ rate' \in Rates /\ ttl' \in TTLs
  <1>0. /\ now \in Nat /\ limit \in Limits /\ window \in Windows /\ limit \in Nat
        /\ rate \in Rates /\ ttl \in TTLs
    BY BaseFacts DEF LeakyInv, BucketBase, Base
  <1>1. CASE Leaky!AllowRequest
    <2> DEFINE n == Leaky!QueueAt(now)
    <2>1. n \in Nat
      BY LeakyFound
    <2> HIDE DEF n
    <2>2. /\ last_leak' = Leaky!LeakTime /\ expires' = now + ttl /\ leak_expires' = now + ttl
          /\ UNCHANGED <<now, limit, window, rate, ttl>>
          /\ queue' = IF n < limit THEN n + 1 ELSE n
          /\ reply'.op = "allow" /\ reply'.ok = (n < limit)
          /\ reply'.val = Leaky!SecondsToSlot(n)
          /\ log' = IF n < limit THEN Append(log, now) ELSE log
      BY <1>1 DEF Leaky!AllowRequest, Leaky!Decide, Leaky!HasSlot, n
    <2>3. CASE n < limit
      BY <2>2, <2>3 DEF LeakyDecides, Admits, Rejected, n
    <2>4. CASE n >= limit
      <3>1. ~(n < limit)
        BY <1>0, <2>1, <2>4
      <3>2. QED  BY <2>2, <2>4, <3>1 DEF LeakyDecides, Rejects, n
    <2>5. QED  BY <1>0, <2>1, <2>3, <2>4
  <1>2. CASE Leaky!ReadFresh
    <2>1. reply'.op # "allow"
      BY <1>2 DEF Leaky!ReadFresh, Leaky!AnswerFresh, Leaky!Answer
    <2>2. QED
      BY <1>0, <1>2, <2>1 DEF Leaky!ReadFresh, Leaky!AnswerFresh, LeakyReads, Quiet, Rejected
  <1>3. CASE Leaky!OutsideScripts /\ UNCHANGED <<queue, last_leak, leak_expires>>
    <2>1. reply'.op # "allow"
      BY <1>3 DEF Leaky!OutsideScripts, Leaky!AnswerFromCache,
           Leaky!RecreateBucket, Leaky!Recreate, Leaky!Tick,
           Leaky!RetuneCapacity, Leaky!RetuneRate, Leaky!Retune, Leaky!Answer, Leaky!NoReply
    <2>2. /\ log' = log /\ expires' = expires
          /\ now' = now \/ now' = now + 1
          /\ limit' \in Limits /\ window' \in Windows
      BY <1>0, <1>3 DEF Leaky!OutsideScripts, Leaky!AnswerFromCache,
           Leaky!RecreateBucket, Leaky!Recreate,
           Leaky!Tick, Leaky!RetuneCapacity, Leaky!RetuneRate, Leaky!Retune
    <2>3. /\ rate' = rate \/ \E l \in Limits, w \in Windows : rate' = Leaky!Rate(l, w)
          /\ ttl' = ttl \/ \E l \in Limits, w \in Windows : ttl' = Leaky!TTLOf(l, w)
      BY <1>0, <1>3 DEF Leaky!OutsideScripts, Leaky!AnswerFromCache,
           Leaky!RecreateBucket, Leaky!Recreate,
           Leaky!Tick, Leaky!RetuneCapacity, Leaky!RetuneRate, Leaky!Retune
    <2>4. \A l, w : Leaky!Rate(l, w) = Rate(l, w) /\ Leaky!TTLOf(l, w) = TTLOf(l, w)
      BY DEF Leaky!Rate, Rate, Leaky!TTLOf, TTLOf
    <2>5. rate' \in Rates /\ ttl' \in TTLs
      BY <1>0, <2>3, <2>4 DEF Rates, TTLs
    <2>6. QED  BY <1>0, <1>3, <2>1, <2>2, <2>5 DEF Quiet, Rejected
  <1>4. QED  BY <1>1, <1>2, <1>3 DEF Leaky!Next

(***************************************************************************)
(* An admission joins what is left in the queue; if nothing is, the        *)
(* history drains from here on.                                            *)
(***************************************************************************)
LEMMA LeakyAdmits ==
    ASSUME LeakyInv, NEW n, n = Leaky!QueueAt(now), n < limit, queue' = n + 1, Admits,
           last_leak' = Leaky!LeakTime, expires' = now + ttl, leak_expires' = now + ttl,
           UNCHANGED <<rate, ttl>>
    PROVE  LeakyInv' /\ LeakySafe'
  <1> DEFINE y == Leaky!LeakTime
             S == Leaky!Slack
             m == MaxLimit * Unit
             L == Len(log)
             C(k) == k * Unit
             U(x) == MaxRate * (y - x)
             V(x) == FullRate * (now - x)
  <1>0. /\ now \in Nat /\ log \in Seq(Nat) /\ Unit \in Nat /\ Unit > 0 /\ m \in Nat
        /\ limit \in Nat /\ limit \in Limits /\ limit <= MaxLimit /\ MaxLimit \in Nat
        /\ S \in Nat /\ LeakCost \in Nat /\ MaxRate \in Nat /\ FullRate \in Nat /\ MinRate \in Nat
        /\ ttl \in TTLs /\ ttl \in Nat /\ MaxPeriod \in Nat /\ ttl <= MaxPeriod
    <2>1. BucketBase /\ Base
      BY DEF LeakyInv, BucketBase
    <2>2. /\ Unit \in Nat /\ Unit > 0 /\ m \in Nat /\ S \in Nat /\ LeakCost \in Nat
          /\ MaxRate \in Nat /\ FullRate \in Nat /\ MinRate \in Nat
          /\ ttl \in Nat /\ MaxPeriod \in Nat /\ ttl <= MaxPeriod
      BY <2>1, BucketFacts, LeakConstants
    <2>3. now \in Nat /\ log \in Seq(Nat) /\ limit \in Nat /\ limit <= MaxLimit /\ MaxLimit \in Nat
      BY <2>1, BaseFacts
    <2>4. QED  BY <2>1, <2>2, <2>3 DEF BucketBase, Base
  <1>1. /\ n \in Nat /\ y \in Nat /\ y <= now /\ MaxRate * (now - y) <= S
    BY LeakyFound
  <1>2. \A i \in 1..L : C(L - i + 1) <= (n * Unit + S) + U(log[i]) + V(log[i])
    BY LeakyHeldNow
  <1>3. n > 0 => \E i \in 1..L : MinRate * (y - log[i]) <= ((L - i + 1) - n) * LeakCost
    BY <1>1, LeakyDrained
  <1>4. log' = Append(log, now) /\ now' = now /\ ~Rejected'
    BY DEF Admits
  <1>5. /\ L \in Nat /\ Len(log') = L + 1 /\ log'[L + 1] = now
        /\ \A i \in 1..L : log'[i] = log[i] /\ log[i] \in Nat
        /\ \A i \in 1..Len(log') : i \in 1..L \/ i = L + 1
    BY <1>0, <1>4, LogGrown
  <1>6. last_leak' = y
    OBVIOUS
  <1> HIDE DEF L, y, S
  <1>7. /\ \A i \in 1..L : C(L + 1 - i + 1) = C(L - i + 1) + Unit /\ C(L - i + 1) \in Int
        /\ C(L + 1 - (L + 1) + 1) = Unit
        /\ (n + 1) * Unit = n * Unit + Unit /\ n * Unit \in Nat
        /\ n * Unit + Unit <= m
    <2>1. \A i \in 1..L : C(L + 1 - i + 1) = C(L - i + 1) + Unit /\ C(L - i + 1) \in Int
      BY <1>0, <1>5, OneMore
    <2>2. L + 1 - (L + 1) + 1 = 1 /\ 1 * Unit = Unit
      BY <1>0, <1>5
    <2>3. (n + 1) * Unit = n * Unit + Unit /\ n * Unit \in Nat
      <3>1. n \in Nat /\ Unit \in Nat
        BY <1>0, <1>1
      <3>2. QED  BY <3>1
    <2>4. n + 1 \in Nat /\ n + 1 <= MaxLimit
      <3>1. limit \in Nat /\ limit <= MaxLimit /\ MaxLimit \in Nat /\ n \in Nat /\ n < limit
        BY <1>0, <1>1
      <3>2. QED  BY <3>1
    <2>5. (n + 1) * Unit <= m
      <3> DEFINE k == n + 1
      <3> HIDE DEF k
      <3>1. k \in Nat /\ k <= MaxLimit
        BY <2>4 DEF k
      <3>2. k * Unit <= MaxLimit * Unit
        BY <1>0, <3>1, ProductMonotone
      <3>3. QED  BY <3>2 DEF k
    <2>6. QED  BY <2>1, <2>2, <2>3, <2>5
  <1>8. ASSUME NEW x \in Nat
        PROVE  U(x) \in Int /\ V(x) \in Int /\ U(x) <= MaxRate * (now - x)
               /\ (MaxRate + FullRate) * (now - x) = MaxRate * (now - x) + V(x)
               /\ MaxRate * (now - x) \in Int
    <2>1. y - x \in Int /\ now - x \in Int /\ now - y \in Nat
      BY <1>0, <1>1
    <2> DEFINE a == MaxRate * (now - y)
               b == MaxRate * (y - x)
               c == MaxRate * (now - x)
    <2>2. c = a + b /\ a \in Nat /\ b \in Int /\ c \in Int /\ V(x) \in Int
      <3>1. a \in Nat
        BY <1>0, <2>1, ProductNat
      <3>2. b \in Int /\ c \in Int /\ V(x) \in Int
        BY <1>0, <2>1, ProductInt
      <3>3. c = a + b
        BY <1>0, <1>1, ProductSplit
      <3>4. QED  BY <3>1, <3>2, <3>3
    <2>3. U(x) <= c
      <3> HIDE DEF a, b, c
      <3>1. b <= c
        BY <2>2
      <3>2. QED  BY <3>1 DEF b
    <2>4. (MaxRate + FullRate) * (now - x) = MaxRate * (now - x) + V(x)
      <3> DEFINE z == now - x
      <3> HIDE DEF z
      <3>1. z \in Int => (MaxRate + FullRate) * z = MaxRate * z + FullRate * z
        BY <1>0
      <3>2. QED  BY <2>1, <3>1 DEF z
    <2>5. QED  BY <2>2, <2>3, <2>4
  <1> HIDE DEF C, U, V, m
  <1>9. BucketBase' /\ queue' \in Nat /\ last_leak' \in Nat /\ leak_expires' \in Nat
        /\ last_leak' <= now' /\ expires' <= now' + MaxPeriod
    <2>1. Base /\ expires' \in Nat
      BY <1>0 DEF LeakyInv, BucketBase
    <2>2. Base'
      BY <2>1, AdmitsBase
    <2>3. BucketBase'
      BY <2>2, RateKept DEF LeakyInv, BucketBase
    <2>4. QED  BY <1>0, <1>1, <1>4, <1>6, <2>3
  <1>10. \E l \in Limits : queue' <= l
    BY <1>0, <1>1
  <1>11. ASSUME NEW i \in 1..Len(log') PROVE Held(i, now)'
    <2>1. C(L + 1 - i + 1) <= ((n + 1) * Unit + S) + U(log'[i]) + V(log'[i])
      <3>1. CASE i \in 1..L
        <4> DEFINE c == C(L - i + 1)
                   u == U(log[i])
                   v == V(log[i])
                   a == n * Unit
        <4>1. c \in Int /\ u \in Int /\ v \in Int /\ a \in Nat /\ c <= (a + S) + u + v
          BY <1>2, <1>5, <1>7, <1>8, <3>1
        <4> HIDE DEF c, u, v, a
        <4>2. c + Unit <= ((a + Unit) + S) + u + v
          BY <1>0, <4>1
        <4>3. C(L + 1 - i + 1) = c + Unit /\ log'[i] = log[i] /\ (n + 1) * Unit = a + Unit
          BY <1>5, <1>7, <3>1 DEF c, a
        <4>4. QED  BY <4>2, <4>3 DEF u, v
      <3>2. CASE i = L + 1
        <4> DEFINE a == n * Unit
                   u == MaxRate * (y - now)
                   w == MaxRate * (now - y)
        <4>1. u = 0 - w /\ w \in Nat /\ w <= S
          <5> DEFINE z == now - y
          <5>1. z \in Nat /\ y - now = 0 - z
            BY <1>0, <1>1
          <5> HIDE DEF z
          <5>2. MaxRate * (0 - z) = 0 - MaxRate * z /\ MaxRate * z \in Nat
            BY <1>0, <5>1
          <5>3. QED  BY <1>1, <5>1, <5>2 DEF z
        <4>2. V(now) = 0
          <5>1. now - now = 0 /\ FullRate * 0 = 0
            BY <1>0
          <5>2. QED  BY <5>1 DEF V
        <4>3. a \in Nat
          BY <1>7
        <4> HIDE DEF a, u, w
        <4>4. Unit <= ((a + Unit) + S) + u + 0
          BY <1>0, <4>1, <4>3
        <4>5. C(L + 1 - i + 1) = Unit /\ log'[i] = now /\ (n + 1) * Unit = a + Unit /\ U(now) = u
          BY <1>5, <1>7, <3>2 DEF a, u, U
        <4>6. QED  BY <4>2, <4>4, <4>5
      <3>3. QED  BY <1>5, <3>1, <3>2
    <2>2. QED  BY <1>4, <1>5, <1>6, <2>1 DEF Held, C, U, V, S, Leaky!Slack
  <1>12. \E t \in Nat :
            /\ t <= now'
            /\ queue' = 0 \/ \E d \in TTLs : t + d <= expires'
            /\ \A i \in 1..Len(log') : Held(i, t)'
    <2>1. now <= now' /\ now + ttl <= expires'
      BY <1>0, <1>4
    <2>2. \A i \in 1..Len(log') : Held(i, now)'
      BY <1>11
    <2>3. PICK t \in Nat : t = now
      BY <1>0
    <2>4. \A i \in 1..Len(log') : Held(i, t)'
      BY <1>4, <2>2, <2>3 DEF Held
    <2>5. QED  BY <1>0, <2>1, <2>3, <2>4
  <1>13. \E i \in 1..Len(log') : Drained(i)'
    <2>1. Counts' = y
      <3>1. ~(leak_expires' < expires')
        BY <1>0
      <3>2. QED  BY <1>6, <3>1 DEF Counts
    <2>2. CASE n > 0
      <3>1. PICK i \in 1..L : MinRate * (y - log[i]) <= ((L - i + 1) - n) * LeakCost
        BY <1>3, <2>2
      <3>2. i \in 1..Len(log') /\ log'[i] = log[i] /\ (L + 1 - i + 1) - (n + 1) = (L - i + 1) - n
        BY <1>1, <1>5
      <3>3. Drained(i)'
        BY <1>5, <2>1, <3>1, <3>2 DEF Drained, LeakCost
      <3>4. QED  BY <3>2, <3>3
    <2>3. CASE n = 0
      <3>1. PICK i \in 1..Len(log') : i = L + 1
        BY <1>5
      <3>2. MinRate * (y - now) <= 0
        <4> DEFINE z == now - y
        <4>1. z \in Nat /\ y - now = 0 - z
          BY <1>0, <1>1
        <4> HIDE DEF z
        <4>2. MinRate * (0 - z) = 0 - MinRate * z /\ MinRate * z \in Nat
          BY <1>0, <4>1
        <4>3. QED  BY <4>1, <4>2
      <3>3. (L + 1 - i + 1) - (n + 1) = 0 /\ 0 * LeakCost = 0
        BY <1>0, <1>5, <2>3, <3>1
      <3>4. Drained(i)'
        BY <1>5, <2>1, <3>1, <3>2, <3>3 DEF Drained, LeakCost
      <3>5. QED  BY <3>4
    <2>4. QED  BY <1>1, <2>2, <2>3
  <1>14. Leaky!AdmissionsBounded'
    <2> DEFINE b == m + S
               f == MaxRate + FullRate
    <2>1. b \in Nat /\ f \in Nat /\ Unit <= b
      BY <1>0, <1>7
    <2>2. ASSUME NEW i \in 1..L PROVE C(L - i + 1) + Unit <= b + f * (now - log[i])
      <3> DEFINE c == C(L - i + 1)
                 u == U(log[i])
                 v == V(log[i])
                 a == n * Unit
                 w == MaxRate * (now - log[i])
                 z == (MaxRate + FullRate) * (now - log[i])
      <3>1. /\ c \in Int /\ u \in Int /\ v \in Int /\ a \in Nat /\ w \in Int
            /\ c <= (a + S) + u + v /\ u <= w /\ z = w + v /\ a + Unit <= m
        BY <1>2, <1>5, <1>7, <1>8
      <3> HIDE DEF c, u, v, a, w, z
      <3>2. c + Unit <= (m + S) + z
        BY <1>0, <3>1
      <3>3. QED  BY <3>2 DEF c, z
    <2>3. Within(b, f)
      BY DEF LeakyInv, Leaky!AdmissionsBounded, Within, m, S
    <2> HIDE DEF b, f
    <2>4. Within(b, f)'
      BY <1>0, <1>4, <2>1, <2>2, <2>3, AppendWithin DEF C, L
    <2>5. QED  BY <2>4 DEF Leaky!AdmissionsBounded, Leaky!Slack, Within, m, S, b, f
  <1>15. LeakyInv'
    BY <1>9, <1>10, <1>12, <1>13, <1>14, LifetimesKept DEF LeakyInv
  <1>16. QED  BY <1>4, <1>15 DEF LeakySafe

(***************************************************************************)
(* A rejection: the queue was never empty since some admission and still   *)
(* holds the limit; and in the time that is advertised one request drains, *)
(* or all of them expire.                                                  *)
(***************************************************************************)
LEMMA LeakyRejects ==
    ASSUME LeakyInv, NEW n, n = Leaky!QueueAt(now), n >= limit, queue' = n,
           Rejects(Leaky!SecondsToSlot(n)),
           last_leak' = Leaky!LeakTime, expires' = now + ttl, leak_expires' = now + ttl,
           UNCHANGED <<rate, ttl>>
    PROVE  LeakyInv' /\ LeakySafe'
  <1> DEFINE y == Leaky!LeakTime
             L == Len(log)
             e == now + ttl
             v == Leaky!SecondsToSlot(n)
  <1>0. /\ now \in Nat /\ log \in Seq(Nat) /\ L \in Nat /\ Unit \in Nat /\ Unit > 0
        /\ limit \in Nat /\ limit > 0 /\ MinLimit \in Nat /\ MinLimit <= limit
        /\ LeakCost \in Nat /\ MinRate \in Nat
        /\ rate \in Nat /\ rate > 0 /\ SEC \in Nat /\ SEC > 0
        /\ ttl \in TTLs /\ ttl \in Nat /\ MaxPeriod \in Nat /\ ttl <= MaxPeriod
        /\ \A i \in 1..L : log[i] \in Nat
    <2>1. BucketBase /\ Base
      BY DEF LeakyInv, BucketBase
    <2>2. /\ Unit \in Nat /\ Unit > 0 /\ LeakCost \in Nat /\ MinRate \in Nat
          /\ ttl \in Nat /\ MaxPeriod \in Nat /\ ttl <= MaxPeriod
          /\ MinRate > 0 /\ MinRate <= rate /\ rate \in Nat
      BY <2>1, BucketFacts, LeakConstants
    <2>3. /\ now \in Nat /\ log \in Seq(Nat) /\ L \in Nat /\ SEC \in Nat /\ SEC > 0
          /\ limit \in Nat /\ limit > 0 /\ MinLimit \in Nat /\ MinLimit <= limit
          /\ \A i \in 1..L : log[i] \in Nat
      BY <2>1, BaseFacts
    <2>4. rate > 0
      BY <2>2
    <2>5. QED  BY <2>1, <2>2, <2>3, <2>4 DEF BucketBase
  <1>1. /\ n \in Nat /\ y \in Nat /\ y <= now /\ n <= queue /\ n > 0
        /\ MinRate * (now - y) < Unit
    <2>1. n \in Nat /\ y \in Nat /\ y <= now /\ n <= queue /\ MinRate * (now - y) < Unit
      BY LeakyFound
    <2>2. n > 0
      BY <1>0, <2>1
    <2>3. QED  BY <2>1, <2>2
  <1>2. \A i \in 1..L : (L - i + 1) * Unit
           <= (n * Unit + Leaky!Slack) + MaxRate * (y - log[i]) + FullRate * (now - log[i])
    BY LeakyHeldNow
  <1>3. \E i \in 1..L : MinRate * (y - log[i]) <= ((L - i + 1) - n) * LeakCost
    BY <1>1, LeakyDrained
  <1>4. /\ log' = log /\ now' = now /\ limit' = limit /\ window' = window
        /\ reply'.val = v
    BY DEF Rejects
  <1>5. BucketBase' /\ queue' \in Nat /\ last_leak' \in Nat /\ leak_expires' \in Nat
        /\ last_leak' <= now' /\ expires' <= now' + MaxPeriod
    <2>1. Base /\ expires' \in Nat
      BY <1>0 DEF LeakyInv, BucketBase
    <2>2. Base'
      BY <2>1, RejectsBase
    <2>3. BucketBase'
      BY <2>2, RateKept DEF LeakyInv, BucketBase
    <2>4. QED  BY <1>0, <1>1, <1>4, <2>3
  <1>6. \E l \in Limits : queue' <= l
    <2>1. queue \in Nat /\ queue # 0
      BY <1>1 DEF LeakyInv
    <2>2. PICK l \in Limits : queue <= l
      BY <2>1 DEF LeakyInv
    <2>3. l \in Nat
      BY LimiterAssumption DEF LimiterAssumption
    <2>4. QED  BY <1>1, <2>1, <2>2, <2>3
  <1> HIDE DEF L, y, v
  <1>7. \E t \in Nat :
            /\ t <= now'
            /\ queue' = 0 \/ \E d \in TTLs : t + d <= expires'
            /\ \A i \in 1..Len(log') : Held(i, t)'
    <2>1. PICK t \in Nat : t = now
      BY <1>0
    <2>2. \A i \in 1..Len(log') : Held(i, t)'
      BY <1>2, <1>4, <2>1 DEF Held, L, y, Leaky!Slack
    <2>3. t <= now' /\ t + ttl <= expires'
      BY <1>0, <1>4, <2>1
    <2>4. QED  BY <1>0, <2>2, <2>3
  <1>8. \E i \in 1..Len(log') : Drained(i)'
    <2>1. Counts' = y
      <3>1. ~(leak_expires' < expires')
        BY <1>0
      <3>2. QED  BY <3>1 DEF Counts, y
    <2>2. PICK i \in 1..L : MinRate * (y - log[i]) <= ((L - i + 1) - n) * LeakCost
      BY <1>3
    <2>3. Drained(i)'
      BY <1>4, <2>1, <2>2 DEF Drained, LeakCost, L
    <2>4. QED  BY <1>4, <2>3 DEF L
  <1>9. Leaky!AdmissionsBounded'
    BY <1>4 DEF LeakyInv, Leaky!AdmissionsBounded, Leaky!Slack
  <1>10. \E i \in 1..Len(log') :
            (Len(log') - i + 1) * LeakCost + Unit
               > MinLimit * LeakCost + MinRate * (now' - log'[i])
    <2>1. PICK i \in 1..L : MinRate * (y - log[i]) <= ((L - i + 1) - n) * LeakCost
      BY <1>3
    <2> DEFINE x == log[i]
               a == L - i + 1
    <2>2. x \in Nat /\ a \in Int /\ MinRate * (y - x) <= (a - n) * LeakCost
      <3>1. x \in Nat /\ a \in Int
        BY <1>0
      <3>2. QED  BY <2>1, <3>1
    <2> HIDE DEF x, a
    <2> DEFINE p == MinRate * (y - x)
               q == MinRate * (now - y)
               r == MinRate * (now - x)
               b == a * LeakCost
               c == n * LeakCost
               d == MinLimit * LeakCost
    <2>3. p \in Int /\ q \in Int /\ r = q + p
      <3>1. y - x \in Int /\ now - y \in Int
        BY <1>0, <1>1, <2>2
      <3>2. p \in Int /\ q \in Int
        BY <1>0, <3>1, ProductInt
      <3>3. r = q + p
        BY <1>0, <1>1, <2>2, ProductSplit
      <3>4. QED  BY <3>2, <3>3
    <2>4. b \in Int /\ c \in Int /\ (a - n) * LeakCost = b - c
      <3>1. a \in Int /\ n \in Nat /\ LeakCost \in Nat
        BY <1>0, <1>1, <2>2
      <3>2. QED  BY <3>1
    <2>5. d \in Int /\ d <= c
      <3>1. MinLimit <= n
        BY <1>0, <1>1
      <3>2. MinLimit \in Nat /\ n \in Nat /\ LeakCost \in Nat
        BY <1>0, <1>1
      <3>3. QED  BY <3>1, <3>2, ProductMonotone
    <2>6. p <= b - c /\ q < Unit
      BY <1>1, <2>2, <2>4
    <2> HIDE DEF p, q, r, b, c, d
    <2>7. b + Unit > d + r
      BY <1>0, <2>3, <2>4, <2>5, <2>6
    <2>8. a * LeakCost + Unit > MinLimit * LeakCost + MinRate * (now - x)
      BY <2>7 DEF b, d, r
    <2>9. QED  BY <1>4, <2>8 DEF a, x, L
  <1>11. ASSUME (queue = limit)' PROVE Leaky!AdmitsAt(now + reply.val * SEC)'
    <2> DEFINE q == rate * SEC
               t == now + v * SEC
               k == ((t - y) * rate) \div Unit
    <2>1. v = (Unit + q - 1) \div q
      <3>1. ~(n < limit)
        BY <1>0, <1>1
      <3>2. QED  BY <3>1 DEF Leaky!SecondsToSlot, Leaky!HasSlot, v
    <2>2. q \in Nat /\ q > 0
      BY <1>0
    <2>3. v \in Nat /\ v * q >= Unit /\ v * q \in Nat
      <3> HIDE DEF q
      <3>1. QED  BY <1>0, <2>1, <2>2, QuotientUp
    <2>4. k \in Nat /\ k >= 1
      <3>1. v * SEC \in Nat /\ (v * SEC) * rate = v * (rate * SEC)
        BY <1>0, <2>3
      <3>2. t - y \in Nat /\ v * SEC <= t - y
        <4> DEFINE z == v * SEC
        <4> HIDE DEF z
        <4>1. z \in Nat => (now + z) - y \in Nat /\ z <= (now + z) - y
          BY <1>0, <1>1
        <4>2. QED  BY <3>1, <4>1 DEF z
      <3> DEFINE w == v * SEC
                 u == t - y
      <3>3. u \in Nat /\ w \in Nat /\ w <= u /\ w * rate >= Unit
        BY <2>3, <3>1, <3>2
      <3> HIDE DEF w, u
      <3>4. w * rate <= u * rate /\ u * rate \in Nat /\ w * rate \in Nat
        BY <1>0, <3>3, ProductMonotone
      <3> DEFINE g == u * rate
      <3>5. g \in Nat /\ 1 * Unit <= g
        BY <1>0, <3>3, <3>4
      <3> HIDE DEF g
      <3>6. g \div Unit \in Nat /\ g \div Unit >= 1
        BY <1>0, <3>5, QuotientAtLeast
      <3>7. QED  BY <3>6 DEF g, u
    <2> HIDE DEF k, v
    <2>5. t \in Nat /\ n = limit
      <3>1. v * SEC \in Nat
        BY <1>0, <2>3, ProductNat
      <3>2. QED  BY <1>0, <1>4, <1>11, <3>1
    <2>6. /\ rate' = rate /\ last_leak' = y /\ queue' = n /\ expires' = e /\ leak_expires' = e
          /\ now' = now /\ limit' = limit /\ reply'.val = v /\ e \in Nat
      BY <1>0, <1>4 DEF y
    <2> HIDE DEF t, e
    <2>7. CASE t >= e
      <3>1. Leaky!QueueAt(now + reply.val * SEC)' = 0
        BY <2>6, <2>7 DEF Leaky!QueueAt, t
      <3>2. QED  BY <1>0, <2>6, <3>1 DEF Leaky!AdmitsAt, Leaky!HasSlot
    <2>8. CASE ~(t >= e)
      <3>1. Leaky!Leaked(now + reply.val * SEC)' = k
        BY <2>6, <2>8 DEF Leaky!Leaked, Leaky!LastLeak, t, k
      <3>2. Leaky!QueueAt(now + reply.val * SEC)' = IF n <= k THEN 0 ELSE n - k
        BY <2>6, <2>8, <3>1 DEF Leaky!QueueAt, t
      <3>3. Leaky!QueueAt(now + reply.val * SEC)' < limit
        BY <1>0, <1>1, <2>4, <2>5, <3>2
      <3>4. QED  BY <2>6, <3>3 DEF Leaky!AdmitsAt, Leaky!HasSlot
    <2>9. QED  BY <2>7, <2>8
  <1>12. LeakyInv'
    BY <1>5, <1>6, <1>7, <1>8, <1>9, LifetimesKept DEF LeakyInv
  <1>13. QED  BY <1>10, <1>11, <1>12 DEF LeakySafe, LeakCost

(***************************************************************************)
(* A read drains the queue like a decision, but leaves its deadline, and   *)
(* may leave that of last_leak_key before it.                              *)
(***************************************************************************)
LEMMA LeakyRead ==
    ASSUME LeakyInv, LeakyReads
    PROVE  LeakyInv' /\ LeakySafe'
  <1> DEFINE n == Leaky!QueueAt(now)
             y == Leaky!LeakTime
             k == Leaky!Leaked(now)
  <1>0. /\ now \in Nat /\ expires \in Nat /\ leak_expires \in Nat /\ queue \in Nat
        /\ ttl \in Nat /\ MaxPeriod \in Nat /\ expires <= now + MaxPeriod
    <2>1. now \in Nat /\ expires \in Nat /\ ttl \in Nat /\ MaxPeriod \in Nat
      BY BucketFacts, BaseFacts DEF LeakyInv, BucketBase
    <2>2. leak_expires \in Nat /\ queue \in Nat /\ expires <= now + MaxPeriod
      BY DEF LeakyInv
    <2>3. QED  BY <2>1, <2>2
  <1>1. /\ n \in Nat /\ k \in Nat /\ y \in Nat /\ y <= now /\ n <= queue
        /\ n > 0 => now < expires
    BY LeakyFound
  <1>2. /\ log' = log /\ now' = now /\ expires' = expires /\ ~Rejected'
        /\ rate' = rate /\ ttl' = ttl
        /\ queue' = n /\ last_leak' = y
        /\ leak_expires' = IF now >= leak_expires \/ k > 0 THEN now + ttl ELSE leak_expires
    BY DEF LeakyReads, Quiet
  <1>3. \E t \in Nat :
           /\ t <= now
           /\ n = 0 \/ \E d \in TTLs : t + d <= expires
           /\ \A i \in 1..Len(log) :
                 (Len(log) - i + 1) * Unit
                    <= (n * Unit + Leaky!Slack) + MaxRate * (y - log[i]) + FullRate * (t - log[i])
    BY LeakyHeld
  <1>4. ASSUME n > 0, NEW c \in Nat,
               c = y \/ (c = expires /\ (k > 0 \/ leak_expires < expires))
        PROVE  \E i \in 1..Len(log) :
                  MinRate * (c - log[i]) <= ((Len(log) - i + 1) - n) * LeakCost
    BY <1>4, LeakyDrained
  <1> HIDE DEF n, k, y
  <1>5. BucketBase' /\ queue' \in Nat /\ last_leak' \in Nat /\ leak_expires' \in Nat
        /\ last_leak' <= now' /\ expires' <= now' + MaxPeriod
    <2>1. Base'
      BY QuietBase DEF LeakyInv, BucketBase, LeakyReads
    <2>2. BucketBase'
      BY <1>2, <2>1, RateKept DEF LeakyInv, BucketBase
    <2>3. QED  BY <1>0, <1>1, <1>2, <2>2
  <1>6. queue' = 0 \/ \E l \in Limits : queue' <= l
    <2>1. CASE n # 0
      <3>1. PICK l \in Limits : queue <= l
        BY <1>0, <1>1, <2>1 DEF LeakyInv
      <3>2. l \in Nat
        BY LimiterAssumption DEF LimiterAssumption
      <3>3. QED  BY <1>0, <1>1, <1>2, <3>1, <3>2
    <2>2. QED  BY <1>2, <2>1
  <1>7. \E t \in Nat :
            /\ t <= now'
            /\ queue' = 0 \/ \E d \in TTLs : t + d <= expires'
            /\ \A i \in 1..Len(log') : Held(i, t)'
    <2>1. PICK t \in Nat :
           /\ t <= now
           /\ n = 0 \/ \E d \in TTLs : t + d <= expires
           /\ \A i \in 1..Len(log) :
                 (Len(log) - i + 1) * Unit
                    <= (n * Unit + Leaky!Slack) + MaxRate * (y - log[i]) + FullRate * (t - log[i])
      BY <1>3
    <2>2. \A i \in 1..Len(log') : Held(i, t)'
      BY <1>2, <2>1 DEF Held, Leaky!Slack
    <2>3. QED  BY <1>2, <2>1, <2>2
  <1>8. ASSUME n > 0
        PROVE  \E i \in 1..Len(log') : Drained(i)'
    <2> DEFINE c == Counts'
    <2>1. c \in Nat /\ (c = y \/ (c = expires /\ (k > 0 \/ leak_expires < expires)))
      <3>1. now < expires
        BY <1>1, <1>8
      <3>2. c = IF leak_expires' < expires THEN expires ELSE y
        BY <1>2 DEF Counts
      <3>3. leak_expires' < expires => k > 0 \/ leak_expires < expires
        BY <1>0, <1>1, <1>2, <3>1
      <3>4. QED  BY <1>0, <1>1, <3>2, <3>3
    <2>2. PICK i \in 1..Len(log) : MinRate * (c - log[i]) <= ((Len(log) - i + 1) - n) * LeakCost
      BY <1>4, <1>8, <2>1
    <2>3. Drained(i)'
      BY <1>2, <2>2 DEF Drained, LeakCost
    <2>4. QED  BY <1>2, <2>3
  <1>9. queue' = 0 \/ now' >= expires' \/ \E i \in 1..Len(log') : Drained(i)'
    BY <1>1, <1>2, <1>8
  <1>10. Leaky!AdmissionsBounded'
    BY <1>2 DEF LeakyInv, Leaky!AdmissionsBounded, Leaky!Slack
  <1>11. LeakyInv'
    BY <1>5, <1>6, <1>7, <1>9, <1>10, LifetimesKept DEF LeakyInv
  <1>12. QED  BY <1>2, <1>11 DEF LeakySafe

(***************************************************************************)
(* The invariant of the leaky bucket is kept by every step.                *)
(***************************************************************************)
LEMMA LeakyQuiet ==
    ASSUME LeakyInv, Quiet, UNCHANGED <<queue, last_leak, leak_expires>>,
           rate' \in Rates, ttl' \in TTLs
    PROVE  LeakyInv' /\ LeakySafe'
  <1>0. /\ log' = log /\ expires' = expires /\ now <= now' /\ now \in Nat /\ now' \in Nat
        /\ expires \in Nat /\ last_leak \in Nat /\ last_leak <= now /\ ~Rejected'
        /\ expires <= now + MaxPeriod
    BY DEF LeakyInv, BucketBase, Base, Quiet
  <1>1. BucketBase'
    <2>1. Base'
      BY QuietBase DEF LeakyInv, BucketBase
    <2>2. QED  BY <2>1, RateKept DEF BucketBase
  <1>2. queue' \in Nat /\ last_leak' \in Nat /\ leak_expires' \in Nat
        /\ last_leak' <= now' /\ expires' <= now' + MaxPeriod
    <2>1. MaxPeriod \in Nat
      BY RedisAssumption DEF RedisAssumption
    <2>2. queue' \in Nat /\ leak_expires' \in Nat
      BY DEF LeakyInv
    <2>3. last_leak' = last_leak
      OBVIOUS
    <2>4. last_leak' \in Nat /\ last_leak' <= now'
      BY <1>0, <2>3
    <2>5. expires' <= now' + MaxPeriod
      <3>1. \A a, b, c, d \in Nat : a <= b + d /\ b <= c => a <= c + d
        OBVIOUS
      <3>2. expires <= now' + MaxPeriod
        BY <1>0, <2>1, <3>1
      <3>3. QED  BY <1>0, <3>2
    <2>6. QED  BY <2>2, <2>4, <2>5
  <1>3. queue' = 0 \/ \E l \in Limits : queue' <= l
    BY DEF LeakyInv
  <1>4. \E t \in Nat :
            /\ t <= now'
            /\ queue' = 0 \/ \E d \in TTLs : t + d <= expires'
            /\ \A i \in 1..Len(log') : Held(i, t)'
    <2>1. PICK t \in Nat :
            /\ t <= now
            /\ queue = 0 \/ \E d \in TTLs : t + d <= expires
            /\ \A i \in 1..Len(log) : Held(i, t)
      BY DEF LeakyInv
    <2>2. \A i \in 1..Len(log') : Held(i, t)'
      BY <1>0, <2>1 DEF Held, Leaky!Slack
    <2>3. t <= now'
      BY <1>0, <2>1
    <2>4. QED  BY <1>0, <2>1, <2>2, <2>3
  <1>5. queue' = 0 \/ now' >= expires' \/ \E i \in 1..Len(log') : Drained(i)'
    <2>1. CASE \E i \in 1..Len(log) : Drained(i)
      <3>1. PICK i \in 1..Len(log) : Drained(i)
        BY <2>1
      <3>2. Drained(i)'
        BY <1>0, <3>1 DEF Drained, Counts, LeakCost
      <3>3. QED  BY <1>0, <3>2
    <2>2. CASE queue = 0 \/ now >= expires
      BY <1>0, <2>2
    <2>3. QED  BY <2>1, <2>2 DEF LeakyInv
  <1>6. Leaky!AdmissionsBounded'
    BY <1>0 DEF LeakyInv, Leaky!AdmissionsBounded, Leaky!Slack
  <1>7. LeakyInv'
    BY <1>1, <1>2, <1>3, <1>4, <1>5, <1>6, LifetimesKept DEF LeakyInv
  <1>8. QED  BY <1>0, <1>7 DEF LeakySafe

\* Every step of the leaky bucket keeps its invariant and its promises.
LEMMA LeakyStep == ASSUME LeakyInv, Leaky!Next PROVE LeakyInv' /\ LeakySafe'
  <1> DEFINE n == Leaky!QueueAt(now)
  <1>1. \/ LeakyDecides(n)
        \/ LeakyReads
        \/ /\ Quiet /\ UNCHANGED <<queue, last_leak, leak_expires>>
           /\ rate' \in Rates /\ ttl' \in TTLs
    BY LeakyShape
  <1>2. CASE LeakyDecides(n)
    <2>1. CASE n < limit /\ queue' = n + 1 /\ Admits
      BY <1>2, <2>1, LeakyAdmits DEF LeakyDecides
    <2>2. CASE n >= limit /\ queue' = n /\ Rejects(Leaky!SecondsToSlot(n))
      BY <1>2, <2>2, LeakyRejects DEF LeakyDecides
    <2>3. QED  BY <1>2, <2>1, <2>2 DEF LeakyDecides
  <1>3. QED  BY <1>1, <1>2, LeakyRead, LeakyQuiet

----------------------------------------------------------------------------
(***************************************************************************)
(* The invariant of a deployment: that of the algorithm it runs, together  *)
(* with what the step that led to the state showed of its answer.          *)
(***************************************************************************)
IInv ==
    /\ Is("fixed_window") => FixedInv /\ FixedSafe
    /\ Is("sliding_window") => SlidingInv /\ SlidingSafe
    /\ Is("token_bucket") => TokenInv /\ TokenSafe
    /\ Is("leaky_bucket") => LeakyInv /\ LeakySafe

\* Nothing was admitted, rejected or stored yet.
LEMMA InitIInv == Init => IInv
  <1> SUFFICES ASSUME Init PROVE IInv
    OBVIOUS
  <1>1. /\ now = 0 /\ expires = 0 /\ log = <<>> /\ limit \in Limits /\ window \in Windows
        /\ counter = 0 /\ stamps = <<>> /\ tokens = 0 /\ last_refill = 0
        /\ queue = 0 /\ last_leak = 0 /\ leak_expires = 0
        /\ rate = Rate(limit, window) /\ ttl = TTLOf(limit, window)
        /\ reply.op = "none"
    BY DEF Init, Fixed!Init, Sliding!Init, Token!Init, Leaky!Init, Fixed!CommonInit,
           Fixed!KeysInit, Fixed!NoReply, Token!RedisBucketInit, Token!BucketInit,
           Token!CommonInit, Token!KeysInit, Token!Rate, Rate, Token!TTLOf, TTLOf
  <1>2. /\ Len(log) = 0 /\ Len(stamps) = 0 /\ log \in Seq(Nat) /\ stamps \in Seq(Nat)
        /\ 1..Len(log) = {}
    BY <1>1
  <1>3. ~Rejected
    BY <1>1 DEF Rejected
  <1>4. Base
    BY <1>1, <1>2 DEF Base, LogOrdered
  <1>5. ASSUME NEW n \in Nat, NEW p PROVE Spaced(n, p)
    <2>1. 1..(Len(log) - n) = {}
      BY <1>2
    <2>2. QED  BY <2>1 DEF Spaced
  <1>6. MaxLimit \in Nat /\ 2 * MaxLimit \in Nat
    BY LimiterAssumption DEF LimiterAssumption
  <1>7. FixedInv
    BY <1>1, <1>4, <1>5, <1>6 DEF FixedInv
  <1>8. SlidingInv
    <2>1. Kept(stamps)
      BY <1>2 DEF Kept
    <2>2. QED  BY <1>2, <1>4, <1>5, <1>6, <2>1 DEF SlidingInv
  <1>9. BucketBase
    BY <1>1, <1>4 DEF BucketBase, Rates, TTLs
  <1>10. TokenInv
    <2>1. MaxLimit * Unit \in Nat
      BY <1>9, BucketFacts
    <2>2. tokens \in 0..(MaxLimit * Unit) /\ last_refill \in Nat /\ last_refill <= now
      <3> DEFINE m == MaxLimit * Unit
      <3>1. m \in Nat
        BY <2>1
      <3> HIDE DEF m
      <3>2. tokens \in 0..m
        BY <1>1, <3>1
      <3>3. last_refill \in Nat /\ last_refill <= now
        BY <1>1
      <3>4. QED  BY <3>2, <3>3 DEF m
    <2>3. Token!AdmissionsBounded
      BY <1>2 DEF Token!AdmissionsBounded
    <2>4. QED  BY <1>1, <1>2, <1>9, <2>2, <2>3 DEF TokenInv
  <1>11. LeakyInv
    <2>1. last_leak <= now /\ expires <= now + MaxPeriod
      BY <1>1, RedisAssumption DEF RedisAssumption
    <2>2. Leaky!AdmissionsBounded
      BY <1>2 DEF Leaky!AdmissionsBounded
    <2>3. 0 \in Nat /\ 0 <= now
      BY <1>1
    <2>4. QED  BY <1>1, <1>2, <1>9, <2>1, <2>2, <2>3 DEF LeakyInv
  <1>12. QED
    BY <1>3, <1>7, <1>8, <1>10, <1>11 DEF IInv, FixedSafe, SlidingSafe, TokenSafe, LeakySafe

\* Where nothing changes, nothing has to be shown again.
LEMMA StutterIInv == ASSUME IInv, UNCHANGED vars PROVE IInv'
  <1>1. UNCHANGED <<now, limit, window, log, reply, rate, expires, counter, stamps,
                    tokens, last_refill, queue, last_leak, leak_expires, ttl, algorithm>>
    BY DEF vars, state
  <1>2. Base => Base'
    BY <1>1 DEF Base, LogOrdered
  <1>3. Rejected' = Rejected /\ Period' = Period
    BY <1>1 DEF Rejected, Period
  <1>4. FixedInv /\ FixedSafe => FixedInv' /\ FixedSafe'
    BY <1>1, <1>2, <1>3 DEF FixedInv, FixedSafe, FixedCounted, Spaced, Spent, Fixed!AdmitsAt
  <1>5. SlidingInv /\ SlidingSafe => SlidingInv' /\ SlidingSafe'
    BY <1>1, <1>2, <1>3 DEF SlidingInv, SlidingSafe, Kept, Spaced, Spent, Sliding!AdmitsAt,
       Sliding!HasRoom, Sliding!LiveAt, Sliding!Expired, Sliding!Period
  <1>6. BucketBase => BucketBase'
    BY <1>1, <1>2, RateKept DEF BucketBase
  <1>7. TokenInv /\ TokenSafe => TokenInv' /\ TokenSafe'
    <2>1. TokenInv => TokenInv'
      BY <1>1, <1>6, LifetimesKept DEF TokenInv, Backed, Funded, Token!AdmissionsBounded
    <2>2. TokenSafe => TokenSafe'
      BY <1>1, <1>3 DEF TokenSafe, Token!AdmitsAt, Token!HasToken, Token!UnexpiredAt
    <2>3. QED  BY <2>1, <2>2
  <1>8. LeakyInv /\ LeakySafe => LeakyInv' /\ LeakySafe'
    <2>1. LeakyInv => LeakyInv'
      BY <1>1, <1>6, LifetimesKept DEF LeakyInv, Held, Drained, Counts, LeakCost,
         Leaky!AdmissionsBounded, Leaky!Slack
    <2>2. LeakySafe => LeakySafe'
      BY <1>1, <1>3 DEF LeakySafe, LeakCost, Leaky!AdmitsAt, Leaky!HasSlot, Leaky!QueueAt,
         Leaky!Leaked, Leaky!LastLeak
    <2>3. QED  BY <2>1, <2>2
  <1>9. QED  BY <1>1, <1>4, <1>5, <1>7, <1>8 DEF IInv, Is

(***************************************************************************)
(* A step is one of the algorithm's: it finds that algorithm's invariant.  *)
(***************************************************************************)
LEMMA StepIInv == IInv /\ [Next]_vars => IInv'
  <1> SUFFICES ASSUME IInv, [Next]_vars PROVE IInv'
    OBVIOUS
  <1>1. CASE UNCHANGED vars
    BY <1>1, StutterIInv
  <1>2. CASE Next
    <2>1. algorithm' = algorithm
      BY <1>2 DEF Next
    <2>2. CASE Is("fixed_window") /\ Fixed!Next
      <3>1. FixedInv' /\ FixedSafe'
        BY <2>2, FixedStep DEF IInv
      <3>2. QED  BY <2>1, <2>2, <3>1 DEF IInv, Is
    <2>3. CASE Is("sliding_window") /\ Sliding!Next
      <3>1. SlidingInv' /\ SlidingSafe'
        BY <2>3, SlidingStep DEF IInv
      <3>2. QED  BY <2>1, <2>3, <3>1 DEF IInv, Is
    <2>4. CASE Is("token_bucket") /\ Token!Next
      <3>1. TokenInv' /\ TokenSafe'
        BY <2>4, TokenStep DEF IInv
      <3>2. QED  BY <2>1, <2>4, <3>1 DEF IInv, Is
    <2>5. CASE Is("leaky_bucket") /\ Leaky!Next
      <3>1. LeakyInv' /\ LeakySafe'
        BY <2>5, LeakyStep DEF IInv
      <3>2. QED  BY <2>1, <2>5, <3>1 DEF IInv, Is
    <2>6. QED  BY <1>2, <2>2, <2>3, <2>4, <2>5 DEF Next
  <1>3. QED  BY <1>1, <1>2

(***************************************************************************)
(* However workers, policies and limiter objects come and go, and whenever *)
(* Redis drops a key, a client gets no more than the most generous policy  *)
(* allows (for the windows within one window or two, for the buckets a     *)
(* burst and what fills or drains, which counts twice for the leaky one).  *)
(***************************************************************************)
THEOREM RedisBudgetHolds == Spec => []AdmissionsBounded
  <1>1. IInv => AdmissionsBounded
    BY DEF IInv, AdmissionsBounded, FixedInv, SlidingInv, TokenInv, LeakyInv,
           Fixed!AdmissionsBounded, Fixed!Spaced, Sliding!AdmissionsBounded, Sliding!Spaced,
           Spaced
  <1>2. QED  BY <1>1, InitIInv, StepIInv, PTL DEF Spec

(***************************************************************************)
(* No script rejects a client that has not used up what the strictest      *)
(* policy grants (for the sliding window, the policy in force).            *)
(***************************************************************************)
THEOREM RedisRejectionsAreRight == Spec => []RejectedOnlyWhenSpent
  <1>1. IInv => RejectedOnlyWhenSpent
    BY DEF IInv, RejectedOnlyWhenSpent, FixedSafe, SlidingSafe, TokenSafe, LeakySafe
  <1>2. QED  BY <1>1, InitIInv, StepIInv, PTL DEF Spec

(***************************************************************************)
(* The seconds that a script sends with a rejection are enough: a client   *)
(* that waits them is admitted, if nothing else happens and its usage is   *)
(* not above a limit that was lowered since.                               *)
(***************************************************************************)
THEOREM RedisRetryAfterSuffices == Spec => []RetryAfterSuffices
  <1>1. IInv => RetryAfterSuffices
    BY DEF IInv, RetryAfterSuffices, FixedSafe, SlidingSafe, TokenSafe, LeakySafe
  <1>2. QED  BY <1>1, InitIInv, StepIInv, PTL DEF Spec

=============================================================================
