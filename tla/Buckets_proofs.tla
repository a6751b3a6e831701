--------------------------- MODULE Buckets_proofs ---------------------------
(***************************************************************************)
(* Proofs about the two in-memory bucket algorithms, for every set of      *)
(* policies and every clock resolution, with half of a retune visible to   *)
(* calls: the token bucket first, the leaky one after it, then a           *)
(* deployment that runs one of them, and what holds of all four.           *)
(***************************************************************************)
EXTENDS Windows_proofs

(***************************************************************************)
(* The types of the bucket's state and constants, unfolded for arithmetic. *)
(***************************************************************************)
LEMMA BucketFacts ==
    ASSUME TokenTypeOK
    PROVE  /\ Unit \in Nat /\ Unit > 0 /\ MaxRate \in Nat /\ MaxLimit \in Nat
           /\ rate \in Nat /\ rate > 0 /\ rate <= MaxRate
           /\ limit \in Nat /\ limit <= MaxLimit
           /\ tokens \in Nat /\ last_refill_time \in Nat
           /\ now \in Nat /\ now <= MaxTime /\ MaxTime \in Nat
           /\ log \in Seq(Nat) /\ Len(log) \in Nat
  <1>1. PICK l \in Limits, w \in Windows : rate = Rate(l, w)
    BY DEF TokenTypeOK, Rates
  <1>2. /\ rate \in Nat /\ rate > 0 /\ rate <= MaxRate
        /\ Unit \in Nat /\ Unit > 0 /\ MaxRate \in Nat
    BY <1>1, BucketAssumption DEF BucketAssumption
  <1>3. tokens \in Nat
    BY DEF TokenTypeOK
  <1>4. QED  BY <1>2, <1>3, CommonFacts DEF TokenTypeOK

(***************************************************************************)
(* What _refill leaves in the bucket: at most a full bucket, and at most   *)
(* what was there and the refill of the fastest policy.                    *)
(***************************************************************************)
LEMMA RefilledFacts ==
    ASSUME TokenTypeOK, last_refill_time <= now
    PROVE  /\ Refilled(now) \in Nat
           /\ Refilled(now) <= MaxLimit * Unit
           /\ Refilled(now) <= tokens + MaxRate * (now - last_refill_time)
           /\ MaxLimit * Unit \in Nat
  <1> DEFINE d == now - last_refill_time
             e == d * rate
             f == limit * Unit
             m == MaxLimit * Unit
             g == MaxRate * d
  <1>1. d \in Nat
    BY BucketFacts
  <1>2. e \in Nat /\ g \in Nat /\ e <= g
    <2>1. rate * d <= MaxRate * d /\ rate * d \in Nat /\ MaxRate * d \in Nat
      BY <1>1, BucketFacts, ProductMonotone
    <2>2. d * rate = rate * d
      BY <1>1, BucketFacts
    <2>3. QED  BY <2>1, <2>2
  <1>3. f \in Nat /\ m \in Nat /\ f <= m
    BY BucketFacts, ProductMonotone
  <1>4. tokens \in Nat
    BY BucketFacts
  <1>5. Refilled(now) = IF tokens + e < f THEN tokens + e ELSE f
    BY DEF Refilled
  <1> HIDE DEF d, e, f, m, g
  <1>6. Refilled(now) \in Nat /\ Refilled(now) <= m /\ Refilled(now) <= tokens + g /\ m \in Nat
    BY <1>2, <1>3, <1>4, <1>5
  <1>7. QED  BY <1>6 DEF d, g, m

(***************************************************************************)
(* What every call does: it refills, and either takes a token and records  *)
(* the admission, or does neither.                                         *)
(***************************************************************************)
Refills == tokens' = Refilled(now) /\ last_refill_time' = now /\ log' = log /\ now' = now
Admits ==
    /\ HasToken(Refilled(now))
    /\ tokens' = Refilled(now) - Unit /\ last_refill_time' = now
    /\ log' = Append(log, now) /\ now' = now
Leaves ==
    /\ tokens' = tokens /\ last_refill_time' = last_refill_time /\ log' = log
    /\ now' \in 0..MaxTime /\ now <= now'

(***************************************************************************)
(* Every step of the bucket has one of these shapes.                       *)
(***************************************************************************)
LEMMA StepShape == ASSUME TokenTypeOK, last_refill_time <= now, TokenNext
      PROVE Refills \/ Admits \/ Leaves
  <1>0. now \in Nat /\ MaxTime \in Nat /\ now <= MaxTime /\ Refilled(now) \in Nat
    BY BucketFacts, RefilledFacts
  <1>1. CASE TokenAllowRequest
    <2>1. CASE /\ HasToken(Refilled(now))
               /\ Refill(Unit)
               /\ log' = Append(log, now)
               /\ now' = now
      BY <2>1 DEF Refill, Admits
    <2>2. CASE Refill(0) /\ UNCHANGED <<log, now>>
      BY <1>0, <2>2 DEF Refill, Refills
    <2>3. QED  BY <1>1, <2>1, <2>2 DEF TokenAllowRequest
  <1>2. CASE TokenRemainingRequests
    BY <1>0, <1>2 DEF TokenRemainingRequests, Refill, Refills
  <1>3. CASE TokenResetTime
    BY <1>0, <1>3 DEF TokenResetTime, Refill, Refills
  <1>4. CASE Tick /\ UNCHANGED <<rate, tokens, last_refill_time>>
    BY <1>0, <1>4 DEF Tick, Leaves
  <1>5. CASE /\ \/ \E l \in Limits, w \in Windows : RetuneCapacity(l, w)
                \/ RetuneRate
             /\ UNCHANGED <<tokens, last_refill_time>>
    BY <1>0, <1>5 DEF RetuneCapacity, Retune, RetuneRate, Leaves
  <1>6. QED  BY <1>1, <1>2, <1>3, <1>4, <1>5 DEF TokenNext

(***************************************************************************)
(* The invariant: types, the refill clock is never ahead of time, and the  *)
(* two budgets.                                                            *)
(***************************************************************************)
WellTyped == TokenTypeOK /\ last_refill_time <= now
IInv == WellTyped /\ TokensBudgeted /\ BurstBound

(***************************************************************************)
(* A new bucket is full and well typed.                                    *)
(***************************************************************************)
LEMMA InitWellTyped == TokenInit => WellTyped
  <1> SUFFICES ASSUME TokenInit PROVE WellTyped
    OBVIOUS
  <1>1. CommonTypeOK /\ now = 0
    BY CommonInitFacts DEF TokenInit, BucketInit
  <1>2. rate \in Rates
    BY DEF TokenInit, BucketInit, CommonInit, Rates
  <1>3. Unit \in Nat /\ limit \in Nat /\ limit <= MaxLimit /\ MaxLimit \in Nat
    BY <1>1, CommonFacts, BucketAssumption DEF BucketAssumption
  <1>4. tokens \in 0..(MaxLimit * Unit)
    <2>1. limit * Unit \in Nat /\ MaxLimit * Unit \in Nat /\ limit * Unit <= MaxLimit * Unit
      BY <1>3, ProductMonotone
    <2>2. tokens = limit * Unit
      BY DEF TokenInit
    <2>3. QED  BY <2>1, <2>2
  <1>5. last_refill_time = 0
    BY <1>1 DEF TokenInit
  <1>6. QED  BY <1>1, <1>2, <1>4, <1>5 DEF WellTyped, TokenTypeOK

(***************************************************************************)
(* The answers of the read-only calls are natural numbers.                 *)
(***************************************************************************)
LEMMA AnswersNat ==
    ASSUME TokenTypeOK, last_refill_time <= now
    PROVE  Refilled(now) \div Unit \in Nat /\ SecondsToToken(Refilled(now)) \in Nat
  <1> DEFINE n == Refilled(now)
             q == rate * SEC
  <1>1. n \in Nat /\ Unit \in Nat /\ Unit > 0
    BY RefilledFacts, BucketFacts
  <1>2. q \in Nat /\ q > 0
    BY BucketFacts, LimiterAssumption DEF LimiterAssumption
  <1>3. SecondsToToken(n) = IF n >= Unit THEN 0 ELSE (Unit - n) \div q
    BY DEF SecondsToToken
  <1> HIDE DEF n, q
  <1>4. n \div Unit \in Nat
    BY <1>1
  <1>5. n < Unit => (Unit - n) \div q \in Nat
    BY <1>1, <1>2
  <1>6. SecondsToToken(n) \in Nat
    BY <1>1, <1>3, <1>5
  <1>7. QED  BY <1>4, <1>6 DEF n

(***************************************************************************)
(* No call and no half of a retune leaves the types, and no call sets the  *)
(* refill clock ahead of time.                                             *)
(***************************************************************************)
LEMMA StepWellTyped == WellTyped /\ [TokenNext]_TokenVars => WellTyped'
  <1> SUFFICES ASSUME WellTyped, [TokenNext]_TokenVars PROVE WellTyped'
    OBVIOUS
  <1>0. TokenTypeOK /\ last_refill_time <= now
    BY DEF WellTyped
  <1>1. CASE UNCHANGED TokenVars
    BY <1>0, <1>1 DEF WellTyped, TokenTypeOK, CommonTypeOK, TokenVars, Rates, Rate, Replies
  <1>2. CASE TokenNext
    <2>1. /\ Refilled(now) \in Nat /\ Refilled(now) <= MaxLimit * Unit
          /\ MaxLimit * Unit \in Nat /\ Unit \in Nat /\ now \in Nat
          /\ tokens \in 0..(MaxLimit * Unit) /\ last_refill_time \in Nat
      BY <1>0, RefilledFacts, BucketFacts DEF TokenTypeOK
    <2>2. tokens' \in 0..(MaxLimit * Unit) /\ last_refill_time' \in Nat
          /\ last_refill_time' <= now'
      <3>1. CASE Refills
        BY <2>1, <3>1 DEF Refills
      <3>2. CASE Admits
        BY <2>1, <3>2 DEF Admits, HasToken
      <3>3. CASE Leaves
        BY <1>0, <2>1, <3>3 DEF Leaves
      <3>4. QED  BY <1>0, <1>2, <3>1, <3>2, <3>3, StepShape
    <2>3. now' \in 0..MaxTime /\ log' \in Seq(Nat)
      <3>1. now \in 0..MaxTime /\ log \in Seq(Nat)
        BY <1>0 DEF TokenTypeOK, CommonTypeOK
      <3>2. CASE Refills
        BY <3>1, <3>2 DEF Refills
      <3>3. CASE Admits
        BY <2>1, <3>1, <3>3 DEF Admits
      <3>4. CASE Leaves
        BY <3>1, <3>4 DEF Leaves
      <3>5. QED  BY <1>0, <1>2, <3>2, <3>3, <3>4, StepShape
    <2>4. limit' \in Limits /\ window' \in Windows /\ rate' \in Rates
      <3>1. limit \in Limits /\ window \in Windows /\ rate \in Rates
        BY <1>0 DEF TokenTypeOK, CommonTypeOK
      <3>2. CASE RetuneRate
        BY <3>1, <3>2 DEF RetuneRate, Rates
      <3>3. CASE ~RetuneRate
        BY <1>2, <3>1, <3>3 DEF TokenNext, TokenAllowRequest, TokenRemainingRequests,
              TokenResetTime, Tick,
             RetuneCapacity, Retune
      <3>4. QED  BY <3>2, <3>3
    <2>5. reply' \in Replies
      BY <1>0, <1>2, AnswersNat, RepliesTyped DEF TokenNext, TokenAllowRequest,
            TokenRemainingRequests,
           TokenResetTime, Tick, RetuneCapacity, Retune, RetuneRate
    <2>6. QED  BY <2>2, <2>3, <2>4, <2>5 DEF WellTyped, TokenTypeOK, CommonTypeOK, Rates, Rate,
          Replies
  <1>3. QED  BY <1>1, <1>2

(***************************************************************************)
(* Type correctness: tokens of token_bucket.py stay between 0 and a full   *)
(* bucket of the largest capacity, whatever policies are set.              *)
(***************************************************************************)
LEMMA TokenTyped == TokenSpec => []TokenTypeOK
  <1>1. WellTyped => TokenTypeOK
    BY DEF WellTyped
  <1>2. QED  BY <1>1, InitWellTyped, StepWellTyped, PTL DEF TokenSpec

(***************************************************************************)
(* The budget counted from one earlier admission at time x: c admissions   *)
(* since then (in parts) and the tokens left, carried over a refill.       *)
(***************************************************************************)
LEMMA BudgetCarried ==
    ASSUME TokenTypeOK, last_refill_time <= now, NEW c \in Int, NEW x \in Nat,
           c + tokens <= MaxLimit * Unit + MaxRate * (last_refill_time - x)
    PROVE  c + Refilled(now) <= MaxLimit * Unit + MaxRate * (now - x)
  <1> DEFINE a == MaxRate * (now - last_refill_time)
             b == MaxRate * (last_refill_time - x)
             m == MaxLimit * Unit
             z == MaxRate * (now - x)
  <1>1. z = a + b
    BY BucketFacts, ProductSplit
  <1>2. a \in Int /\ b \in Int /\ m \in Nat /\ tokens \in Nat
    <2>1. MaxRate \in Int /\ now - last_refill_time \in Int /\ last_refill_time - x \in Int
      BY BucketFacts
    <2>2. a \in Int /\ b \in Int
      BY <2>1
    <2>3. QED  BY <2>2, BucketFacts, RefilledFacts
  <1>3. Refilled(now) \in Nat /\ Refilled(now) <= tokens + a
    BY RefilledFacts
  <1>4. c + tokens <= m + b
    OBVIOUS
  <1> HIDE DEF a, b, m, z
  <1>5. c + Refilled(now) <= m + z
    BY <1>1, <1>2, <1>3, <1>4
  <1>6. QED  BY <1>5 DEF m, z

(***************************************************************************)
(* Admitting a request keeps the tokens within the budget: it takes the    *)
(* Unit out of the bucket that it adds to the admissions.                  *)
(***************************************************************************)
LEMMA AdmitsBudgeted ==
    ASSUME WellTyped, TokensBudgeted, Admits
    PROVE  TokensBudgeted'
  <1>0. TokenTypeOK /\ last_refill_time <= now
    BY DEF WellTyped
  <1>1. /\ log \in Seq(Nat) /\ now \in Nat /\ Unit \in Nat /\ MaxRate \in Nat
        /\ last_refill_time \in Nat
        /\ Refilled(now) \in Nat /\ MaxLimit * Unit \in Nat
        /\ Refilled(now) <= MaxLimit * Unit
    BY <1>0, BucketFacts, RefilledFacts
  <1>2. /\ tokens' = Refilled(now) - Unit /\ last_refill_time' = now
        /\ log' = Append(log, now)
    BY DEF Admits
  <1> DEFINE n == Len(log)
  <1>3. /\ n \in Nat /\ Len(log') = n + 1 /\ log'[n + 1] = now
        /\ \A i \in 1..n : log'[i] = log[i] /\ log[i] \in Nat
        /\ \A i \in 1..Len(log') : i \in 1..n \/ i = n + 1
    BY <1>1, <1>2, LogGrown
  <1>4. ASSUME NEW i \in 1..n
        PROVE  /\ log[i] <= now
               /\ (n + 1 - i + 1) * Unit + (Refilled(now) - Unit)
                     <= MaxLimit * Unit + MaxRate * (now - log[i])
    <2>1. /\ log[i] \in Nat /\ log[i] <= last_refill_time
          /\ (n - i + 1) * Unit + tokens
                <= MaxLimit * Unit + MaxRate * (last_refill_time - log[i])
      BY <1>3 DEF TokensBudgeted
    <2>2. /\ (n + 1 - i + 1) * Unit = (n - i + 1) * Unit + Unit
          /\ (n - i + 1) * Unit \in Int
      BY <1>1, <1>3, OneMore
    <2>3. (n - i + 1) * Unit + Refilled(now) <= MaxLimit * Unit + MaxRate * (now - log[i])
      BY <1>0, <2>1, <2>2, BudgetCarried
    <2>4. log[i] <= now
      BY <1>0, <1>1, <2>1
    <2> DEFINE p == (n - i + 1) * Unit
    <2>5. p + Unit + (Refilled(now) - Unit) = p + Refilled(now)
      <3> HIDE DEF p
      <3>1. p \in Int
        BY <2>2 DEF p
      <3>2. QED  BY <1>1, <3>1
    <2>6. QED  BY <2>2, <2>3, <2>4, <2>5
  <1>5. /\ now <= now
        /\ (n + 1 - (n + 1) + 1) * Unit + (Refilled(now) - Unit)
              <= MaxLimit * Unit + MaxRate * (now - now)
    <2>1. n + 1 - (n + 1) + 1 = 1 /\ now - now = 0 /\ MaxRate * 0 = 0 /\ 1 * Unit = Unit
      BY <1>1, <1>3
    <2>2. QED  BY <1>1, <2>1
  <1> HIDE DEF n
  <1>6. ASSUME NEW i \in 1..Len(log')
        PROVE  /\ log'[i] <= now
               /\ (n + 1 - i + 1) * Unit + (Refilled(now) - Unit)
                     <= MaxLimit * Unit + MaxRate * (now - log'[i])
    <2>1. CASE i \in 1..n
      BY <1>3, <1>4, <2>1
    <2>2. CASE i = n + 1
      BY <1>3, <1>5, <2>2
    <2>3. QED  BY <1>3, <2>1, <2>2
  <1>7. QED  BY <1>2, <1>3, <1>6 DEF TokensBudgeted

(***************************************************************************)
(* A refill keeps the tokens within the budget.                            *)
(***************************************************************************)
LEMMA RefillsBudgeted ==
    ASSUME WellTyped, TokensBudgeted, Refills
    PROVE  TokensBudgeted'
  <1>0. TokenTypeOK /\ last_refill_time <= now
    BY DEF WellTyped
  <1>1. log \in Seq(Nat) /\ Len(log) \in Nat /\ Unit \in Nat /\ now \in Nat
        /\ last_refill_time \in Nat
    BY <1>0, BucketFacts
  <1>2. ASSUME NEW i \in 1..Len(log)
        PROVE  /\ log[i] <= now
               /\ (Len(log) - i + 1) * Unit + Refilled(now)
                     <= MaxLimit * Unit + MaxRate * (now - log[i])
    <2>1. /\ log[i] \in Nat /\ log[i] <= last_refill_time
          /\ (Len(log) - i + 1) * Unit + tokens
                <= MaxLimit * Unit + MaxRate * (last_refill_time - log[i])
      BY <1>1 DEF TokensBudgeted
    <2>2. (Len(log) - i + 1) * Unit \in Int
      BY <1>1, OneMore
    <2>3. QED  BY <1>0, <1>1, <2>1, <2>2, BudgetCarried
  <1>3. QED  BY <1>2 DEF TokensBudgeted, Refills

(***************************************************************************)
(* Admitting a request keeps the burst bound: the token it takes was part  *)
(* of the budget counted from every earlier admission.                     *)
(***************************************************************************)
LEMMA AdmitsBounded ==
    ASSUME WellTyped, TokensBudgeted, BurstBound, Admits
    PROVE  BurstBound'
  <1>0. TokenTypeOK /\ last_refill_time <= now
    BY DEF WellTyped
  <1>1. /\ log \in Seq(Nat) /\ now \in Nat /\ Unit \in Nat /\ MaxRate \in Nat
        /\ Refilled(now) \in Nat /\ MaxLimit * Unit \in Nat
        /\ Refilled(now) <= MaxLimit * Unit /\ Unit <= Refilled(now)
    BY <1>0, BucketFacts, RefilledFacts DEF Admits, HasToken
  <1>2. log' = Append(log, now)
    BY DEF Admits
  <1> DEFINE n == Len(log)
  <1>3. /\ n \in Nat /\ Len(log') = n + 1 /\ log'[n + 1] = now
        /\ \A i \in 1..n : log'[i] = log[i] /\ log[i] \in Nat
        /\ \A i \in 1..Len(log') : i \in 1..n \/ i = n + 1
    BY <1>1, <1>2, LogGrown
  <1>4. ASSUME NEW i \in 1..n
        PROVE  (n + 1 - i + 1) * Unit <= MaxLimit * Unit + MaxRate * (now - log[i])
    <2>1. /\ log[i] \in Nat
          /\ (n - i + 1) * Unit + tokens
                <= MaxLimit * Unit + MaxRate * (last_refill_time - log[i])
      BY <1>3 DEF TokensBudgeted
    <2>2. /\ (n + 1 - i + 1) * Unit = (n - i + 1) * Unit + Unit
          /\ (n - i + 1) * Unit \in Int
      BY <1>1, <1>3, OneMore
    <2>3. (n - i + 1) * Unit + Refilled(now) <= MaxLimit * Unit + MaxRate * (now - log[i])
      BY <1>0, <2>1, <2>2, BudgetCarried
    <2> DEFINE p == (n - i + 1) * Unit
               z == MaxLimit * Unit + MaxRate * (now - log[i])
    <2>4. z \in Int
      <3>1. now - log[i] \in Int /\ MaxRate \in Int /\ MaxLimit * Unit \in Int
        BY <1>1, <2>1
      <3>2. MaxRate * (now - log[i]) \in Int
        BY <3>1
      <3>3. QED  BY <3>1, <3>2
    <2>5. p + Unit <= z
      <3>1. p \in Int /\ p + Refilled(now) <= z
        BY <2>2, <2>3
      <3> HIDE DEF p, z
      <3>2. QED  BY <1>1, <2>4, <3>1
    <2>6. QED  BY <2>2, <2>5
  <1>5. (n + 1 - (n + 1) + 1) * Unit <= MaxLimit * Unit + MaxRate * (now - now)
    <2>1. n + 1 - (n + 1) + 1 = 1 /\ now - now = 0 /\ MaxRate * 0 = 0 /\ 1 * Unit = Unit
      BY <1>1, <1>3
    <2>2. QED  BY <1>1, <2>1
  <1> HIDE DEF n
  <1>6. ASSUME NEW i \in 1..Len(log'), NEW k \in 1..Len(log'), i <= k
        PROVE  (k - i + 1) * Unit <= MaxLimit * Unit + MaxRate * (log'[k] - log'[i])
    <2>1. CASE k = n + 1 /\ i \in 1..n
      BY <1>3, <1>4, <2>1
    <2>2. CASE k = n + 1 /\ i = n + 1
      BY <1>3, <1>5, <2>2
    <2>3. CASE k \in 1..n
      <3>1. i \in 1..n
        BY <1>3, <1>6, <2>3
      <3>2. (k - i + 1) * Unit <= MaxLimit * Unit + MaxRate * (log[k] - log[i])
        BY <1>6, <2>3, <3>1 DEF BurstBound, n
      <3>3. QED  BY <1>3, <2>3, <3>1, <3>2
    <2>4. QED  BY <1>3, <2>1, <2>2, <2>3
  <1>7. QED  BY <1>6 DEF BurstBound

(***************************************************************************)
(* The invariant holds of a new bucket and is kept by every step.          *)
(***************************************************************************)
LEMMA InitIInv == TokenInit => IInv
  <1> SUFFICES ASSUME TokenInit PROVE IInv
    OBVIOUS
  <1>1. WellTyped
    BY InitWellTyped
  <1>2. log = <<>>
    BY CommonInitFacts DEF TokenInit, BucketInit
  <1>3. Len(log) = 0 /\ 1..Len(log) = {}
    BY <1>2
  <1>4. QED  BY <1>1, <1>3 DEF IInv, TokensBudgeted, BurstBound

(***************************************************************************)
(* Every step keeps the invariant; only an admission or a refill can       *)
(* disturb the budgets.                                                    *)
(***************************************************************************)
LEMMA StepIInv == IInv /\ [TokenNext]_TokenVars => IInv'
  <1> SUFFICES ASSUME IInv, [TokenNext]_TokenVars PROVE IInv'
    OBVIOUS
  <1>0. WellTyped /\ TokensBudgeted /\ BurstBound /\ TokenTypeOK /\ last_refill_time <= now
    BY DEF IInv, WellTyped
  <1>1. WellTyped'
    BY <1>0, StepWellTyped
  <1>2. CASE Admits
    BY <1>0, <1>1, <1>2, AdmitsBudgeted, AdmitsBounded DEF IInv
  <1>3. CASE Refills
    <2>1. BurstBound'
      BY <1>0, <1>3 DEF Refills, BurstBound
    <2>2. QED  BY <1>0, <1>1, <1>3, <2>1, RefillsBudgeted DEF IInv
  <1>4. CASE Leaves \/ UNCHANGED TokenVars
    <2>1. log' = log /\ tokens' = tokens /\ last_refill_time' = last_refill_time
      BY <1>4 DEF Leaves, TokenVars
    <2>2. QED  BY <1>0, <1>1, <2>1 DEF IInv, TokensBudgeted, BurstBound
  <1>5. QED  BY <1>0, <1>2, <1>3, <1>4, StepShape

(***************************************************************************)
(* Between any two admissions of token_bucket.py no more requests pass     *)
(* than a full bucket and the refill of the fastest policy in between, for *)
(* every set of policies and every sequence of retunes.                    *)
(***************************************************************************)
LEMMA TokenBoundAlone == TokenSpec => []BurstBound
  <1>1. IInv => BurstBound
    BY DEF IInv
  <1>2. QED  BY <1>1, InitIInv, StepIInv, PTL DEF TokenSpec

----------------------------------------------------------------------------
(***************************************************************************)
(* No token is lost.  The bucket holds a full load of the strictest        *)
(* policy, or there is an earlier admission from which on it has received  *)
(* at least that load and the slowest refill.                              *)
(***************************************************************************)
Funded(i) ==
    (Len(log) - i + 1) * Unit + tokens >= MinLimit * Unit + MinRate * (last_refill_time - log[i])
NothingLost == tokens >= MinLimit * Unit \/ \E i \in 1..Len(log) : Funded(i)

\* A rejection leaves the bucket refilled as of now, with less than a token
RejectedDry == Rejected => tokens < Unit /\ last_refill_time = now

LowerInv == WellTyped /\ NothingLost /\ RejectedDry

(***************************************************************************)
(* The lower bounds of the constants, unfolded for arithmetic.             *)
(***************************************************************************)
LEMMA LowerFacts ==
    ASSUME TokenTypeOK
    PROVE  /\ MinLimit \in Nat /\ MinLimit > 0 /\ MinRate \in Nat
           /\ MinRate <= rate /\ MinLimit <= limit
           /\ MinLimit * Unit \in Nat /\ MinLimit * Unit <= limit * Unit /\ limit * Unit \in Nat
           /\ Unit <= MinLimit * Unit
  <1>1. PICK l \in Limits, w \in Windows : rate = Rate(l, w)
    BY DEF TokenTypeOK, Rates
  <1>2. limit \in Limits
    BY DEF TokenTypeOK, CommonTypeOK
  <1>3. /\ MinLimit \in Nat /\ MinLimit > 0 /\ MinRate \in Nat
        /\ MinRate <= rate /\ MinLimit <= limit
    BY <1>1, <1>2, BucketAssumption DEF BucketAssumption
  <1>4. Unit \in Nat /\ limit \in Nat
    BY BucketFacts
  <1>5. MinLimit * Unit <= limit * Unit /\ MinLimit * Unit \in Nat /\ limit * Unit \in Nat
    BY <1>3, <1>4, ProductMonotone
  <1>6. 1 * Unit <= MinLimit * Unit /\ 1 * Unit = Unit
    BY <1>3, <1>4, ProductMonotone
  <1>7. QED  BY <1>3, <1>5, <1>6

(***************************************************************************)
(* A refill fills the bucket to the capacity in force or adds at least     *)
(* what the slowest policy adds.                                           *)
(***************************************************************************)
LEMMA RefilledAtLeast ==
    ASSUME TokenTypeOK, last_refill_time <= now
    PROVE  \/ Refilled(now) >= MinLimit * Unit
           \/ Refilled(now) >= tokens + MinRate * (now - last_refill_time)
  <1> DEFINE d == now - last_refill_time
             e == d * rate
             f == limit * Unit
             m == MinLimit * Unit
             g == MinRate * d
  <1>1. d \in Nat
    BY BucketFacts
  <1>2. e \in Nat /\ g \in Nat /\ g <= e
    <2>1. MinRate * d <= rate * d /\ rate * d \in Nat /\ MinRate * d \in Nat
      BY <1>1, BucketFacts, LowerFacts, ProductMonotone
    <2>2. d * rate = rate * d
      BY <1>1, BucketFacts
    <2>3. QED  BY <2>1, <2>2
  <1>3. f \in Nat /\ m \in Nat /\ m <= f /\ tokens \in Nat
    BY LowerFacts, BucketFacts
  <1>4. Refilled(now) = IF tokens + e < f THEN tokens + e ELSE f
    BY DEF Refilled
  <1> HIDE DEF d, e, f, m, g
  <1>5. Refilled(now) >= m \/ Refilled(now) >= tokens + g
    BY <1>2, <1>3, <1>4
  <1>6. QED  BY <1>5 DEF d, g, m

(***************************************************************************)
(* The same budget, carried over a refill from below.                      *)
(***************************************************************************)
LEMMA FundsCarried ==
    ASSUME TokenTypeOK, last_refill_time <= now, NEW c \in Int, NEW x \in Nat,
           c + tokens >= MinLimit * Unit + MinRate * (last_refill_time - x)
    PROVE  \/ Refilled(now) >= MinLimit * Unit
           \/ c + Refilled(now) >= MinLimit * Unit + MinRate * (now - x)
  <1> DEFINE a == MinRate * (now - last_refill_time)
             b == MinRate * (last_refill_time - x)
             m == MinLimit * Unit
             z == MinRate * (now - x)
  <1>0. MinRate \in Nat /\ now \in Nat /\ last_refill_time \in Nat
    <2>1. MinRate \in Nat
      BY LowerFacts
    <2>2. QED  BY <2>1, BucketFacts
  <1>1. z = a + b
    BY <1>0, ProductSplit
  <1>2. a \in Int /\ b \in Int /\ m \in Nat /\ tokens \in Nat
    <2>1. MinRate \in Int /\ now - last_refill_time \in Int /\ last_refill_time - x \in Int
      BY <1>0
    <2>2. a \in Int /\ b \in Int
      BY <2>1
    <2>3. QED  BY <2>2, BucketFacts, LowerFacts
  <1>3. Refilled(now) \in Nat /\ (Refilled(now) >= m \/ Refilled(now) >= tokens + a)
    BY RefilledFacts, RefilledAtLeast
  <1>4. c + tokens >= m + b
    OBVIOUS
  <1> HIDE DEF a, b, m, z
  <1>5. Refilled(now) >= m \/ c + Refilled(now) >= m + z
    BY <1>1, <1>2, <1>3, <1>4
  <1>6. QED  BY <1>5 DEF m, z

(***************************************************************************)
(* No refill loses a token.                                                *)
(***************************************************************************)
LEMMA RefillsFunded ==
    ASSUME WellTyped, NothingLost, Refills
    PROVE  NothingLost'
  <1>0. TokenTypeOK /\ last_refill_time <= now
    BY DEF WellTyped
  <1>1. log \in Seq(Nat) /\ Len(log) \in Nat /\ Unit \in Nat /\ now \in Nat /\ tokens \in Nat
    BY <1>0, BucketFacts
  <1>2. tokens' = Refilled(now) /\ last_refill_time' = now /\ log' = log
    BY DEF Refills
  <1>3. CASE Refilled(now) >= MinLimit * Unit
    BY <1>2, <1>3 DEF NothingLost
  <1>4. CASE ~(Refilled(now) >= MinLimit * Unit)
    <2>1. CASE tokens >= MinLimit * Unit
      <3> DEFINE a == MinRate * (now - last_refill_time)
                 m == MinLimit * Unit
      <3>1. a \in Nat /\ m \in Nat
        <4>1. MinRate \in Nat /\ now - last_refill_time \in Nat
          BY <1>0, BucketFacts, LowerFacts
        <4>2. a \in Nat
          BY <4>1
        <4>3. QED  BY <1>0, <4>2, LowerFacts
      <3>2. Refilled(now) \in Nat /\ Refilled(now) >= tokens + a /\ tokens >= m
        BY <1>0, <1>4, <2>1, RefilledAtLeast, RefilledFacts
      <3> HIDE DEF a, m
      <3>3. Refilled(now) >= m
        BY <1>1, <3>1, <3>2
      <3>4. QED  BY <1>4, <3>3 DEF m
    <2>2. CASE \E i \in 1..Len(log) : Funded(i)
      <3>1. PICK i \in 1..Len(log) : Funded(i)
        BY <2>2
      <3>2. log[i] \in Nat /\ (Len(log) - i + 1) * Unit \in Int
        BY <1>1, OneMore
      <3>3. (Len(log) - i + 1) * Unit + Refilled(now)
               >= MinLimit * Unit + MinRate * (now - log[i])
        BY <1>0, <1>4, <3>1, <3>2, FundsCarried DEF Funded
      <3>4. QED  BY <1>2, <3>3 DEF NothingLost, Funded
    <2>3. QED  BY <2>1, <2>2 DEF NothingLost
  <1>5. QED  BY <1>3, <1>4

(***************************************************************************)
(* No admission loses more than the token it takes: it becomes the         *)
(* admission that a bucket which was full is counted from.                 *)
(***************************************************************************)
LEMMA AdmitsFunded ==
    ASSUME WellTyped, NothingLost, Admits
    PROVE  NothingLost'
  <1>0. TokenTypeOK /\ last_refill_time <= now
    BY DEF WellTyped
  <1>1. /\ log \in Seq(Nat) /\ Len(log) \in Nat /\ Unit \in Nat /\ now \in Nat
        /\ tokens \in Nat /\ Refilled(now) \in Nat
    BY <1>0, BucketFacts, RefilledFacts
  <1>2. MinRate \in Nat /\ MinLimit * Unit \in Nat
    BY <1>0, LowerFacts
  <1>3. /\ tokens' = Refilled(now) - Unit /\ last_refill_time' = now
        /\ log' = Append(log, now)
    BY DEF Admits
  <1> DEFINE n == Len(log)
  <1>4. /\ n \in Nat /\ Len(log') = n + 1 /\ log'[n + 1] = now
        /\ \A i \in 1..n : log'[i] = log[i] /\ log[i] \in Nat
    BY <1>1, <1>3, LogGrown
  <1>5. CASE Refilled(now) >= MinLimit * Unit
    <2>1. n + 1 - (n + 1) + 1 = 1 /\ now - now = 0 /\ MinRate * 0 = 0 /\ 1 * Unit = Unit
      BY <1>1, <1>2, <1>4
    <2>2. (n + 1 - (n + 1) + 1) * Unit + (Refilled(now) - Unit)
             >= MinLimit * Unit + MinRate * (now - now)
      BY <1>1, <1>2, <1>5, <2>1
    <2>3. n + 1 \in 1..Len(log')
      BY <1>4
    <2>4. QED  BY <1>3, <1>4, <2>2, <2>3 DEF NothingLost, Funded
  <1>6. CASE ~(Refilled(now) >= MinLimit * Unit)
    <2>1. CASE tokens >= MinLimit * Unit
      <3> DEFINE a == MinRate * (now - last_refill_time)
                 m == MinLimit * Unit
      <3>1. a \in Nat /\ m \in Nat
        <4>1. now - last_refill_time \in Nat
          BY <1>0, BucketFacts
        <4>2. a \in Nat
          BY <1>2, <4>1
        <4>3. QED  BY <1>2, <4>2
      <3>2. Refilled(now) >= tokens + a /\ tokens >= m
        BY <1>0, <1>6, <2>1, RefilledAtLeast
      <3> HIDE DEF a, m
      <3>3. Refilled(now) >= m
        BY <1>1, <3>1, <3>2
      <3>4. QED  BY <1>6, <3>3 DEF m
    <2>2. CASE \E i \in 1..Len(log) : Funded(i)
      <3>1. PICK i \in 1..n : Funded(i)
        BY <2>2
      <3>2. /\ log[i] \in Nat /\ (n - i + 1) * Unit \in Int
            /\ (n + 1 - i + 1) * Unit = (n - i + 1) * Unit + Unit
        BY <1>1, <1>4, OneMore
      <3>3. (n - i + 1) * Unit + Refilled(now) >= MinLimit * Unit + MinRate * (now - log[i])
        BY <1>0, <1>6, <3>1, <3>2, FundsCarried DEF Funded
      <3> DEFINE p == (n - i + 1) * Unit
      <3>4. p + Unit + (Refilled(now) - Unit) = p + Refilled(now)
        <4>1. p \in Int
          BY <3>2
        <4> HIDE DEF p
        <4>2. QED  BY <1>1, <4>1
      <3>5. (n + 1 - i + 1) * Unit + (Refilled(now) - Unit)
               >= MinLimit * Unit + MinRate * (now - log[i])
        BY <3>2, <3>3, <3>4
      <3>6. i \in 1..Len(log') /\ log'[i] = log[i]
        BY <1>4
      <3>7. QED  BY <1>3, <1>4, <3>5, <3>6 DEF NothingLost, Funded
    <2>3. QED  BY <2>1, <2>2 DEF NothingLost
  <1>7. QED  BY <1>5, <1>6

(***************************************************************************)
(* The lower invariant holds of a new bucket and is kept by every step.    *)
(***************************************************************************)
LEMMA InitLowerInv == TokenInit => LowerInv
  <1> SUFFICES ASSUME TokenInit PROVE LowerInv
    OBVIOUS
  <1>1. WellTyped /\ TokenTypeOK
    BY InitWellTyped DEF WellTyped
  <1>2. tokens = limit * Unit /\ reply = NoReply
    BY DEF TokenInit, BucketInit, CommonInit
  <1>3. tokens >= MinLimit * Unit
    BY <1>1, <1>2, LowerFacts
  <1>4. ~Rejected
    BY <1>2 DEF Rejected, NoReply
  <1>5. QED  BY <1>1, <1>3, <1>4 DEF LowerInv, NothingLost, RejectedDry

(***************************************************************************)
(* Every step keeps the lower invariant.                                   *)
(***************************************************************************)
LEMMA StepLowerInv == LowerInv /\ [TokenNext]_TokenVars => LowerInv'
  <1> SUFFICES ASSUME LowerInv, [TokenNext]_TokenVars PROVE LowerInv'
    OBVIOUS
  <1>0. WellTyped /\ NothingLost /\ RejectedDry /\ TokenTypeOK /\ last_refill_time <= now
    BY DEF LowerInv, WellTyped
  <1>1. WellTyped'
    BY <1>0, StepWellTyped
  <1>2. NothingLost'
    <2>1. CASE Admits
      BY <1>0, <2>1, AdmitsFunded
    <2>2. CASE Refills
      BY <1>0, <2>2, RefillsFunded
    <2>3. CASE Leaves \/ UNCHANGED TokenVars
      <3>1. log' = log /\ tokens' = tokens /\ last_refill_time' = last_refill_time
        BY <2>3 DEF Leaves, TokenVars
      <3>2. QED  BY <1>0, <3>1 DEF NothingLost, Funded
    <2>4. QED  BY <1>0, <2>1, <2>2, <2>3, StepShape
  <1>3. RejectedDry'
    <2>1. CASE UNCHANGED TokenVars
      BY <1>0, <2>1 DEF RejectedDry, Rejected, TokenVars
    <2>2. CASE TokenAllowRequest
      <3>1. CASE reply' = Allow(TRUE)
        BY <3>1 DEF Allow, RejectedDry, Rejected
      <3>2. CASE ~HasToken(Refilled(now)) /\ Refill(0) /\ now' = now
        <4>1. Refilled(now) \in Nat /\ Unit \in Nat
          BY <1>0, RefilledFacts, BucketFacts
        <4>2. QED  BY <3>2, <4>1 DEF HasToken, Refill, RejectedDry
      <3>3. QED  BY <2>2, <3>1, <3>2 DEF TokenAllowRequest
    <2>3. CASE TokenNext /\ ~TokenAllowRequest
      <3>1. reply'.op # "allow"
        BY <2>3 DEF TokenNext, TokenRemainingRequests, TokenResetTime, Tick, RetuneCapacity,
              Retune,
             RetuneRate, NoReply, Answer
      <3>2. QED  BY <3>1 DEF RejectedDry, Rejected
    <2>4. QED  BY <2>1, <2>2, <2>3
  <1>4. QED  BY <1>1, <1>2, <1>3 DEF LowerInv

(***************************************************************************)
(* A rejection by token_bucket.py is never wrong: the client would be over *)
(* a full bucket of the strictest policy and its refill, for every set of  *)
(* policies and every sequence of retunes.                                 *)
(***************************************************************************)
LEMMA TokenRejectionsAlone == TokenSpec => []TokenRejectedOnlyWhenSpent
  <1>1. LowerInv => TokenRejectedOnlyWhenSpent
    <2> SUFFICES ASSUME LowerInv, Rejected
                 PROVE  \E i \in 1..Len(log) :
                            (Len(log) - i + 2) * Unit > MinLimit * Unit + MinRate * (now - log[i])
      BY DEF TokenRejectedOnlyWhenSpent
    <2>1. /\ TokenTypeOK /\ tokens \in Nat /\ Unit \in Nat /\ tokens < Unit
          /\ last_refill_time = now
          /\ log \in Seq(Nat) /\ Len(log) \in Nat /\ now \in Nat
      BY BucketFacts DEF LowerInv, WellTyped, RejectedDry
    <2>2. MinLimit * Unit \in Nat /\ Unit <= MinLimit * Unit /\ MinRate \in Nat
      BY <2>1, LowerFacts
    <2>3. PICK i \in 1..Len(log) : Funded(i)
      BY <2>1, <2>2 DEF LowerInv, NothingLost
    <2> DEFINE p == (Len(log) - i + 1) * Unit
               z == MinLimit * Unit + MinRate * (now - log[i])
    <2>4. /\ (Len(log) + 1 - i + 1) * Unit = p + Unit /\ p \in Int
          /\ Len(log) + 1 - i + 1 = Len(log) - i + 2
      BY <2>1, OneMore
    <2>5. z \in Int
      <3>1. now - log[i] \in Int /\ MinRate \in Int /\ MinLimit * Unit \in Int
        BY <2>1, <2>2
      <3>2. MinRate * (now - log[i]) \in Int
        BY <3>1
      <3>3. QED  BY <3>1, <3>2
    <2>6. p + tokens >= z
      BY <2>1, <2>3 DEF Funded
    <2> HIDE DEF p, z
    <2>7. p + Unit > z
      BY <2>1, <2>4, <2>5, <2>6
    <2>8. QED  BY <2>4, <2>7 DEF z
  <1>2. QED  BY <1>1, InitLowerInv, StepLowerInv, PTL DEF TokenSpec

(***************************************************************************)
(* One second after the time that int((1 - tokens) / refill_rate)          *)
(* advertises, the refill has made up for what was missing of a token.     *)
(***************************************************************************)
LEMMA TokenAfter ==
    ASSUME TokenTypeOK, NEW n \in Nat
    PROVE  /\ (SecondsToToken(n) + 1) * SEC \in Nat
           /\ ((SecondsToToken(n) + 1) * SEC) * rate \in Nat
           /\ n + ((SecondsToToken(n) + 1) * SEC) * rate >= Unit
  <1> DEFINE v == SecondsToToken(n)
             q == rate * SEC
             e == ((v + 1) * SEC) * rate
  <1>1. rate \in Nat /\ rate > 0 /\ SEC \in Nat /\ SEC > 0 /\ Unit \in Nat
    BY BucketFacts, LimiterAssumption DEF LimiterAssumption
  <1>2. q \in Nat /\ q > 0
    BY <1>1
  <1>3. v = IF n >= Unit THEN 0 ELSE (Unit - n) \div q
    BY DEF SecondsToToken
  <1>4. v \in Nat
    <2> HIDE DEF v, q
    <2>1. QED  BY <1>1, <1>2, <1>3
  <1>5. (v + 1) * SEC \in Nat /\ e \in Nat /\ e = (v + 1) * q
    <2> HIDE DEF v
    <2>1. QED  BY <1>1, <1>4
  <1>6. n < Unit => (v + 1) * q > Unit - n
    <2> SUFFICES ASSUME n < Unit PROVE (v + 1) * q > Unit - n
      OBVIOUS
    <2>1. Unit - n \in Nat /\ v = (Unit - n) \div q
      BY <1>1, <1>3
    <2> HIDE DEF v, q
    <2>2. QED  BY <1>2, <2>1, QuotientReaches
  <1>7. n + e >= Unit
    <2> DEFINE f == (v + 1) * q
    <2>1. e = f /\ e \in Nat /\ (n < Unit => f > Unit - n)
      BY <1>5, <1>6
    <2> HIDE DEF e, f
    <2>2. QED  BY <1>1, <2>1
  <1>8. QED  BY <1>5, <1>7

(***************************************************************************)
(* One second after the time that reset_time of token_bucket.py advertises *)
(* there is a token, for every set of policies, also while only half of a  *)
(* retune is written.                                                      *)
(***************************************************************************)
LEMMA TokenResetAlone == TokenSpec => []TokenRetryAfterWithinASecond
  <1>1. TokenInit => TokenRetryAfterWithinASecond
    BY DEF TokenInit, BucketInit, CommonInit, NoReply, TokenRetryAfterWithinASecond
  <1>2. WellTyped /\ TokenRetryAfterWithinASecond /\ [TokenNext]_TokenVars
        => TokenRetryAfterWithinASecond'
    <2> SUFFICES ASSUME WellTyped, TokenRetryAfterWithinASecond, [TokenNext]_TokenVars
                 PROVE  TokenRetryAfterWithinASecond'
      OBVIOUS
    <2>0. TokenTypeOK /\ last_refill_time <= now
      BY DEF WellTyped
    <2>1. CASE UNCHANGED TokenVars
      BY <2>1 DEF TokenVars, TokenRetryAfterWithinASecond, HasToken, Refilled
    <2>2. CASE TokenResetTime
      <3> DEFINE n == Refilled(now)
                 v == SecondsToToken(n)
                 d == (v + 1) * SEC
                 e == d * rate
                 f == limit * Unit
      <3>1. /\ tokens' = n /\ last_refill_time' = now /\ now' = now
            /\ limit' = limit /\ rate' = rate /\ reply' = Answer("reset", v)
        <4>1. n \in Nat
          BY <2>0, RefilledFacts
        <4>2. QED  BY <2>2, <4>1 DEF TokenResetTime, Refill
      <3>2. reply'.val = v
        BY <3>1 DEF Answer
      <3>3. n \in Nat /\ now \in Nat /\ Unit \in Nat
        BY <2>0, RefilledFacts, BucketFacts
      <3>4. d \in Nat /\ e \in Nat /\ n + e >= Unit
        <4> HIDE DEF n
        <4>1. QED  BY <2>0, <3>3, TokenAfter
      <3>5. f \in Nat /\ f >= Unit
        BY <2>0, <3>3, LowerFacts
      <3>6. Refilled(now + (reply.val + 1) * SEC)' = IF n + e < f THEN n + e ELSE f
        <4>1. (now + (reply.val + 1) * SEC)' - last_refill_time' = d
          <5>1. (now + (reply.val + 1) * SEC)' = now + d
            BY <3>1, <3>2
          <5> HIDE DEF d
          <5>2. QED  BY <3>1, <3>3, <3>4, <5>1
        <4> HIDE DEF n, d
        <4>2. QED  BY <3>1, <4>1 DEF Refilled
      <3>7. HasToken(Refilled(now + (reply.val + 1) * SEC))'
        <4> DEFINE g == Refilled(now + (reply.val + 1) * SEC)'
        <4>1. g = IF n + e < f THEN n + e ELSE f
          BY <3>6
        <4> HIDE DEF n, e, f, g
        <4>2. g >= Unit
          BY <3>3, <3>4, <3>5, <4>1
        <4>3. QED  BY <4>2 DEF g, HasToken
      <3>8. QED  BY <3>7 DEF TokenRetryAfterWithinASecond
    <2>3. CASE TokenNext /\ ~TokenResetTime
      <3>1. reply'.op # "reset"
        BY <2>3 DEF TokenNext, TokenAllowRequest, TokenRemainingRequests, Tick, RetuneCapacity,
              Retune,
             RetuneRate, Answer, Allow, NoReply
      <3>2. QED  BY <3>1 DEF TokenRetryAfterWithinASecond
    <2>4. QED  BY <2>1, <2>2, <2>3
  <1>3. QED  BY <1>1, <1>2, InitWellTyped, StepWellTyped, PTL DEF TokenSpec

----------------------------------------------------------------------------
(***************************************************************************)
(* The leaky bucket.                                                       *)
(***************************************************************************)
\* The types, and the leak clock is never ahead of time
LeakyWellTyped == LeakyTypeOK /\ last_leak_time <= now

(***************************************************************************)
(* The types of the queue's state and constants, unfolded for arithmetic.  *)
(***************************************************************************)
LEMMA LeakyBucketFacts ==
    ASSUME LeakyTypeOK
    PROVE  /\ Unit \in Nat /\ Unit > 0 /\ MaxRate \in Nat /\ MaxLimit \in Nat
           /\ MinRate \in Nat /\ MinRate > 0 /\ MinLimit \in Nat /\ MinLimit > 0
           /\ rate \in Nat /\ rate > 0 /\ MinRate <= rate /\ rate <= MaxRate
           /\ limit \in Nat /\ limit > 0 /\ limit <= MaxLimit /\ MinLimit <= limit
           /\ queue \in Nat /\ queue <= MaxLimit /\ last_leak_time \in Nat
           /\ now \in Nat /\ now <= MaxTime /\ MaxTime \in Nat
           /\ log \in Seq(Nat) /\ Len(log) \in Nat
           /\ SEC \in Nat /\ SEC > 0
  <1>1. PICK l \in Limits, w \in Windows : rate = Rate(l, w)
    BY DEF LeakyTypeOK, Rates
  <1>2. limit \in Limits
    BY DEF LeakyTypeOK, CommonTypeOK
  <1>3. /\ rate \in Nat /\ rate > 0 /\ MinRate <= rate /\ rate <= MaxRate
        /\ Unit \in Nat /\ Unit > 0 /\ MaxRate \in Nat
        /\ MinRate \in Nat /\ MinRate > 0 /\ MinLimit \in Nat /\ MinLimit > 0
        /\ MinLimit <= limit
    BY <1>1, <1>2, BucketAssumption DEF BucketAssumption
  <1>4. MaxLimit \in Nat /\ SEC \in Nat /\ SEC > 0
    BY LimiterAssumption DEF LimiterAssumption
  <1>5. queue \in Nat /\ queue <= MaxLimit
    BY <1>4 DEF LeakyTypeOK
  <1>6. QED  BY <1>3, <1>4, <1>5, CommonFacts DEF LeakyTypeOK

(***************************************************************************)
(* What _leak leaves behind.  From above: the queue loses no more than the *)
(* fastest policy drains.  From below: a queue that does not run empty     *)
(* loses at least half of what the slowest policy drains.  And what is     *)
(* still pending is less than a request.                                   *)
(***************************************************************************)
LEMMA LeakFacts ==
    ASSUME LeakyWellTyped
    PROVE  /\ QueueAt(now) \in Nat /\ QueueAt(now) <= queue
           /\ LeakTimeAt(now) \in Nat /\ last_leak_time <= LeakTimeAt(now)
                 /\ LeakTimeAt(now) <= now
           /\ queue * Unit <= QueueAt(now) * Unit + MaxRate * (LeakTimeAt(now) - last_leak_time)
           /\ QueueAt(now) > 0 =>
                 2 * QueueAt(now) * Unit + MinRate * (LeakTimeAt(now) - last_leak_time)
                    <= 2 * queue * Unit
           /\ MinRate * (now - LeakTimeAt(now)) < Unit
           /\ MaxRate * (now - LeakTimeAt(now)) <= Slack /\ Slack \in Nat
  <1> DEFINE d == now - last_leak_time
             k == Leaked(now)
             y == k * Unit
             a == MinRate * d
             b == MaxRate * d
             q == QueueAt(now)
             t == LeakTimeAt(now)
  <1>0. LeakyTypeOK /\ last_leak_time <= now
    BY DEF LeakyWellTyped
  <1>1. /\ Unit \in Nat /\ Unit > 0 /\ rate \in Nat /\ MinRate \in Nat /\ MinRate > 0
        /\ MaxRate \in Nat /\ MinRate <= rate /\ rate <= MaxRate /\ queue \in Nat
        /\ now \in Nat /\ last_leak_time \in Nat
    BY <1>0, LeakyBucketFacts
  <1>2. d \in Nat
    BY <1>0, <1>1
  <1>3. /\ k \in Nat /\ y \in Nat /\ a \in Nat /\ b \in Nat /\ y <= b
        /\ k > 0 => a <= 2 * y
        /\ k = 0 => a < Unit
    <2>1. k = (d * rate) \div Unit
      BY DEF Leaked
    <2> HIDE DEF d, k
    <2>2. QED  BY <1>1, <1>2, <2>1, LeakArithmetic
  <1>4. q = IF k < queue THEN queue - k ELSE 0
    BY DEF QueueAt
  <1>5. t = IF k > 0 THEN now ELSE last_leak_time
    BY DEF LeakTimeAt
  <1> HIDE DEF k, q, t
  <1>6. q \in Nat /\ q <= queue /\ t \in Nat /\ last_leak_time <= t /\ t <= now
    BY <1>0, <1>1, <1>3, <1>4, <1>5
  <1>7. /\ queue * Unit \in Nat /\ q * Unit \in Nat /\ queue * Unit <= q * Unit + y
        /\ q > 0 => queue * Unit = q * Unit + y
        /\ k = 0 => q = queue
    <2>1. CASE k < queue
      <3>1. q = queue - k
        BY <1>4, <2>1
      <3>2. queue * Unit = q * Unit + k * Unit
        BY <1>1, <1>3, <3>1
      <3>3. QED  BY <1>1, <1>3, <1>6, <3>1, <3>2
    <2>2. CASE ~(k < queue)
      <3>1. q = 0 /\ queue <= k
        BY <1>1, <1>3, <1>4, <2>2
      <3>2. queue * Unit <= k * Unit /\ queue * Unit \in Nat /\ 0 * Unit = 0
        BY <1>1, <1>3, <3>1, ProductMonotone
      <3>3. QED  BY <1>1, <1>3, <3>1, <3>2
    <2>3. QED  BY <2>1, <2>2
  <1>8. /\ 2 * q * Unit = 2 * (q * Unit) /\ 2 * queue * Unit = 2 * (queue * Unit)
        /\ MinRate * 0 = 0 /\ MaxRate * 0 = 0
    BY <1>1, <1>6
  <1>9. CASE k > 0
    <2>1. t = now /\ now - t = 0 /\ t - last_leak_time = d
      BY <1>1, <1>5, <1>9
    <2>2. Slack \in Nat
      <3>1. MinRate * 0 < Unit /\ 0 \in Nat
        BY <1>1, <1>8
      <3>2. QED  BY <1>1, <3>1, PendingArithmetic DEF Slack
    <2>3. queue * Unit <= q * Unit + b
      <3> HIDE DEF b, y
      <3>1. QED  BY <1>3, <1>7
    <2>4. q > 0 => 2 * q * Unit + a <= 2 * queue * Unit
      <3> HIDE DEF a, y
      <3>1. QED  BY <1>3, <1>7, <1>8, <1>9
    <2>5. QED  BY <1>1, <1>6, <1>8, <2>1, <2>2, <2>3, <2>4 DEF q, t
  <1>10. CASE k = 0
    <2>1. t = last_leak_time /\ t - last_leak_time = 0 /\ now - t = d /\ q = queue
      BY <1>1, <1>5, <1>7, <1>10
    <2>2. a < Unit
      BY <1>3, <1>10
    <2>3. b <= Slack /\ Slack \in Nat
      <3> HIDE DEF d
      <3>1. QED  BY <1>1, <1>2, <2>2, PendingArithmetic DEF Slack
    <2>4. queue * Unit <= q * Unit + MaxRate * 0 /\ 2 * q * Unit + MinRate * 0 <= 2 * queue * Unit
      BY <1>7, <1>8, <2>1
    <2>5. QED  BY <1>6, <2>1, <2>2, <2>3, <2>4 DEF q, t
  <1>11. QED  BY <1>3, <1>9, <1>10

(***************************************************************************)
(* What every call does: it leaks, and either adds a request to the queue  *)
(* and records the admission, or does neither.                             *)
(***************************************************************************)
Leaks ==
    /\ queue' = QueueAt(now) /\ last_leak_time' = LeakTimeAt(now)
    /\ log' = log /\ now' = now
LeakyAdmits ==
    /\ HasSlot(QueueAt(now))
    /\ queue' = QueueAt(now) + 1 /\ last_leak_time' = LeakTimeAt(now)
    /\ log' = Append(log, now) /\ now' = now
LeakyLeaves ==
    /\ queue' = queue /\ last_leak_time' = last_leak_time /\ log' = log
    /\ now' \in 0..MaxTime /\ now <= now'

(***************************************************************************)
(* Every step of the leaky bucket has one of these shapes.                 *)
(***************************************************************************)
LEMMA LeakyStepShape == ASSUME LeakyWellTyped, LeakyNext PROVE Leaks \/ LeakyAdmits \/ LeakyLeaves
  <1>0. /\ now \in Nat /\ MaxTime \in Nat /\ now <= MaxTime /\ QueueAt(now) \in Nat
        /\ QueueAt(now) + 0 = QueueAt(now)
    BY LeakyBucketFacts, LeakFacts DEF LeakyWellTyped
  <1>1. CASE LeakyAllowRequest
    <2>1. CASE /\ HasSlot(QueueAt(now))
               /\ Leak(1)
               /\ log' = Append(log, now)
               /\ now' = now
      BY <2>1 DEF Leak, LeakyAdmits
    <2>2. CASE Leak(0) /\ UNCHANGED <<log, now>>
      BY <1>0, <2>2 DEF Leak, Leaks
    <2>3. QED  BY <1>1, <2>1, <2>2 DEF LeakyAllowRequest
  <1>2. CASE LeakyRemainingRequests
    BY <1>0, <1>2 DEF LeakyRemainingRequests, Leak, Leaks
  <1>3. CASE LeakyResetTime
    BY <1>0, <1>3 DEF LeakyResetTime, Leak, Leaks
  <1>4. CASE Tick /\ UNCHANGED <<rate, queue, last_leak_time>>
    BY <1>0, <1>4 DEF Tick, LeakyLeaves
  <1>5. CASE /\ \/ \E l \in Limits, w \in Windows : RetuneCapacity(l, w)
                \/ RetuneRate
             /\ UNCHANGED <<queue, last_leak_time>>
    BY <1>0, <1>5 DEF RetuneCapacity, Retune, RetuneRate, LeakyLeaves
  <1>6. QED  BY <1>1, <1>2, <1>3, <1>4, <1>5 DEF LeakyNext

(***************************************************************************)
(* A new queue is empty and well typed.                                    *)
(***************************************************************************)
LEMMA LeakyInitWellTyped == LeakyInit => LeakyWellTyped
  <1> SUFFICES ASSUME LeakyInit PROVE LeakyWellTyped
    OBVIOUS
  <1>1. CommonTypeOK /\ now = 0 /\ MaxLimit \in Nat
    BY CommonInitFacts, LimiterAssumption DEF LeakyInit, BucketInit, LimiterAssumption
  <1>2. rate \in Rates
    BY DEF LeakyInit, BucketInit, CommonInit, Rates
  <1>3. queue \in 0..MaxLimit /\ last_leak_time = 0
    BY <1>1 DEF LeakyInit
  <1>4. QED  BY <1>1, <1>2, <1>3 DEF LeakyWellTyped, LeakyTypeOK

(***************************************************************************)
(* The answer of reset_time is a natural number, and one second after it   *)
(* enough whole requests have leaked for one to fit.                       *)
(***************************************************************************)
LEMMA SlotAfter ==
    ASSUME LeakyTypeOK, NEW n \in Nat
    PROVE  /\ SecondsToSlot(n) \in Nat
           /\ (SecondsToSlot(n) + 1) * SEC \in Nat
           /\ n >= limit =>
                 ((SecondsToSlot(n) + 1) * SEC) * rate >= (n - limit + 1) * Unit
  <1> DEFINE v == SecondsToSlot(n)
             q == rate * SEC
             m == (n - limit + 1) * Unit
  <1>1. /\ rate \in Nat /\ rate > 0 /\ SEC \in Nat /\ SEC > 0 /\ Unit \in Nat
        /\ limit \in Nat
    BY LeakyBucketFacts
  <1>2. q \in Nat /\ q > 0
    BY <1>1
  <1>3. v = IF n < limit THEN 0 ELSE m \div q
    BY DEF SecondsToSlot
  <1>4. n >= limit => m \in Nat
    <2>1. n >= limit => n - limit + 1 \in Nat
      BY <1>1
    <2>2. QED  BY <1>1, <2>1
  <1>5. v \in Nat /\ (n >= limit => (v + 1) * q \in Nat /\ (v + 1) * q > m)
    <2> HIDE DEF v, q, m
    <2>1. CASE n < limit
      BY <1>1, <1>3, <2>1
    <2>2. CASE n >= limit
      <3>1. v = m \div q /\ m \in Nat
        BY <1>1, <1>3, <1>4, <2>2
      <3>2. QED  BY <1>2, <3>1, QuotientReaches
    <2>3. QED  BY <1>1, <2>1, <2>2
  <1>6. (v + 1) * SEC \in Nat /\ ((v + 1) * SEC) * rate = (v + 1) * q
    <2> HIDE DEF v
    <2>1. QED  BY <1>1, <1>5
  <1>7. n >= limit => ((v + 1) * SEC) * rate >= m
    <2> DEFINE g == (v + 1) * q
    <2>1. ((v + 1) * SEC) * rate = g /\ (n >= limit => g \in Nat /\ g > m /\ m \in Nat)
      BY <1>4, <1>5, <1>6
    <2> HIDE DEF g, m
    <2>2. QED  BY <2>1
  <1>8. QED  BY <1>5, <1>6, <1>7

(***************************************************************************)
(* No call and no half of a retune leaves the types, and no call sets the  *)
(* leak clock ahead of time.                                               *)
(***************************************************************************)
LEMMA LeakyStepWellTyped == LeakyWellTyped /\ [LeakyNext]_LeakyVars => LeakyWellTyped'
  <1> SUFFICES ASSUME LeakyWellTyped, [LeakyNext]_LeakyVars PROVE LeakyWellTyped'
    OBVIOUS
  <1>0. LeakyTypeOK /\ last_leak_time <= now
    BY DEF LeakyWellTyped
  <1>1. CASE UNCHANGED LeakyVars
    BY <1>0, <1>1 DEF LeakyWellTyped, LeakyTypeOK, CommonTypeOK, LeakyVars, Rates, Rate, Replies
  <1>2. CASE LeakyNext
    <2>1. /\ QueueAt(now) \in Nat /\ QueueAt(now) <= queue
          /\ LeakTimeAt(now) \in Nat /\ LeakTimeAt(now) <= now
          /\ queue \in Nat /\ queue <= MaxLimit /\ limit \in Nat /\ limit <= MaxLimit
          /\ MaxLimit \in Nat /\ now \in Nat /\ last_leak_time \in Nat
      <3>1. /\ QueueAt(now) \in Nat /\ QueueAt(now) <= queue
            /\ LeakTimeAt(now) \in Nat /\ LeakTimeAt(now) <= now
        BY LeakFacts
      <3>2. QED  BY <1>0, <3>1, LeakyBucketFacts
    <2>2. /\ queue' \in 0..MaxLimit /\ last_leak_time' \in Nat
          /\ last_leak_time' <= now' /\ now' \in 0..MaxTime /\ log' \in Seq(Nat)
      <3>1. now \in 0..MaxTime /\ log \in Seq(Nat)
        BY <1>0 DEF LeakyTypeOK, CommonTypeOK
      <3>2. CASE Leaks
        BY <2>1, <3>1, <3>2 DEF Leaks
      <3>3. CASE LeakyAdmits
        BY <2>1, <3>1, <3>3 DEF LeakyAdmits, HasSlot
      <3>4. CASE LeakyLeaves
        BY <1>0, <2>1, <3>1, <3>4 DEF LeakyLeaves
      <3>5. QED  BY <1>2, <3>2, <3>3, <3>4, LeakyStepShape
    <2>3. limit' \in Limits /\ window' \in Windows /\ rate' \in Rates
      <3>1. limit \in Limits /\ window \in Windows /\ rate \in Rates
        BY <1>0 DEF LeakyTypeOK, CommonTypeOK
      <3>2. CASE RetuneRate
        BY <3>1, <3>2 DEF RetuneRate, Rates
      <3>3. CASE ~RetuneRate
        BY <1>2, <3>1, <3>3 DEF LeakyNext, LeakyAllowRequest, LeakyRemainingRequests,
              LeakyResetTime, Tick,
             RetuneCapacity, Retune
      <3>4. QED  BY <3>2, <3>3
    <2>4. reply' \in Replies
      <3>1. SecondsToSlot(QueueAt(now)) \in Nat
        BY <1>0, <2>1, SlotAfter
      <3>2. Left(QueueAt(now)) \in Nat
        BY <1>0, <2>1, LeftNat DEF LeakyTypeOK, CommonTypeOK
      <3>3. QED
        BY <1>2, <3>1, <3>2, RepliesTyped DEF LeakyNext, LeakyAllowRequest,
              LeakyRemainingRequests,
             LeakyResetTime, Tick, RetuneCapacity, Retune, RetuneRate
    <2>5. QED  BY <2>2, <2>3, <2>4 DEF LeakyWellTyped, LeakyTypeOK, CommonTypeOK, Rates, Rate,
          Replies
  <1>3. QED  BY <1>1, <1>2

(***************************************************************************)
(* Type correctness: the queue of leaky_bucket.py never holds more than    *)
(* the largest capacity, whatever policies are set.                        *)
(***************************************************************************)
LEMMA LeakyTyped == LeakySpec => []LeakyTypeOK
  <1>1. LeakyWellTyped => LeakyTypeOK
    BY DEF LeakyWellTyped
  <1>2. QED  BY <1>1, LeakyInitWellTyped, LeakyStepWellTyped, PTL DEF LeakySpec

----------------------------------------------------------------------------
(***************************************************************************)
(* The strengthening of the burst bound.  Every admission since the i-th   *)
(* is still in the queue or has leaked since then; what was pending when   *)
(* the i-th was admitted is the slack.                                     *)
(***************************************************************************)
QueueBudgeted ==
    \A i \in 1..Len(log) :
        (Len(log) - i + 1) * Unit <= queue * Unit + MaxRate * (last_leak_time - log[i]) + Slack

LeakyUpperInv == LeakyWellTyped /\ QueueBudgeted /\ LeakyBurstBound

(***************************************************************************)
(* The budget counted from one earlier admission at time x, carried over a *)
(* leak: what leaves the queue has had the time to drain.                  *)
(***************************************************************************)
LEMMA LeakyBudgetCarried ==
    ASSUME LeakyWellTyped, NEW c \in Int, NEW x \in Nat,
           c <= queue * Unit + MaxRate * (last_leak_time - x) + Slack
    PROVE  c <= QueueAt(now) * Unit + MaxRate * (LeakTimeAt(now) - x) + Slack
  <1> DEFINE a == MaxRate * (LeakTimeAt(now) - last_leak_time)
             b == MaxRate * (last_leak_time - x)
             z == MaxRate * (LeakTimeAt(now) - x)
             e == queue * Unit
             f == QueueAt(now) * Unit
  <1>1. /\ LeakTimeAt(now) \in Nat /\ QueueAt(now) \in Nat /\ Slack \in Nat /\ e <= f + a
    BY LeakFacts
  <1>2. last_leak_time \in Nat /\ MaxRate \in Nat /\ queue \in Nat /\ Unit \in Nat
    BY LeakyBucketFacts DEF LeakyWellTyped
  <1>3. z = a + b
    BY <1>1, <1>2, ProductSplit
  <1>4. a \in Int /\ b \in Int /\ e \in Int /\ f \in Int
    <2>1. LeakTimeAt(now) - last_leak_time \in Int /\ last_leak_time - x \in Int
      BY <1>1, <1>2
    <2>2. QED  BY <1>1, <1>2, <2>1
  <1>5. c <= e + b + Slack
    OBVIOUS
  <1> HIDE DEF a, b, z, e, f
  <1>6. c <= f + z + Slack
    BY <1>1, <1>3, <1>4, <1>5
  <1>7. QED  BY <1>6 DEF f, z

(***************************************************************************)
(* A leak keeps the budget.                                                *)
(***************************************************************************)
LEMMA LeaksBudgeted == ASSUME LeakyWellTyped, QueueBudgeted, Leaks PROVE QueueBudgeted'
  <1>1. log \in Seq(Nat) /\ Len(log) \in Nat /\ Unit \in Nat
    BY LeakyBucketFacts DEF LeakyWellTyped
  <1>2. ASSUME NEW i \in 1..Len(log)
        PROVE  (Len(log) - i + 1) * Unit
                  <= QueueAt(now) * Unit + MaxRate * (LeakTimeAt(now) - log[i]) + Slack
    <2>1. log[i] \in Nat /\ (Len(log) - i + 1) * Unit \in Int
      BY <1>1, OneMore
    <2>2. (Len(log) - i + 1) * Unit <= queue * Unit + MaxRate * (last_leak_time - log[i]) + Slack
      BY DEF QueueBudgeted
    <2>3. QED  BY <2>1, <2>2, LeakyBudgetCarried
  <1>3. QED  BY <1>2 DEF QueueBudgeted, Leaks, Slack

(***************************************************************************)
(* An admission keeps the budget: it adds the same Unit to both sides, and *)
(* what is pending at its own time is covered by the slack.                *)
(***************************************************************************)
LEMMA LeakyAdmitsBudgeted == ASSUME LeakyWellTyped, QueueBudgeted, LeakyAdmits
      PROVE QueueBudgeted'
  <1> DEFINE n == Len(log)
             q == QueueAt(now)
             t == LeakTimeAt(now)
  <1>1. /\ log \in Seq(Nat) /\ n \in Nat /\ Unit \in Nat /\ now \in Nat /\ MaxRate \in Nat
    BY LeakyBucketFacts DEF LeakyWellTyped
  <1>2. /\ q \in Nat /\ t \in Nat /\ MaxRate * (now - t) <= Slack /\ Slack \in Nat
    BY LeakFacts
  <1>3. queue' = q + 1 /\ last_leak_time' = t /\ log' = Append(log, now)
    BY DEF LeakyAdmits
  <1>4. /\ Len(log') = n + 1 /\ log'[n + 1] = now
        /\ \A i \in 1..n : log'[i] = log[i] /\ log[i] \in Nat
        /\ \A i \in 1..(n + 1) : i \in 1..n \/ i = n + 1
    BY <1>1, <1>3, LogGrown
  <1>5. (q + 1) * Unit = q * Unit + Unit /\ q * Unit \in Nat
    BY <1>1, <1>2
  <1>6. ASSUME NEW i \in 1..n
        PROVE  (n + 1 - i + 1) * Unit <= (q + 1) * Unit + MaxRate * (t - log[i]) + Slack
    <2> DEFINE p == (n - i + 1) * Unit
               z == MaxRate * (t - log[i])
               f == q * Unit
    <2>1. (n + 1 - i + 1) * Unit = p + Unit /\ p \in Int /\ log[i] \in Nat
      BY <1>1, <1>4, OneMore
    <2>2. p <= queue * Unit + MaxRate * (last_leak_time - log[i]) + Slack
      BY DEF QueueBudgeted
    <2>3. p <= f + z + Slack
      <3> HIDE DEF p
      <3>1. QED  BY <2>1, <2>2, LeakyBudgetCarried
    <2>4. z \in Int
      <3>1. t - log[i] \in Int
        BY <1>2, <2>1
      <3>2. QED  BY <1>1, <3>1
    <2>5. p + Unit <= f + Unit + z + Slack
      <3>1. p \in Int /\ f \in Nat
        BY <1>5, <2>1
      <3> HIDE DEF p, z, f
      <3>2. QED  BY <1>1, <1>2, <2>3, <2>4, <3>1
    <2>6. QED  BY <1>5, <2>1, <2>5
  <1>7. (n + 1 - (n + 1) + 1) * Unit <= (q + 1) * Unit + MaxRate * (t - now) + Slack
    <2> DEFINE w == MaxRate * (now - t)
               f == q * Unit
    <2>1. n + 1 - (n + 1) + 1 = 1 /\ 1 * Unit = Unit
      BY <1>1
    <2>2. w \in Int /\ MaxRate * (t - now) = 0 - w
      <3>1. now - t \in Int /\ t - now = 0 - (now - t)
        BY <1>1, <1>2
      <3>2. QED  BY <1>1, <3>1
    <2>3. w <= Slack /\ f \in Nat /\ (q + 1) * Unit = f + Unit
      BY <1>2, <1>5
    <2>4. Unit <= f + Unit + (0 - w) + Slack
      <3>1. w \in Int
        BY <2>2
      <3> HIDE DEF w, f
      <3>2. QED  BY <1>1, <1>2, <2>3, <3>1
    <2>5. QED  BY <2>1, <2>2, <2>3, <2>4
  <1> HIDE DEF n, q, t
  <1>8. ASSUME NEW i \in 1..(n + 1)
        PROVE  (n + 1 - i + 1) * Unit <= (q + 1) * Unit + MaxRate * (t - log'[i]) + Slack
    <2>1. CASE i \in 1..n
      BY <1>4, <1>6, <2>1
    <2>2. CASE i = n + 1
      BY <1>4, <1>7, <2>2
    <2>3. QED  BY <1>4, <2>1, <2>2
  <1>9. ASSUME NEW i \in 1..(n + 1)
        PROVE  (Len(log') - i + 1) * Unit
                  <= queue' * Unit + MaxRate * (last_leak_time' - log'[i]) + Slack
    <2>1. Len(log') = n + 1 /\ queue' = q + 1 /\ last_leak_time' = t
      BY <1>3, <1>4
    <2>2. (n + 1 - i + 1) * Unit <= (q + 1) * Unit + MaxRate * (t - log'[i]) + Slack
      BY <1>8
    <2>3. log'[i] \in Nat
      BY <1>1, <1>4
    <2>4. QED  BY <1>1, <1>2, <2>1, <2>2, <2>3
  <1>10. QED  BY <1>4, <1>9 DEF QueueBudgeted

(***************************************************************************)
(* The burst bound of the newest admission follows from the budget: the    *)
(* queue is no longer than the largest capacity, and the leak clock is not *)
(* ahead of the admission.                                                 *)
(***************************************************************************)
LEMMA LeakyAdmitsBounded ==
    ASSUME LeakyWellTyped, LeakyWellTyped', QueueBudgeted', LeakyBurstBound, LeakyAdmits
    PROVE  LeakyBurstBound'
  <1> DEFINE n == Len(log)
             m == MaxLimit * Unit
  <1>1. /\ log \in Seq(Nat) /\ n \in Nat /\ Unit \in Nat /\ now \in Nat /\ MaxRate \in Nat
        /\ MaxLimit \in Nat
    BY LeakyBucketFacts DEF LeakyWellTyped
  <1>2. Slack \in Nat
    BY LeakFacts
  <1>3. /\ queue' \in Nat /\ queue' <= MaxLimit /\ last_leak_time' \in Nat
        /\ last_leak_time' <= now /\ now - last_leak_time' \in Nat
    <2> DEFINE t == last_leak_time'
    <2>1. queue' \in 0..MaxLimit /\ last_leak_time' \in Nat /\ last_leak_time' <= now'
      BY DEF LeakyWellTyped, LeakyTypeOK
    <2>2. now' = now
      BY DEF LeakyAdmits
    <2>3. queue' \in Nat /\ queue' <= MaxLimit
      BY <1>1, <2>1
    <2>4. t \in Nat /\ t <= now
      BY <2>1, <2>2
    <2> HIDE DEF t
    <2>5. now - t \in Nat
      BY <1>1, <2>4
    <2>6. QED  BY <2>3, <2>4, <2>5 DEF t
  <1>4. /\ Len(log') = n + 1 /\ log'[n + 1] = now
        /\ \A i \in 1..n : log'[i] = log[i] /\ log[i] \in Nat
        /\ \A i \in 1..(n + 1) : i \in 1..n \/ i = n + 1
    BY <1>1, LogGrown DEF LeakyAdmits
  <1>5. ASSUME NEW i \in 1..(n + 1)
        PROVE  (n + 1 - i + 1) * Unit <= MaxLimit * Unit + MaxRate * (now - log'[i]) + Slack
    <2> DEFINE p == (n + 1 - i + 1) * Unit
               e == queue' * Unit
               x == MaxRate * (last_leak_time' - log'[i])
               y == MaxRate * (now - last_leak_time')
               z == MaxRate * (now - log'[i])
    <2>1. p <= e + x + Slack
      BY <1>4 DEF QueueBudgeted, Slack
    <2>2. log'[i] \in Nat
      BY <1>1, <1>4
    <2>3. e <= m /\ e \in Nat /\ m \in Nat
      BY <1>1, <1>3, ProductMonotone
    <2>4. z = y + x
      BY <1>1, <1>3, <2>2, ProductSplit
    <2>5. y \in Nat /\ x \in Int
      <3>1. now - last_leak_time' \in Nat
        BY <1>3
      <3>2. last_leak_time' - log'[i] \in Int
        BY <1>3, <2>2
      <3>3. QED  BY <1>1, <3>1, <3>2
    <2>6. p \in Int
      <3>1. n + 1 - i + 1 \in Int
        BY <1>1, <1>4
      <3>2. QED  BY <1>1, <3>1
    <2> HIDE DEF p, e, x, y, z, m
    <2>7. p <= m + z + Slack
      BY <1>2, <2>1, <2>3, <2>4, <2>5, <2>6
    <2>8. QED  BY <2>7 DEF p, m, z
  <1> HIDE DEF n
  <1>6. ASSUME NEW i \in 1..(n + 1), NEW k \in 1..(n + 1), i <= k
        PROVE  (k - i + 1) * Unit <= MaxLimit * Unit + MaxRate * (log'[k] - log'[i]) + Slack
    <2>1. CASE k = n + 1
      <3>1. (n + 1 - i + 1) * Unit <= MaxLimit * Unit + MaxRate * (now - log'[i]) + Slack
        BY <1>5
      <3>2. k - i + 1 = n + 1 - i + 1 /\ log'[k] = now
        BY <1>1, <1>4, <2>1
      <3>3. QED  BY <3>1, <3>2
    <2>2. CASE k \in 1..n
      <3>1. i \in 1..n
        BY <1>1, <1>4, <1>6, <2>2
      <3>2. (k - i + 1) * Unit <= MaxLimit * Unit + MaxRate * (log[k] - log[i]) + Slack
        BY <1>6, <2>2, <3>1 DEF LeakyBurstBound, n
      <3>3. QED  BY <1>4, <2>2, <3>1, <3>2
    <2>3. QED  BY <1>4, <2>1, <2>2
  <1>7. QED  BY <1>4, <1>6 DEF LeakyBurstBound

(***************************************************************************)
(* The invariant holds of a new queue and is kept by every step.           *)
(***************************************************************************)
LEMMA LeakyInitUpperInv == LeakyInit => LeakyUpperInv
  <1> SUFFICES ASSUME LeakyInit PROVE LeakyUpperInv
    OBVIOUS
  <1>1. LeakyWellTyped /\ log = <<>>
    BY LeakyInitWellTyped, CommonInitFacts DEF LeakyInit, BucketInit
  <1>2. 1..Len(log) = {}
    BY <1>1
  <1>3. QED  BY <1>1, <1>2 DEF LeakyUpperInv, QueueBudgeted, LeakyBurstBound

(***************************************************************************)
(* Every step keeps the invariant; only a leak or an admission can disturb *)
(* the budget.                                                             *)
(***************************************************************************)
LEMMA LeakyStepUpperInv == LeakyUpperInv /\ [LeakyNext]_LeakyVars => LeakyUpperInv'
  <1> SUFFICES ASSUME LeakyUpperInv, [LeakyNext]_LeakyVars PROVE LeakyUpperInv'
    OBVIOUS
  <1>0. LeakyWellTyped /\ QueueBudgeted /\ LeakyBurstBound
    BY DEF LeakyUpperInv
  <1>1. LeakyWellTyped'
    BY <1>0, LeakyStepWellTyped
  <1>2. CASE LeakyAdmits
    BY <1>0, <1>1, <1>2, LeakyAdmitsBudgeted, LeakyAdmitsBounded DEF LeakyUpperInv
  <1>3. CASE Leaks
    <2>1. LeakyBurstBound'
      BY <1>0, <1>3 DEF Leaks, LeakyBurstBound, Slack
    <2>2. QED  BY <1>0, <1>1, <1>3, <2>1, LeaksBudgeted DEF LeakyUpperInv
  <1>4. CASE LeakyLeaves \/ UNCHANGED LeakyVars
    <2>1. log' = log /\ queue' = queue /\ last_leak_time' = last_leak_time
      BY <1>4 DEF LeakyLeaves, LeakyVars
    <2>2. QED  BY <1>0, <1>1, <2>1 DEF LeakyUpperInv, QueueBudgeted, LeakyBurstBound, Slack
  <1>5. QED  BY <1>0, <1>2, <1>3, <1>4, LeakyStepShape

(***************************************************************************)
(* Between any two admissions of leaky_bucket.py no more requests pass     *)
(* than a full queue, the drain of the fastest policy in between and the   *)
(* pending slack, for every set of policies and every sequence of retunes. *)
(***************************************************************************)
LEMMA LeakyBoundAlone == LeakySpec => []LeakyBurstBound
  <1>1. LeakyUpperInv => LeakyBurstBound
    BY DEF LeakyUpperInv
  <1>2. QED  BY <1>1, LeakyInitUpperInv, LeakyStepUpperInv, PTL DEF LeakySpec

----------------------------------------------------------------------------
(***************************************************************************)
(* What a queue that is not empty owes to its admissions.  Counted from    *)
(* the admission that found it empty, what is still queued and half of     *)
(* what the slowest policy has drained since are no more than what was     *)
(* admitted.                                                               *)
(***************************************************************************)
Owed(i) == 2 * queue * Unit + MinRate * (last_leak_time - log[i]) <= 2 * (Len(log) - i + 1) * Unit
HalfDrained == queue = 0 \/ \E i \in 1..Len(log) : Owed(i)

\* A rejection leaves a full queue with less than one request pending
RejectedFull == Rejected => queue >= MinLimit /\ MinRate * (now - last_leak_time) < Unit

LeakyLowerInv == LeakyWellTyped /\ HalfDrained /\ RejectedFull

(***************************************************************************)
(* What is owed, carried over a leak that does not empty the queue.        *)
(***************************************************************************)
LEMMA DebtCarried ==
    ASSUME LeakyWellTyped, QueueAt(now) > 0, NEW c \in Int, NEW x \in Nat,
           2 * queue * Unit + MinRate * (last_leak_time - x) <= c
    PROVE  2 * QueueAt(now) * Unit + MinRate * (LeakTimeAt(now) - x) <= c
  <1> DEFINE a == MinRate * (LeakTimeAt(now) - last_leak_time)
             b == MinRate * (last_leak_time - x)
             z == MinRate * (LeakTimeAt(now) - x)
             e == 2 * queue * Unit
             f == 2 * QueueAt(now) * Unit
  <1>1. LeakTimeAt(now) \in Nat /\ QueueAt(now) \in Nat /\ f + a <= e
    BY LeakFacts
  <1>2. last_leak_time \in Nat /\ MinRate \in Nat /\ queue \in Nat /\ Unit \in Nat
    BY LeakyBucketFacts DEF LeakyWellTyped
  <1>3. z = a + b
    BY <1>1, <1>2, ProductSplit
  <1>4. a \in Int /\ b \in Int /\ e \in Int /\ f \in Int
    <2>1. /\ LeakTimeAt(now) - last_leak_time \in Int /\ last_leak_time - x \in Int
          /\ 2 * queue \in Int /\ 2 * QueueAt(now) \in Int
      BY <1>1, <1>2
    <2>2. QED  BY <1>2, <2>1
  <1>5. e + b <= c
    OBVIOUS
  <1> HIDE DEF a, b, z, e, f
  <1>6. f + z <= c
    BY <1>1, <1>3, <1>4, <1>5
  <1>7. QED  BY <1>6 DEF f, z

(***************************************************************************)
(* A leak keeps the debt.                                                  *)
(***************************************************************************)
LEMMA LeaksHalfDrained == ASSUME LeakyWellTyped, HalfDrained, Leaks PROVE HalfDrained'
  <1>1. /\ log \in Seq(Nat) /\ Len(log) \in Nat /\ Unit \in Nat /\ queue \in Nat
    BY LeakyBucketFacts DEF LeakyWellTyped
  <1>2. QueueAt(now) \in Nat /\ QueueAt(now) <= queue
    BY LeakFacts
  <1>3. queue' = QueueAt(now) /\ last_leak_time' = LeakTimeAt(now) /\ log' = log
    BY DEF Leaks
  <1>4. CASE QueueAt(now) = 0
    BY <1>3, <1>4 DEF HalfDrained
  <1>5. CASE QueueAt(now) > 0
    <2>1. queue # 0
      BY <1>1, <1>2, <1>5
    <2>2. PICK i \in 1..Len(log) : Owed(i)
      BY <2>1 DEF HalfDrained
    <2>3. log[i] \in Nat /\ 2 * (Len(log) - i + 1) * Unit \in Int
      <3>1. 2 * (Len(log) - i + 1) \in Int
        BY <1>1
      <3>2. QED  BY <1>1, <3>1
    <2>4. 2 * QueueAt(now) * Unit + MinRate * (LeakTimeAt(now) - log[i])
             <= 2 * (Len(log) - i + 1) * Unit
      BY <1>5, <2>2, <2>3, DebtCarried DEF Owed
    <2>5. QED  BY <1>3, <2>4 DEF HalfDrained, Owed
  <1>6. QED  BY <1>2, <1>4, <1>5

(***************************************************************************)
(* An admission keeps the debt: the one that finds the queue empty becomes *)
(* the one that is counted from.                                           *)
(***************************************************************************)
LEMMA AdmitsHalfDrained == ASSUME LeakyWellTyped, HalfDrained, LeakyAdmits PROVE HalfDrained'
  <1> DEFINE n == Len(log)
             q == QueueAt(now)
             t == LeakTimeAt(now)
  <1>1. /\ log \in Seq(Nat) /\ n \in Nat /\ Unit \in Nat /\ queue \in Nat /\ now \in Nat
        /\ MinRate \in Nat
    BY LeakyBucketFacts DEF LeakyWellTyped
  <1>2. q \in Nat /\ q <= queue /\ t \in Nat /\ t <= now
    BY LeakFacts
  <1>3. queue' = q + 1 /\ last_leak_time' = t /\ log' = Append(log, now)
    BY DEF LeakyAdmits
  <1>4. /\ Len(log') = n + 1 /\ log'[n + 1] = now
        /\ \A i \in 1..n : log'[i] = log[i] /\ log[i] \in Nat
    BY <1>1, <1>3, LogGrown
  <1>5. CASE q = 0
    <2>1. MinRate * (t - now) <= 0 /\ MinRate * (t - now) \in Int
      <3>1. t - now \in Int /\ t - now <= 0
        BY <1>1, <1>2
      <3>2. QED  BY <1>1, <3>1
    <2>2. 2 * (q + 1) = 2 /\ 2 * (n + 1 - (n + 1) + 1) = 2 /\ 2 * Unit \in Int
      BY <1>1, <1>5
    <2>3. 2 * (q + 1) * Unit + MinRate * (t - now) <= 2 * (n + 1 - (n + 1) + 1) * Unit
      BY <2>1, <2>2
    <2>4. n + 1 \in 1..Len(log')
      BY <1>1, <1>4
    <2> HIDE DEF n, q, t
    <2>5. PICK m \in 1..Len(log') : m = n + 1
      BY <2>4
    <2>6. Owed(m)'
      BY <1>1, <1>2, <1>3, <1>4, <2>3, <2>5 DEF Owed
    <2>7. QED  BY <2>6 DEF HalfDrained
  <1>6. CASE q > 0
    <2>1. PICK i \in 1..n : Owed(i)
      BY <1>1, <1>2, <1>6 DEF HalfDrained
    <2> DEFINE c == 2 * (n - i + 1) * Unit
               z == MinRate * (t - log[i])
               g == 2 * q * Unit
    <2>2. log[i] \in Nat /\ c \in Int /\ z \in Int /\ g \in Int
      <3>1. log[i] \in Nat
        BY <1>4
      <3>2. 2 * (n - i + 1) \in Int /\ t - log[i] \in Int /\ 2 * q \in Int
        BY <1>1, <1>2, <3>1
      <3>3. QED  BY <1>1, <3>1, <3>2
    <2>3. g + z <= c
      <3> HIDE DEF q, t
      <3>1. QED  BY <1>6, <2>1, <2>2, DebtCarried DEF Owed, q, t
    <2>4. 2 * (q + 1) * Unit = g + 2 * Unit /\ 2 * (n + 1 - i + 1) * Unit = c + 2 * Unit
      BY <1>1, <1>2
    <2>5. 2 * (q + 1) * Unit + z <= 2 * (n + 1 - i + 1) * Unit
      <3> DEFINE u == 2 * Unit
      <3>1. u \in Int /\ 2 * (q + 1) * Unit = g + u /\ 2 * (n + 1 - i + 1) * Unit = c + u
        BY <1>1, <2>4
      <3> HIDE DEF c, z, g, u
      <3>2. g + u + z <= c + u
        BY <2>2, <2>3, <3>1
      <3>3. QED  BY <3>1, <3>2
    <2>6. i \in 1..Len(log') /\ log'[i] = log[i]
      BY <1>1, <1>4
    <2> HIDE DEF n, q, t
    <2>7. Owed(i)'
      BY <1>1, <1>2, <1>3, <1>4, <2>2, <2>5, <2>6 DEF Owed
    <2>8. QED  BY <2>6, <2>7 DEF HalfDrained
  <1>7. QED  BY <1>2, <1>5, <1>6

(***************************************************************************)
(* The lower invariant holds of a new queue and is kept by every step.     *)
(***************************************************************************)
LEMMA LeakyInitLowerInv == LeakyInit => LeakyLowerInv
  <1> SUFFICES ASSUME LeakyInit PROVE LeakyLowerInv
    OBVIOUS
  <1>1. LeakyWellTyped /\ queue = 0 /\ reply = NoReply
    BY LeakyInitWellTyped DEF LeakyInit, BucketInit, CommonInit
  <1>2. ~Rejected
    BY <1>1 DEF Rejected, NoReply
  <1>3. QED  BY <1>1, <1>2 DEF LeakyLowerInv, HalfDrained, RejectedFull

(***************************************************************************)
(* Every step keeps the lower invariant.                                   *)
(***************************************************************************)
LEMMA LeakyStepLowerInv == LeakyLowerInv /\ [LeakyNext]_LeakyVars => LeakyLowerInv'
  <1> SUFFICES ASSUME LeakyLowerInv, [LeakyNext]_LeakyVars PROVE LeakyLowerInv'
    OBVIOUS
  <1>0. LeakyWellTyped /\ HalfDrained /\ RejectedFull /\ LeakyTypeOK
    BY DEF LeakyLowerInv, LeakyWellTyped
  <1>1. LeakyWellTyped'
    BY <1>0, LeakyStepWellTyped
  <1>2. HalfDrained'
    <2>1. CASE LeakyAdmits
      BY <1>0, <2>1, AdmitsHalfDrained
    <2>2. CASE Leaks
      BY <1>0, <2>2, LeaksHalfDrained
    <2>3. CASE LeakyLeaves \/ UNCHANGED LeakyVars
      <3>1. log' = log /\ queue' = queue /\ last_leak_time' = last_leak_time
        BY <2>3 DEF LeakyLeaves, LeakyVars
      <3>2. QED  BY <1>0, <3>1 DEF HalfDrained, Owed
    <2>4. QED  BY <1>0, <2>1, <2>2, <2>3, LeakyStepShape
  <1>3. RejectedFull'
    <2>1. CASE UNCHANGED LeakyVars
      BY <1>0, <2>1 DEF RejectedFull, Rejected, LeakyVars
    <2>2. CASE LeakyAllowRequest
      <3>1. CASE reply' = Allow(TRUE)
        BY <3>1 DEF Allow, RejectedFull, Rejected
      <3>2. CASE ~HasSlot(QueueAt(now)) /\ Leak(0) /\ now' = now
        <4>1. QueueAt(now) \in Nat /\ MinRate * (now - LeakTimeAt(now)) < Unit
          BY <1>0, LeakFacts
        <4>2. limit \in Nat /\ MinLimit \in Nat /\ MinLimit <= limit
          BY <1>0, LeakyBucketFacts
        <4>3. queue' = QueueAt(now) /\ last_leak_time' = LeakTimeAt(now)
          BY <3>2, <4>1 DEF Leak
        <4>4. queue' >= MinLimit
          BY <3>2, <4>1, <4>2, <4>3 DEF HasSlot
        <4>5. QED  BY <3>2, <4>1, <4>3, <4>4 DEF RejectedFull
      <3>3. QED  BY <2>2, <3>1, <3>2 DEF LeakyAllowRequest
    <2>3. CASE LeakyNext /\ ~LeakyAllowRequest
      <3>1. reply'.op # "allow"
        BY <2>3 DEF LeakyNext, LeakyRemainingRequests, LeakyResetTime, Tick, RetuneCapacity,
              Retune,
             RetuneRate, NoReply, Answer
      <3>2. QED  BY <3>1 DEF RejectedFull, Rejected
    <2>4. QED  BY <2>1, <2>2, <2>3
  <1>4. QED  BY <1>1, <1>2, <1>3 DEF LeakyLowerInv

(***************************************************************************)
(* What _leak loses by rounding is bounded: leaky_bucket.py rejects only a *)
(* client that is over what a queue of the strictest policy draining at    *)
(* half the rate would hold, for every set of policies and every sequence  *)
(* of retunes.                                                             *)
(***************************************************************************)
LEMMA LeakyRejectionsAlone == LeakySpec => []RejectedOnlyAboveHalfRate
  <1>1. LeakyLowerInv => RejectedOnlyAboveHalfRate
    <2> SUFFICES ASSUME LeakyLowerInv, Rejected
                 PROVE  \E i \in 1..Len(log) :
                            2 * (Len(log) - i + 1) * Unit + Unit
                               > 2 * MinLimit * Unit + MinRate * (now - log[i])
      BY DEF RejectedOnlyAboveHalfRate
    <2>1. LeakyTypeOK /\ HalfDrained /\ queue >= MinLimit
          /\ MinRate * (now - last_leak_time) < Unit
      BY DEF LeakyLowerInv, LeakyWellTyped, RejectedFull
    <2>2. /\ queue \in Nat /\ MinLimit \in Nat /\ MinLimit > 0 /\ Unit \in Nat /\ MinRate \in Nat
          /\ log \in Seq(Nat) /\ Len(log) \in Nat /\ now \in Nat /\ last_leak_time \in Nat
      BY <2>1, LeakyBucketFacts
    <2>3. PICK i \in 1..Len(log) : Owed(i)
      BY <2>1, <2>2 DEF HalfDrained
    <2> DEFINE c == 2 * (Len(log) - i + 1) * Unit
               e == 2 * queue * Unit
               m == 2 * MinLimit * Unit
               a == MinRate * (now - last_leak_time)
               b == MinRate * (last_leak_time - log[i])
               z == MinRate * (now - log[i])
    <2>4. log[i] \in Nat
      BY <2>2
    <2>5. z = a + b
      BY <2>2, <2>4, ProductSplit
    <2>6. c \in Int /\ e \in Int /\ m \in Int /\ a \in Int /\ b \in Int
      <3>1. /\ 2 * (Len(log) - i + 1) \in Int /\ 2 * queue \in Int /\ 2 * MinLimit \in Int
            /\ now - last_leak_time \in Int /\ last_leak_time - log[i] \in Int
        BY <2>2, <2>4
      <3>2. QED  BY <2>2, <3>1
    <2>7. m <= e
      <3>1. 2 * MinLimit \in Nat /\ 2 * queue \in Nat /\ 2 * MinLimit <= 2 * queue
        BY <2>1, <2>2
      <3>2. QED  BY <2>2, <3>1, ProductMonotone
    <2>8. e + b <= c /\ a < Unit
      BY <2>1, <2>3 DEF Owed
    <2> HIDE DEF c, e, m, a, b, z
    <2>9. c + Unit > m + z
      BY <2>2, <2>5, <2>6, <2>7, <2>8
    <2>10. QED  BY <2>9 DEF c, m, z
  <1>2. QED  BY <1>1, LeakyInitLowerInv, LeakyStepLowerInv, PTL DEF LeakySpec

(***************************************************************************)
(* One second after the time that reset_time of leaky_bucket.py advertises *)
(* a request fits, for every set of policies, also when the capacity was   *)
(* cut below the length of the queue and while half of a retune is         *)
(* written.                                                                *)
(***************************************************************************)
LEMMA LeakyResetAlone == LeakySpec => []LeakyRetryAfterWithinASecond
  <1>1. LeakyInit => LeakyRetryAfterWithinASecond
    BY DEF LeakyInit, BucketInit, CommonInit, NoReply, LeakyRetryAfterWithinASecond
  <1>2. LeakyWellTyped /\ LeakyRetryAfterWithinASecond /\ [LeakyNext]_LeakyVars
            => LeakyRetryAfterWithinASecond'
    <2> SUFFICES ASSUME LeakyWellTyped, LeakyRetryAfterWithinASecond, [LeakyNext]_LeakyVars
                 PROVE  LeakyRetryAfterWithinASecond'
      OBVIOUS
    <2>0. LeakyTypeOK
      BY DEF LeakyWellTyped
    <2>1. CASE UNCHANGED LeakyVars
      BY <2>1 DEF LeakyVars, LeakyRetryAfterWithinASecond, HasSlot, QueueAt, Leaked
    <2>2. CASE LeakyResetTime
      <3> DEFINE n == QueueAt(now)
                 l == LeakTimeAt(now)
                 v == SecondsToSlot(n)
                 s == (v + 1) * SEC
                 d == now + s - l
                 x == d * rate
                 k == x \div Unit
      <3>1. n \in Nat /\ l \in Nat /\ l <= now
        BY LeakFacts
      <3>2. /\ Unit \in Nat /\ Unit > 0 /\ rate \in Nat /\ limit \in Nat /\ limit > 0
            /\ now \in Nat
        BY <2>0, LeakyBucketFacts
      <3>3. /\ queue' = n /\ last_leak_time' = l /\ now' = now
            /\ limit' = limit /\ rate' = rate /\ reply' = Answer("reset", v)
        BY <2>2, <3>1 DEF LeakyResetTime, Leak
      <3>4. reply'.val = v
        BY <3>3 DEF Answer
      <3>5. v \in Nat /\ s \in Nat /\ (n >= limit => s * rate >= (n - limit + 1) * Unit)
        <4> HIDE DEF n
        <4>1. QED  BY <2>0, <3>1, SlotAfter
      <3>6. d \in Nat /\ s <= d
        <4> HIDE DEF n, l, s
        <4>1. QED  BY <3>1, <3>2, <3>5
      <3>7. x \in Nat /\ s * rate \in Nat /\ s * rate <= x
        <4> HIDE DEF s, d
        <4>1. QED  BY <3>2, <3>5, <3>6, ProductMonotone
      <3>8. k \in Nat /\ (n >= limit => k >= n - limit + 1)
        <4> HIDE DEF n, s, x
        <4>1. k \in Nat
          BY <3>2, <3>7
        <4>2. ASSUME n >= limit PROVE k >= n - limit + 1
          <5>1. n - limit + 1 \in Nat
            BY <3>1, <3>2, <4>2
          <5>2. (n - limit + 1) * Unit \in Nat
            BY <3>2, <5>1
          <5> DEFINE y == (n - limit + 1) * Unit
                     w == s * rate
          <5>3. y \in Nat /\ w \in Nat /\ w >= y /\ w <= x
            BY <3>5, <3>7, <4>2, <5>2
          <5>4. x >= y
            <6> HIDE DEF y, w
            <6>1. QED  BY <3>7, <5>3
          <5>5. QED  BY <3>2, <3>7, <5>1, <5>4, QuotientAtLeast
        <4>3. QED  BY <4>1, <4>2
      <3>9. QueueAt(now + (reply.val + 1) * SEC)' = IF k < n THEN n - k ELSE 0
        <4>1. Leaked(now + (reply.val + 1) * SEC)' = k
          <5>1. (now + (reply.val + 1) * SEC)' = now + s
            BY <3>3, <3>4
          <5> HIDE DEF n, l, s
          <5>2. (now + (reply.val + 1) * SEC)' - last_leak_time' = d
            BY <3>1, <3>2, <3>3, <3>5, <5>1
          <5> HIDE DEF d
          <5>3. QED  BY <3>3, <5>2 DEF Leaked
        <4> HIDE DEF n, k
        <4>2. QED  BY <3>3, <4>1 DEF QueueAt
      <3>10. HasSlot(QueueAt(now + (reply.val + 1) * SEC))'
        <4> DEFINE g == QueueAt(now + (reply.val + 1) * SEC)'
        <4>1. g = IF k < n THEN n - k ELSE 0
          BY <3>9
        <4> HIDE DEF n, k, g
        <4>2. g < limit'
          BY <3>1, <3>2, <3>3, <3>8, <4>1
        <4>3. QED  BY <4>2 DEF g, HasSlot
      <3>11. QED  BY <3>10 DEF LeakyRetryAfterWithinASecond
    <2>3. CASE LeakyNext /\ ~LeakyResetTime
      <3>1. reply'.op # "reset"
        BY <2>3 DEF LeakyNext, LeakyAllowRequest, LeakyRemainingRequests, Tick, RetuneCapacity,
              Retune,
             RetuneRate, Answer, Allow, NoReply
      <3>2. QED  BY <3>1 DEF LeakyRetryAfterWithinASecond
    <2>4. QED  BY <2>1, <2>2, <2>3
  <1>3. QED  BY <1>1, <1>2, LeakyInitWellTyped, LeakyStepWellTyped, PTL DEF LeakySpec

----------------------------------------------------------------------------
(***************************************************************************)
(* A deployment that runs the token bucket takes its steps only, from the  *)
(* beginning and for good.                                                 *)
(***************************************************************************)
LEMMA TokenRuns ==
    Spec => \/ Is("token_bucket") /\ []Is("token_bucket") /\ TokenSpec
            \/ []~Is("token_bucket")
  <1>1. Init /\ Is("token_bucket") => TokenInit
    BY DEF Init
  <1>2. Is("token_bucket") /\ [Next]_vars => Is("token_bucket")' /\ [TokenNext]_TokenVars
    BY DEF Is, Next, vars, TokenVars
  <1>3. ~Is("token_bucket") /\ [Next]_vars => ~Is("token_bucket")'
    BY DEF Is, Next, vars
  <1>4. QED  BY <1>1, <1>2, <1>3, PTL DEF Spec, TokenSpec

(***************************************************************************)
(* The same of a deployment that runs the leaky bucket.                    *)
(***************************************************************************)
LEMMA LeakyRuns ==
    Spec => \/ Is("leaky_bucket") /\ []Is("leaky_bucket") /\ LeakySpec
            \/ []~Is("leaky_bucket")
  <1>1. Init /\ Is("leaky_bucket") => LeakyInit
    BY DEF Init
  <1>2. Is("leaky_bucket") /\ [Next]_vars => Is("leaky_bucket")' /\ [LeakyNext]_LeakyVars
    BY DEF Is, Next, vars, LeakyVars
  <1>3. ~Is("leaky_bucket") /\ [Next]_vars => ~Is("leaky_bucket")'
    BY DEF Is, Next, vars
  <1>4. QED  BY <1>1, <1>2, <1>3, PTL DEF Spec, LeakySpec

(***************************************************************************)
(* Between any two admissions of token_bucket.py no more requests pass     *)
(* than a full bucket and the refill of the fastest policy in between, for *)
(* every set of policies and every sequence of retunes.                    *)
(***************************************************************************)
THEOREM TokenBucketBound == Spec => []TokenBounded
  <1>1. TokenBounded <=> (Is("token_bucket") => BurstBound)
    BY DEF TokenBounded
  <1>2. QED  BY <1>1, TokenRuns, TokenBoundAlone, PTL

(***************************************************************************)
(* A rejection by token_bucket.py is never wrong: the client would be over *)
(* a full bucket of the strictest policy and its refill, for every set of  *)
(* policies and every sequence of retunes.                                 *)
(***************************************************************************)
THEOREM TokenRejectionsAreRight == Spec => []TokenRejectsRightly
  <1>1. TokenRejectsRightly <=> (Is("token_bucket") => TokenRejectedOnlyWhenSpent)
    BY DEF TokenRejectsRightly
  <1>2. QED  BY <1>1, TokenRuns, TokenRejectionsAlone, PTL

(***************************************************************************)
(* One second after the reset time that token_bucket.py advertises there   *)
(* is a token, for every set of policies, also while only half of a retune *)
(* is written.                                                             *)
(***************************************************************************)
THEOREM TokenResetTimeIsRight == Spec => []TokenResetsInTime
  <1>1. TokenResetsInTime <=> (Is("token_bucket") => TokenRetryAfterWithinASecond)
    BY DEF TokenResetsInTime
  <1>2. QED  BY <1>1, TokenRuns, TokenResetAlone, PTL

(***************************************************************************)
(* Between any two admissions of leaky_bucket.py no more requests pass     *)
(* than a full queue, the drain of the fastest policy in between and the   *)
(* pending slack, for every set of policies and every sequence of retunes. *)
(***************************************************************************)
THEOREM LeakyBucketBound == Spec => []LeakyBounded
  <1>1. LeakyBounded <=> (Is("leaky_bucket") => LeakyBurstBound)
    BY DEF LeakyBounded
  <1>2. QED  BY <1>1, LeakyRuns, LeakyBoundAlone, PTL

(***************************************************************************)
(* What _leak loses by rounding is bounded: leaky_bucket.py rejects only a *)
(* client that is over what a queue of the strictest policy draining at    *)
(* half the rate would hold, for every set of policies and every sequence  *)
(* of retunes.                                                             *)
(***************************************************************************)
THEOREM LeakyRejectionsBounded == Spec => []LeakyRejectsRightly
  <1>1. LeakyRejectsRightly <=> (Is("leaky_bucket") => RejectedOnlyAboveHalfRate)
    BY DEF LeakyRejectsRightly
  <1>2. QED  BY <1>1, LeakyRuns, LeakyRejectionsAlone, PTL

(***************************************************************************)
(* One second after the reset time that leaky_bucket.py advertises a       *)
(* request fits, for every set of policies, also when the capacity was cut *)
(* below the length of the queue and while half of a retune is written.    *)
(***************************************************************************)
THEOREM LeakyResetTimeIsRight == Spec => []LeakyResetsInTime
  <1>1. LeakyResetsInTime <=> (Is("leaky_bucket") => LeakyRetryAfterWithinASecond)
    BY DEF LeakyResetsInTime
  <1>2. QED  BY <1>1, LeakyRuns, LeakyResetAlone, PTL

----------------------------------------------------------------------------
(***************************************************************************)
(* The token bucket as a meter.  What a refill would leave at any time is  *)
(* the smaller of what has been earned and a full bucket.                  *)
(***************************************************************************)
Smaller(n, most) == IF n < most THEN n ELSE most

(***************************************************************************)
(* The earned and the full amount, for arithmetic without products.        *)
(***************************************************************************)
LEMMA BudgetFacts ==
    ASSUME WellTyped
    PROVE  /\ tokens + (now - last_refill_time) * rate \in Nat
           /\ limit * Unit \in Nat
           /\ Refilled(now) = Smaller(tokens + (now - last_refill_time) * rate, limit * Unit)
           /\ rate \in Nat /\ Unit \in Nat /\ now \in Nat
  <1>1. /\ tokens \in Nat /\ rate \in Nat /\ limit \in Nat /\ Unit \in Nat /\ now \in Nat
        /\ last_refill_time \in Nat /\ last_refill_time <= now
    BY BucketFacts DEF WellTyped
  <1>2. now - last_refill_time \in Nat
    BY <1>1
  <1>3. (now - last_refill_time) * rate \in Nat /\ limit * Unit \in Nat
    BY <1>1, <1>2, ProductMonotone
  <1>4. QED  BY <1>1, <1>3 DEF Refilled, Smaller

(***************************************************************************)
(* Right after a refill the budget is what the bucket holds.               *)
(***************************************************************************)
LEMMA JustRefilled ==
    ASSUME WellTyped, tokens' \in Nat, tokens' <= limit * Unit, last_refill_time' = now,
           now' = now, limit' = limit, rate' = rate
    PROVE  Refilled(now)' = tokens'
  <1>1. /\ limit * Unit \in Nat /\ rate \in Nat /\ now \in Nat
    BY BudgetFacts
  <1>2. (now' - last_refill_time') * rate' = 0
    <2>1. now' - last_refill_time' = 0
      BY <1>1
    <2>2. QED  BY <1>1, <2>1
  <1>3. (limit * Unit)' = limit * Unit
    OBVIOUS
  <1>4. Refilled(now)' = Smaller(tokens' + 0, limit * Unit)
    BY <1>2, <1>3 DEF Refilled, Smaller
  <1> DEFINE f == limit * Unit
  <1> HIDE DEF f
  <1>5. f \in Nat /\ tokens' <= f /\ Refilled(now)' = Smaller(tokens' + 0, f)
    BY <1>1, <1>4 DEF f
  <1> DEFINE v == tokens'
  <1>6. Smaller(v + 0, f) = v
    <2>1. v \in Nat /\ v <= f
      BY <1>5
    <2> HIDE DEF v
    <2>2. QED  BY <1>5, <2>1 DEF Smaller
  <1>7. QED  BY <1>5, <1>6

(***************************************************************************)
(* A tick later the budget has grown by the rate, up to a full bucket,     *)
(* although nobody has refilled the bucket.                                *)
(***************************************************************************)
LEMMA EarnedInATick ==
    ASSUME WellTyped, now' = now + 1, limit' = limit, rate' = rate, tokens' = tokens,
           last_refill_time' = last_refill_time
    PROVE  Refilled(now)' = Smaller(Refilled(now) + rate, limit * Unit)
  <1> DEFINE x == tokens + (now - last_refill_time) * rate
             f == limit * Unit
  <1>1. x \in Nat /\ f \in Nat /\ rate \in Nat /\ now \in Nat /\ Refilled(now) = Smaller(x, f)
    BY BudgetFacts
  <1>2. tokens \in Nat /\ last_refill_time \in Nat
    BY BucketFacts DEF WellTyped
  <1>3. Refilled(now)' = Smaller(tokens + (now + 1 - last_refill_time) * rate, f)
    <2>1. Refilled(now)' = Smaller(tokens' + (now' - last_refill_time') * rate', limit' * Unit)
      BY DEF Refilled, Smaller
    <2> DEFINE d == now' - last_refill_time'
               e == now + 1 - last_refill_time
    <2>2. d = e
      BY <1>1, <1>2
    <2>3. Refilled(now)' = Smaller(tokens' + d * rate', limit' * Unit)
      BY <2>1
    <2> HIDE DEF d
    <2>4. tokens' + d * rate' = tokens + e * rate /\ limit' * Unit = f
      BY <2>2
    <2>5. QED  BY <2>3, <2>4
  <1>4. tokens + (now + 1 - last_refill_time) * rate = x + rate
    <2>1. (now + 1 - last_refill_time) * rate = (now - last_refill_time) * rate + rate
      BY <1>1, <1>2
    <2>2. (now - last_refill_time) * rate \in Int
      BY <1>1, <1>2
    <2>3. QED  BY <1>1, <1>2, <2>1, <2>2
  <1> HIDE DEF x, f
  <1>5. Smaller(x + rate, f) = Smaller(Smaller(x, f) + rate, f)
    BY <1>1 DEF Smaller
  <1>6. QED  BY <1>1, <1>3, <1>4, <1>5 DEF f

(***************************************************************************)
(* A retune leaves at most a full bucket of the new capacity, and of a     *)
(* changed capacity alone every token that fits.                           *)
(***************************************************************************)
LEMMA RetunedBudget ==
    ASSUME WellTyped, WellTyped', now' = now, tokens' = tokens,
           last_refill_time' = last_refill_time
    PROVE  /\ Refilled(now)' <= (limit * Unit)'
           /\ rate' = rate =>
                 Smaller(Refilled(now), (limit * Unit)') <= Refilled(now)'
  <1> DEFINE x == tokens + (now - last_refill_time) * rate
             f == limit * Unit
             g == (limit * Unit)'
             y == x'
  <1>1. x \in Nat /\ f \in Nat /\ Refilled(now) = Smaller(x, f)
    BY BudgetFacts
  <1>2. y \in Nat /\ g \in Nat /\ Refilled(now)' = Smaller(y, g)
    <2>1. /\ limit' \in Limits /\ rate' \in Rates /\ now' \in 0..MaxTime
          /\ tokens' \in Nat /\ last_refill_time' \in Nat /\ last_refill_time' <= now'
      BY BucketFacts DEF WellTyped, TokenTypeOK, CommonTypeOK
    <2>2. PICK l \in Limits, w \in Windows : rate' = Rate(l, w)
      BY <2>1 DEF Rates
    <2>3. rate' \in Nat /\ limit' \in Nat /\ Unit \in Nat
      BY <2>1, <2>2, LimiterAssumption, BucketAssumption
         DEF LimiterAssumption, BucketAssumption
    <2>4. now' - last_refill_time' \in Nat
      BY <2>1, LimiterAssumption DEF LimiterAssumption
    <2>5. (now' - last_refill_time') * rate' \in Nat /\ limit' * Unit \in Nat
      <3>1. \A a \in Nat, b \in Nat : a * b \in Nat
        OBVIOUS
      <3>2. QED  BY <2>3, <2>4, <3>1
    <2>6. Refilled(now)' = Smaller(tokens' + (now' - last_refill_time') * rate', limit' * Unit)
      BY DEF Refilled, Smaller
    <2> DEFINE z == (now' - last_refill_time') * rate'
               v == tokens'
    <2>7. y = v + z
      OBVIOUS
    <2>8. v + z \in Nat
      <3>1. v \in Nat /\ z \in Nat
        BY <2>1, <2>5
      <3> HIDE DEF z, v
      <3>2. QED  BY <3>1
    <2>9. g = limit' * Unit
      OBVIOUS
    <2>10. y \in Nat /\ g \in Nat
      BY <2>5, <2>7, <2>8, <2>9
    <2>11. Refilled(now)' = Smaller(y, g)
      BY <2>6, <2>7, <2>9
    <2>12. QED  BY <2>10, <2>11
  <1>3. rate' = rate => y = x
    OBVIOUS
  <1> HIDE DEF x, f, g, y
  <1>4. Smaller(y, g) <= g /\ (y = x => Smaller(Smaller(x, f), g) <= Smaller(y, g))
    BY <1>1, <1>2 DEF Smaller
  <1>5. QED  BY <1>1, <1>2, <1>3, <1>4 DEF g

(***************************************************************************)
(* The answers of the meter.                                               *)
(***************************************************************************)
LEMMA MeterAnswers ==
    ASSUME Is("token_bucket")
    PROVE  /\ reply.op # "allow" => TokenAnswer = "none"
           /\ reply = Allow(TRUE) => TokenAnswer = "admitted"
           /\ reply = Allow(FALSE) => TokenAnswer = "refused"
  BY DEF TokenAnswer, Admitted, Rejected, Allow

(***************************************************************************)
(* A new limiter is a meter with a full budget.                            *)
(***************************************************************************)
LEMMA MeterInit == Init => Meter!Init
  <1> SUFFICES ASSUME Init PROVE Meter!Init
    OBVIOUS
  <1>1. reply = NoReply
    BY DEF Init, TokenInit, BucketInit, CommonInit
  <1>2. TokenAnswer = "none"
    BY <1>1 DEF TokenAnswer, Admitted, Rejected, NoReply
  <1>3. CASE Is("token_bucket")
    <2>1. TokenInit /\ WellTyped
      BY InitWellTyped DEF Init
    <2>2. tokens = limit * Unit /\ last_refill_time = now
      BY <2>1 DEF TokenInit
    <2>3. limit * Unit \in Nat /\ rate \in Nat /\ now \in Nat
      BY <2>1, BudgetFacts
    <2>4. (now - last_refill_time) * rate = 0
      BY <2>2, <2>3
    <2>5. Refilled(now) = limit * Unit
      BY <2>2, <2>3, <2>4 DEF Refilled
    <2>6. QED  BY <1>2, <1>3, <2>5 DEF Meter!Init, Meter!Full, OfToken
  <1>4. CASE ~Is("token_bucket")
    <2>1. Unit \in Nat
      BY BucketAssumption DEF BucketAssumption
    <2>2. 0 * Unit = 0
      BY <2>1
    <2>3. QED  BY <1>2, <1>4, <2>2 DEF Meter!Init, Meter!Full, OfToken
  <1>5. QED  BY <1>3, <1>4

(***************************************************************************)
(* Every step of a token bucket is a step of the meter or none.            *)
(***************************************************************************)
LEMMA MeterStep ==
    ASSUME WellTyped, WellTyped', TokenNext, Is("token_bucket"), Is("token_bucket")'
    PROVE  Meter!Next
  <1> DEFINE b == Refilled(now)
             f == limit * Unit
  <1>1. /\ OfToken(now) = now /\ OfToken(limit) = limit /\ OfToken(rate) = rate
        /\ OfToken(Refilled(now)) = Refilled(now)
        /\ OfToken(now)' = now' /\ OfToken(limit)' = limit' /\ OfToken(rate)' = rate'
        /\ OfToken(Refilled(now))' = Refilled(now)'
    BY DEF OfToken
  <1>2. /\ b \in Nat /\ f \in Nat /\ b <= f /\ Unit \in Nat /\ now \in Nat /\ rate \in Nat
    <2>1. /\ tokens + (now - last_refill_time) * rate \in Nat /\ f \in Nat
          /\ b = Smaller(tokens + (now - last_refill_time) * rate, f)
          /\ Unit \in Nat /\ now \in Nat /\ rate \in Nat
      BY BudgetFacts
    <2> HIDE DEF b, f
    <2>2. QED  BY <2>1 DEF Smaller
  <1>3. CASE TokenAllowRequest
    <2>0. now' = now /\ limit' = limit /\ rate' = rate
      BY <1>3 DEF TokenAllowRequest
    <2>1. CASE HasToken(b) /\ Refill(Unit) /\ reply' = Allow(TRUE)
      <3>1. b >= Unit /\ tokens' = b - Unit /\ last_refill_time' = now
        BY <2>1 DEF HasToken, Refill
      <3>2. tokens' \in Nat /\ tokens' <= f
        <4> HIDE DEF b, f
        <4>1. QED  BY <1>2, <3>1
      <3>3. Refilled(now)' = b - Unit
        BY <2>0, <3>1, <3>2, JustRefilled
      <3>4. TokenAnswer' = "admitted"
        BY <2>1 DEF TokenAnswer, Admitted, Allow
      <3>5. Meter!Admit
        BY <1>1, <2>0, <3>1, <3>3, <3>4 DEF Meter!Admit
      <3>6. QED  BY <3>5 DEF Meter!Next
    <2>2. CASE ~HasToken(b) /\ Refill(0) /\ reply' = Allow(FALSE)
      <3>1. ~(b >= Unit) /\ tokens' = b - 0 /\ last_refill_time' = now
        BY <2>2 DEF HasToken, Refill
      <3>2. tokens' \in Nat /\ tokens' <= f /\ tokens' = b /\ b < Unit
        <4> HIDE DEF b, f
        <4>1. QED  BY <1>2, <3>1
      <3>3. Refilled(now)' = b
        BY <2>0, <3>1, <3>2, JustRefilled
      <3>4. TokenAnswer' = "refused"
        BY <2>2 DEF TokenAnswer, Admitted, Rejected, Allow
      <3>5. Meter!Refuse
        BY <1>1, <2>0, <3>2, <3>3, <3>4 DEF Meter!Refuse
      <3>6. QED  BY <3>5 DEF Meter!Next
    <2>3. QED  BY <1>3, <2>1, <2>2 DEF TokenAllowRequest
  <1>4. CASE TokenRemainingRequests \/ TokenResetTime
    <2>1. /\ now' = now /\ limit' = limit /\ rate' = rate
          /\ tokens' = b - 0 /\ last_refill_time' = now
          /\ reply'.op # "allow"
      BY <1>4 DEF TokenRemainingRequests, TokenResetTime, Refill, Answer
    <2>2. tokens' \in Nat /\ tokens' <= f /\ tokens' = b
      <3> HIDE DEF b, f
      <3>1. QED  BY <1>2, <2>1
    <2>3. Refilled(now)' = b
      BY <2>1, <2>2, JustRefilled
    <2>4. TokenAnswer' = "none"
      BY <2>1 DEF TokenAnswer, Admitted, Rejected
    <2>5. Meter!Look
      BY <1>1, <2>1, <2>3, <2>4 DEF Meter!Look
    <2>6. QED  BY <2>5 DEF Meter!Next
  <1>5. CASE Tick /\ UNCHANGED <<rate, tokens, last_refill_time>>
    <2>1. now' = now + 1 /\ limit' = limit /\ rate' = rate /\ reply' = NoReply
      BY <1>5 DEF Tick
    <2>2. Refilled(now)' = Smaller(b + rate, f)
      BY <1>5, <2>1, EarnedInATick
    <2>3. TokenAnswer' = "none"
      BY <2>1 DEF TokenAnswer, Admitted, Rejected, NoReply
    <2>4. Meter!Elapse
      BY <1>1, <2>1, <2>2, <2>3 DEF Meter!Elapse, Meter!AtMost, Meter!Full, Smaller
    <2>5. QED  BY <2>4 DEF Meter!Next
  <1>6. CASE /\ \/ \E l \in Limits, w \in Windows : RetuneCapacity(l, w)
                \/ RetuneRate
             /\ UNCHANGED <<tokens, last_refill_time>>
    <2>1. /\ now' = now /\ tokens' = tokens /\ last_refill_time' = last_refill_time
          /\ reply' = NoReply /\ (rate' = rate \/ limit' = limit)
      BY <1>6 DEF RetuneCapacity, Retune, RetuneRate
    <2>2. /\ Refilled(now)' <= (limit * Unit)'
          /\ rate' = rate => Smaller(b, (limit * Unit)') <= Refilled(now)'
      BY <2>1, RetunedBudget
    <2>3. TokenAnswer' = "none"
      BY <2>1 DEF TokenAnswer, Admitted, Rejected, NoReply
    <2>4. CASE rate' = rate /\ limit' = limit
      <3>1. Refilled(now)' = Refilled(now)
        BY <2>1, <2>4 DEF Refilled
      <3>2. Meter!Look
        BY <1>1, <2>1, <2>3, <2>4, <3>1 DEF Meter!Look
      <3>3. QED  BY <3>2 DEF Meter!Next
    <2>5. CASE rate' = rate /\ limit' # limit
      <3>1. Meter!ChangeCapacity
        BY <1>1, <2>1, <2>2, <2>3, <2>5
           DEF Meter!ChangeCapacity, Meter!AtMost, Meter!Full, Smaller
      <3>2. QED  BY <3>1 DEF Meter!Next
    <2>6. CASE rate' # rate /\ limit' = limit
      <3>1. Meter!ChangeRate
        BY <1>1, <2>1, <2>2, <2>3, <2>6 DEF Meter!ChangeRate, Meter!Full
      <3>2. QED  BY <3>1 DEF Meter!Next
    <2>7. QED  BY <2>1, <2>4, <2>5, <2>6
  <1>7. QED  BY <1>3, <1>4, <1>5, <1>6 DEF TokenNext

(***************************************************************************)
(* token_bucket.py, which refills only when it is called, implements the   *)
(* bucket that is refilled at every tick, for every set of policies and    *)
(* every sequence of calls and retunes: polling it neither costs nor earns *)
(* a token, and it refuses exactly when there is none.                     *)
(***************************************************************************)
THEOREM TokenBucketImplementsMeter == Spec => ImplementsMeter
  <1> DEFINE Inv == Is("token_bucket") => WellTyped
  <1>1. Init => Inv
    BY InitWellTyped DEF Init
  <1>2. Inv /\ [Next]_vars => Inv'
    <2> SUFFICES ASSUME Inv, [Next]_vars, Is("token_bucket")' PROVE WellTyped'
      OBVIOUS
    <2>1. Is("token_bucket") /\ [TokenNext]_TokenVars
      BY DEF Is, Next, vars, TokenVars
    <2>2. QED  BY <2>1, StepWellTyped
  <1>3. Inv /\ Inv' /\ [Next]_vars => [Meter!Next]_(Meter!vars)
    <2> SUFFICES ASSUME Inv, Inv', [Next]_vars PROVE [Meter!Next]_(Meter!vars)
      OBVIOUS
    <2>1. CASE UNCHANGED vars
      BY <2>1 DEF vars, Meter!vars, OfToken, Is, Refilled, TokenAnswer, Admitted, Rejected
    <2>2. CASE Next /\ ~Is("token_bucket")
      <3>1. ~Is("token_bucket")'
        BY <2>2 DEF Is, Next
      <3>2. QED  BY <2>2, <3>1 DEF Meter!vars, OfToken, TokenAnswer
    <2>3. CASE Next /\ Is("token_bucket")
      <3>1. Is("token_bucket")' /\ TokenNext
        BY <2>3 DEF Is, Next
      <3>2. Meter!Next
        BY <2>3, <3>1, MeterStep
      <3>3. QED  BY <3>2
    <2>4. QED  BY <2>1, <2>2, <2>3
  <1>4. QED
    BY <1>1, <1>2, <1>3, MeterInit, PTL DEF Spec, ImplementsMeter, Meter!Spec

----------------------------------------------------------------------------
(***************************************************************************)
(* Type correctness of a deployment with any of the four algorithms:       *)
(* counters, tokens and queue stay within the largest capacity, for every  *)
(* set of policies and every sequence of retunes.                          *)
(***************************************************************************)
TypeInv ==
    /\ TypeOK
    /\ Is("token_bucket") => WellTyped
    /\ Is("leaky_bucket") => LeakyWellTyped

(***************************************************************************)
(* Whatever algorithm is configured, a new limiter is well typed.          *)
(***************************************************************************)
LEMMA InitTypeInv == Init => TypeInv
  <1> SUFFICES ASSUME Init PROVE TypeInv
    OBVIOUS
  <1>1. WellTyped /\ LeakyWellTyped /\ SlidingTypeOK
    BY InitWellTyped, LeakyInitWellTyped, InitTypeOK DEF Init
  <1>2. FixedTypeOK
    <2>1. CommonTypeOK /\ now \in Nat
      BY CommonInitFacts DEF Init, FixedInit
    <2>2. QED  BY <2>1 DEF Init, FixedInit, FixedTypeOK
  <1>3. QED  BY <1>1, <1>2 DEF TypeInv, TypeOK, WellTyped, LeakyWellTyped, Init

(***************************************************************************)
(* Whichever algorithm runs keeps its own state well typed; the others     *)
(* stay as they are.                                                       *)
(***************************************************************************)
LEMMA StepTypeInv == TypeInv /\ [Next]_vars => TypeInv'
  <1> SUFFICES ASSUME TypeInv, [Next]_vars PROVE TypeInv'
    OBVIOUS
  <1>0. /\ algorithm \in Algorithms /\ algorithm' = algorithm
        /\ SlidingTypeOK /\ FixedTypeOK /\ TokenTypeOK /\ LeakyTypeOK
        /\ Is("token_bucket") => WellTyped
        /\ Is("leaky_bucket") => LeakyWellTyped
    BY DEF TypeInv, TypeOK, Next, vars
  <1>1. /\ Is("token_bucket")' => WellTyped'
        /\ Is("leaky_bucket")' => LeakyWellTyped'
    <2>1. Is("token_bucket")' => Is("token_bucket") /\ [TokenNext]_TokenVars
      BY DEF Is, Next, vars, TokenVars
    <2>2. Is("leaky_bucket")' => Is("leaky_bucket") /\ [LeakyNext]_LeakyVars
      BY DEF Is, Next, vars, LeakyVars
    <2>3. QED  BY <1>0, <2>1, <2>2, StepWellTyped, LeakyStepWellTyped
  <1>2. TypeOK'
    <2>1. CASE UNCHANGED vars
      <3>1. SlidingTypeOK'
        BY <1>0, <2>1, StepTypeOK DEF vars, SlidingVars
      <3>2. FixedTypeOK'
        BY <1>0, <2>1, FixedStepTypeOK DEF vars, FixedVars
      <3>3. CommonTypeOK'
        BY <3>1 DEF SlidingTypeOK
      <3>4. TokenTypeOK' /\ LeakyTypeOK'
        BY <1>0, <2>1, <3>3 DEF vars, TokenTypeOK, LeakyTypeOK, Rates, Rate
      <3>5. QED  BY <1>0, <3>1, <3>2, <3>4 DEF TypeOK
    <2>2. CASE /\ SlidingNext
               /\ UNCHANGED <<rate, request_count, window_start, tokens, last_refill_time,
                              queue, last_leak_time>>
      <3>1. SlidingTypeOK' /\ CommonTypeOK'
        BY <1>0, <2>2, StepTypeOK DEF SlidingTypeOK
      <3>2. FixedTypeOK' /\ TokenTypeOK' /\ LeakyTypeOK'
        BY <1>0, <2>2, <3>1 DEF FixedTypeOK, TokenTypeOK, LeakyTypeOK, Rates, Rate
      <3>3. QED  BY <1>0, <3>1, <3>2 DEF TypeOK
    <2>3. CASE /\ FixedNext
               /\ UNCHANGED <<rate, requests, tokens, last_refill_time, queue, last_leak_time>>
      <3>1. FixedTypeOK' /\ CommonTypeOK'
        BY <1>0, <2>3, FixedStepTypeOK DEF FixedTypeOK
      <3>2. SlidingTypeOK' /\ TokenTypeOK' /\ LeakyTypeOK'
        BY <1>0, <2>3, <3>1 DEF SlidingTypeOK, TokenTypeOK, LeakyTypeOK, Rates, Rate
      <3>3. QED  BY <1>0, <3>1, <3>2 DEF TypeOK
    <2>4. CASE /\ Is("token_bucket") /\ TokenNext
               /\ UNCHANGED <<requests, request_count, window_start, queue, last_leak_time>>
      <3>1. TokenTypeOK' /\ CommonTypeOK' /\ rate' \in Rates
        BY <1>0, <2>4, StepWellTyped DEF WellTyped, TokenTypeOK, Rates, Rate
      <3>2. SlidingTypeOK' /\ FixedTypeOK' /\ LeakyTypeOK'
        BY <1>0, <2>4, <3>1 DEF SlidingTypeOK, FixedTypeOK, LeakyTypeOK, Rates, Rate
      <3>3. QED  BY <1>0, <3>1, <3>2 DEF TypeOK
    <2>5. CASE /\ Is("leaky_bucket") /\ LeakyNext
               /\ UNCHANGED <<requests, request_count, window_start, tokens, last_refill_time>>
      <3>1. LeakyTypeOK' /\ CommonTypeOK' /\ rate' \in Rates
        BY <1>0, <2>5, LeakyStepWellTyped DEF LeakyWellTyped, LeakyTypeOK, Rates, Rate
      <3>2. SlidingTypeOK' /\ FixedTypeOK' /\ TokenTypeOK'
        BY <1>0, <2>5, <3>1 DEF SlidingTypeOK, FixedTypeOK, TokenTypeOK, Rates, Rate
      <3>3. QED  BY <1>0, <3>1, <3>2 DEF TypeOK
    <2>6. QED  BY <2>1, <2>2, <2>3, <2>4, <2>5 DEF Next
  <1>3. QED  BY <1>1, <1>2 DEF TypeInv

(***************************************************************************)
(* Every reachable state of every in-process limiter is well typed.        *)
(***************************************************************************)
THEOREM TypeCorrect == Spec => []TypeOK
  <1>1. TypeInv => TypeOK
    BY DEF TypeInv
  <1>2. QED  BY <1>1, InitTypeInv, StepTypeInv, PTL DEF Spec
=============================================================================
