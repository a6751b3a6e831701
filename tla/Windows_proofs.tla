--------------------------- MODULE Windows_proofs ---------------------------
(***************************************************************************)
(* Proofs about the two in-memory window algorithms, for every set of      *)
(* limits and windows: the sliding window first, the fixed one after it,   *)
(* and at the end a deployment that runs one of them.                      *)
(***************************************************************************)
EXTENDS InProcessLimiters, Limiter_proofs

(***************************************************************************)
(* The pop loop removes an initial segment, and the rest keeps its order.  *)
(***************************************************************************)
LEMMA PoppedFacts ==
    ASSUME requests \in Seq(Nat), NEW j \in 0..Len(requests)
    PROVE  /\ Popped(j) \in Seq(Nat)
           /\ Len(Popped(j)) = Len(requests) - j
           /\ \A i \in 1..(Len(requests) - j) : Popped(j)[i] = requests[j + i]
  BY DEF Popped

(***************************************************************************)
(* The shape every call shares: it pops j expired stamps, and then either  *)
(* appends the new admission to the deque and to the history, or neither.  *)
(***************************************************************************)
Pops(j) ==
    /\ ExpiredPrefix(requests, j, now - Period)
    /\ requests' = Popped(j)
    /\ log' = log
    /\ now' \in 0..MaxTime /\ now <= now'

SlidingAdmits(j) ==
    /\ ExpiredPrefix(requests, j, now - Period)
    /\ HasRoom(Len(requests) - j)
    /\ requests' = Append(Popped(j), now')
    /\ log' = Append(log, now')
    /\ now' \in 0..MaxTime /\ now <= now'

(***************************************************************************)
(* Every step of the algorithm is a pop, an admission or leaves the deque  *)
(* and the history alone while time does not run backwards.                *)
(***************************************************************************)
SlidingLeaves == requests' = requests /\ log' = log /\ now' \in 0..MaxTime /\ now <= now'

\* Every step drops old stamps, admits after dropping them, or leaves the deque alone.
LEMMA SlidingStepShape ==
    ASSUME SlidingTypeOK, SlidingNext
    PROVE  \/ \E j \in 0..Len(requests) : Pops(j)
           \/ \E j \in 0..Len(requests) : SlidingAdmits(j)
           \/ SlidingLeaves
  <1> USE DEF SlidingTypeOK, CommonTypeOK
  <1>0. now \in Nat /\ MaxTime \in Nat /\ now \in 0..MaxTime
    BY LimiterAssumption DEF LimiterAssumption
  <1>1. CASE AllowRequest
    <2>1. PICK j \in 0..Len(requests) :
             /\ ExpiredPrefix(requests, j, now - Period)
             /\ \/ /\ HasRoom(Len(requests) - j)
                   /\ \E d \in 0..MaxLag : Lag(d)
                   /\ requests' = Append(Popped(j), now')
                   /\ log' = Append(log, now')
                \/ /\ requests' = Popped(j)
                   /\ UNCHANGED <<now, log>>
      BY <1>1 DEF AllowRequest
    <2>2. CASE UNCHANGED <<now, log>> /\ requests' = Popped(j)
      BY <1>0, <2>1, <2>2 DEF Pops
    <2>3. CASE /\ HasRoom(Len(requests) - j)
               /\ \E d \in 0..MaxLag : Lag(d)
               /\ requests' = Append(Popped(j), now')
               /\ log' = Append(log, now')
      <3>1. now' \in 0..MaxTime /\ now <= now'
        BY <1>0, <2>3, LimiterAssumption DEF Lag, LimiterAssumption
      <3>2. QED  BY <2>1, <2>3, <3>1 DEF SlidingAdmits
    <2>4. QED  BY <2>1, <2>2, <2>3
  <1>2. CASE RemainingRequests
    BY <1>0, <1>2 DEF RemainingRequests, Pops
  <1>3. CASE ResetTime
    BY <1>0, <1>3, LimiterAssumption DEF ResetTime, Pops, Lag, LimiterAssumption
  <1>4. CASE Tick /\ UNCHANGED requests
    BY <1>0, <1>4 DEF Tick, SlidingLeaves
  <1>5. CASE \E l \in Limits, w \in Windows : Retune(l, w) /\ UNCHANGED requests
    BY <1>0, <1>5 DEF Retune, SlidingLeaves
  <1>6. QED  BY <1>1, <1>2, <1>3, <1>4, <1>5 DEF SlidingNext

(***************************************************************************)
(* Type correctness: the initial states and every step respect SlidingTypeOK.     *)
(***************************************************************************)
LEMMA InitTypeOK == SlidingInit => SlidingTypeOK
  BY LimiterAssumption
  DEF SlidingInit, CommonInit, SlidingTypeOK, CommonTypeOK, Replies, NoReply, LimiterAssumption

\* Every step keeps the state well typed.
LEMMA StepTypeOK == SlidingTypeOK /\ [SlidingNext]_SlidingVars => SlidingTypeOK'
  <1> SUFFICES ASSUME SlidingTypeOK, [SlidingNext]_SlidingVars PROVE SlidingTypeOK'
    OBVIOUS
  <1>1. CASE UNCHANGED SlidingVars
    BY <1>1 DEF SlidingVars, SlidingTypeOK, CommonTypeOK
  <1>2. CASE SlidingNext
    <2>1. now' \in 0..MaxTime /\ log' \in Seq(Nat) /\ requests' \in Seq(Nat)
      <3>1. now \in Nat /\ log \in Seq(Nat) /\ requests \in Seq(Nat) /\ 0..MaxTime \subseteq Nat
        BY LimiterAssumption DEF SlidingTypeOK, CommonTypeOK, LimiterAssumption
      <3>2. ASSUME NEW j \in 0..Len(requests), Pops(j) \/ SlidingAdmits(j)
            PROVE  now' \in 0..MaxTime /\ log' \in Seq(Nat) /\ requests' \in Seq(Nat)
        <4>1. Popped(j) \in Seq(Nat)
          BY <3>1, PoppedFacts
        <4>2. CASE Pops(j)
          BY <3>1, <4>1, <4>2 DEF Pops
        <4>3. CASE SlidingAdmits(j)
          <5>1. now' \in 0..MaxTime /\ now' \in Nat
            BY <3>1, <4>3 DEF SlidingAdmits
          <5>2. QED  BY <3>1, <4>1, <4>3, <5>1 DEF SlidingAdmits
        <4>4. QED  BY <3>2, <4>2, <4>3
      <3>3. CASE SlidingLeaves
        BY <3>1, <3>3 DEF SlidingLeaves
      <3>4. QED  BY <1>2, <3>2, <3>3, SlidingStepShape
    <2>2. limit' \in Limits /\ window' \in Windows
      BY <1>2 DEF SlidingNext, AllowRequest, RemainingRequests, ResetTime, Tick, Retune,
                  SlidingTypeOK, CommonTypeOK
    <2>3. reply' \in Replies
      <3>1. CASE AllowRequest
        <4>1. \E b \in BOOLEAN : reply' = Allow(b)
          BY <3>1 DEF AllowRequest
        <4>2. QED  BY <4>1 DEF Allow, Replies
      <3>2. CASE RemainingRequests
        BY <3>2, LimiterAssumption
        DEF RemainingRequests, Left, Answer, Replies, SlidingTypeOK, CommonTypeOK,
            LimiterAssumption
      <3>3. CASE ResetTime
        <4>1. PICK j \in 0..Len(requests) :
                  reply' = Answer("reset", SecondsLeft(Popped(j), now'))
          BY <3>3 DEF ResetTime
        <4>2. SecondsLeft(Popped(j), now') \in Nat
          <5>1. Popped(j) \in Seq(Nat) /\ now' \in Nat /\ Period \in Nat
            BY <2>1, PoppedFacts, PeriodFacts DEF SlidingTypeOK, CommonTypeOK
          <5>2. CASE Popped(j) = <<>>
            BY <5>2 DEF SecondsLeft
          <5>3. CASE Popped(j) # <<>>
            <6>1. Popped(j)[1] \in Nat
              BY <5>1, <5>3
            <6>2. Popped(j)[1] + Period - now' \in Int
              BY <5>1, <6>1
            <6>3. QED  BY <5>3, <6>2, IntSecondsNat DEF SecondsLeft
          <5>4. QED  BY <5>2, <5>3
        <4>3. QED  BY <4>1, <4>2 DEF Answer, Replies
      <3>4. CASE Tick \/ \E l \in Limits, w \in Windows : Retune(l, w)
        <4>1. reply' = NoReply
          BY <3>4 DEF Tick, Retune
        <4>2. QED  BY <4>1 DEF NoReply, Replies
      <3>5. QED  BY <1>2, <3>1, <3>2, <3>3, <3>4 DEF SlidingNext
    <2>4. QED  BY <2>1, <2>2, <2>3 DEF SlidingTypeOK, CommonTypeOK
  <1>3. QED  BY <1>1, <1>2

(***************************************************************************)
(* Every state the limiter can be in is well typed.                        *)
(***************************************************************************)
LEMMA SlidingTyped == SlidingSpec => []SlidingTypeOK
  BY InitTypeOK, StepTypeOK, PTL DEF SlidingSpec

(***************************************************************************)
(* The inductive invariant.  WindowBound alone is not inductive: that a    *)
(* popped stamp is old enough not to matter any more has to be remembered, *)
(* which is what Accounted does.  The order of the history is what makes a *)
(* rejection provably right.                                               *)
(***************************************************************************)
SlidingIInv == SlidingTypeOK /\ LogOrdered /\ Accounted /\ WindowBound

\* A new limiter has admitted nothing.
LEMMA SlidingInitIInv == SlidingInit => SlidingIInv
  <1> SUFFICES ASSUME SlidingInit PROVE SlidingIInv
    OBVIOUS
  <1>1. SlidingTypeOK
    BY InitTypeOK
  <1>2. log = <<>> /\ requests = <<>> /\ now = 0
    BY DEF SlidingInit, CommonInit
  <1>3. LogOrdered
    BY <1>2 DEF LogOrdered
  <1>4. Accounted
    BY <1>2 DEF Accounted, Forgotten
  <1>5. WindowBound
    BY <1>2, LimiterAssumption DEF WindowBound, Spaced, LimiterAssumption
  <1>6. QED  BY <1>1, <1>3, <1>4, <1>5 DEF SlidingIInv

(***************************************************************************)
(* Popping expired stamps keeps the accounting: a popped stamp is at least *)
(* one window, hence MinPeriod, old.                                       *)
(***************************************************************************)
LEMMA PopAccounts ==
    ASSUME SlidingIInv, NEW j \in 0..Len(requests),
           ExpiredPrefix(requests, j, now - Period),
           NEW t \in Nat, now <= t
    PROVE  /\ \A i \in 1..(Len(requests) - j) : Popped(j)[i] = log[Forgotten + j + i]
           /\ \A i \in 1..(Forgotten + j) : log[i] + MinPeriod <= t
  <1>1. /\ requests \in Seq(Nat) /\ log \in Seq(Nat) /\ now \in Nat
        /\ Period \in Nat /\ MinPeriod \in Nat /\ MinPeriod <= Period
    BY PeriodFacts, LimiterAssumption DEF SlidingIInv, SlidingTypeOK, CommonTypeOK,
          LimiterAssumption
  <1>2. Forgotten \in Nat
    BY <1>1 DEF SlidingIInv, Accounted, Forgotten
  <1>3. ASSUME NEW i \in 1..(Len(requests) - j)
        PROVE  Popped(j)[i] = log[Forgotten + j + i]
    <2>1. j + i \in 1..Len(requests) /\ Forgotten + (j + i) = Forgotten + j + i
      BY <1>1, <1>2
    <2>2. Popped(j)[i] = requests[j + i]
      BY <1>1, PoppedFacts
    <2>3. requests[j + i] = log[Forgotten + (j + i)]
      BY <2>1 DEF SlidingIInv, Accounted
    <2>4. QED  BY <2>1, <2>2, <2>3
  <1>4. ASSUME NEW i \in 1..(Forgotten + j)
        PROVE  log[i] + MinPeriod <= t
    <2>1. i \in 1..Len(log) /\ log[i] \in Nat
      BY <1>1, <1>2 DEF Forgotten
    <2>2. CASE i <= Forgotten
      BY <1>1, <1>2, <2>1, <2>2 DEF SlidingIInv, Accounted
    <2>3. CASE i > Forgotten
      <3>1. i - Forgotten \in 1..j /\ i - Forgotten \in 1..Len(requests)
        BY <1>1, <1>2, <2>3
      <3>2. requests[i - Forgotten] = log[Forgotten + (i - Forgotten)]
        BY <3>1 DEF SlidingIInv, Accounted
      <3>3. requests[i - Forgotten] <= now - Period
        BY <3>1 DEF ExpiredPrefix
      <3>4. Forgotten + (i - Forgotten) = i
        BY <1>2
      <3>5. QED  BY <1>1, <2>1, <3>2, <3>3, <3>4
    <2>4. QED  BY <1>2, <2>2, <2>3
  <1>5. QED  BY <1>3, <1>4

\* Every step keeps the invariant.
LEMMA SlidingStepIInv == SlidingIInv /\ [SlidingNext]_SlidingVars => SlidingIInv'
  <1> SUFFICES ASSUME SlidingIInv, [SlidingNext]_SlidingVars PROVE SlidingIInv'
    OBVIOUS
  <1>1. SlidingTypeOK'
    BY StepTypeOK DEF SlidingIInv
  <1>2. /\ requests \in Seq(Nat) /\ log \in Seq(Nat) /\ now \in Nat /\ now' \in Nat
        /\ MinPeriod \in Nat /\ MaxLimit \in Nat /\ limit \in Nat /\ limit <= MaxLimit
        /\ limit > 0
    BY <1>1, LimiterAssumption DEF SlidingIInv, SlidingTypeOK, CommonTypeOK, LimiterAssumption
  <1>3. Forgotten \in Nat
    BY <1>2 DEF SlidingIInv, Accounted, Forgotten
  <1>4. CASE UNCHANGED SlidingVars
    BY <1>1, <1>4 DEF SlidingIInv, SlidingVars, LogOrdered, Accounted, Forgotten, WindowBound,
          Spaced
  <1>5. CASE SlidingLeaves
    <2>1. LogOrdered'
      BY <1>2, <1>5, PassOrdered DEF SlidingIInv, SlidingTypeOK, SlidingLeaves
    <2>2. Accounted'
      <3>1. Forgotten' = Forgotten
        BY <1>5 DEF SlidingLeaves, Forgotten
      <3>2. \A i \in 1..Forgotten : log[i] \in Nat
        BY <1>2 DEF Forgotten
      <3>3. QED  BY <1>2, <1>3, <1>5, <3>1, <3>2 DEF SlidingIInv, SlidingLeaves, Accounted
    <2>3. WindowBound'
      BY <1>5 DEF SlidingIInv, SlidingLeaves, WindowBound, Spaced
    <2>4. QED  BY <1>1, <2>1, <2>2, <2>3 DEF SlidingIInv
  <1>6. ASSUME NEW j \in 0..Len(requests), Pops(j)
        PROVE  SlidingIInv'
    <2>1. LogOrdered'
      BY <1>2, <1>6, PassOrdered DEF SlidingIInv, SlidingTypeOK, Pops
    <2>2. Accounted'
      <3>1. Len(requests') = Len(requests) - j /\ Forgotten' = Forgotten + j
        <4>1. Len(requests') = Len(requests) - j /\ log' = log
          BY <1>2, <1>6, PoppedFacts DEF Pops
        <4>2. Len(requests) \in Nat /\ Len(log) \in Nat
          BY <1>2
        <4>3. QED  BY <4>1, <4>2 DEF Forgotten
      <3>2. /\ \A i \in 1..(Len(requests) - j) : Popped(j)[i] = log[Forgotten + j + i]
            /\ \A i \in 1..(Forgotten + j) : log[i] + MinPeriod <= now'
        BY <1>2, <1>6, PopAccounts DEF Pops
      <3>3. QED  BY <1>3, <1>6, <3>1, <3>2 DEF Pops, Accounted
    <2>3. WindowBound'
      BY <1>6 DEF SlidingIInv, Pops, WindowBound, Spaced
    <2>4. QED  BY <1>1, <2>1, <2>2, <2>3 DEF SlidingIInv
  <1>7. ASSUME NEW j \in 0..Len(requests), SlidingAdmits(j)
        PROVE  SlidingIInv'
    <2> DEFINE r == Len(requests) - j
    <2>1. /\ Popped(j) \in Seq(Nat) /\ Len(Popped(j)) = r /\ r \in Nat
          /\ requests' = Append(Popped(j), now') /\ log' = Append(log, now')
          /\ now <= now' /\ r < limit
      BY <1>2, <1>7, PoppedFacts DEF SlidingAdmits, HasRoom
    <2>0. Len(log) \in Nat /\ Len(requests) \in Nat
      BY <1>2
    <2>2. /\ Len(requests') = r + 1 /\ Len(log') = Len(log) + 1
          /\ \A i \in 1..r : requests'[i] = Popped(j)[i]
          /\ \A i \in 1..Len(log) : log'[i] = log[i]
          /\ requests'[r + 1] = now' /\ log'[Len(log) + 1] = now'
      BY <1>2, <2>1
    <2>3. /\ \A i \in 1..r : Popped(j)[i] = log[Forgotten + j + i]
          /\ \A i \in 1..(Forgotten + j) : log[i] + MinPeriod <= now'
      BY <1>2, <1>7, <2>1, PopAccounts DEF SlidingAdmits
    <2>4. Forgotten + j + r = Len(log) /\ Forgotten' = Forgotten + j
      BY <1>2, <2>1, <2>2 DEF Forgotten
    <2>5. LogOrdered'
      BY <1>2, <2>1, AppendOrdered DEF SlidingIInv, SlidingTypeOK
    <2>6. Accounted'
      <3>1. ASSUME NEW i \in 1..Len(requests')
            PROVE  requests'[i] = log'[Forgotten' + i]
        <4>1. CASE i = r + 1
          <5>1. Forgotten' + i = Len(log) + 1
            <6>1. r \in Nat /\ j \in Nat /\ Forgotten' = Forgotten + j
              BY <2>0, <2>1, <2>4
            <6>2. Forgotten + j + r = Len(log)
              BY <2>4
            <6>3. QED  BY <1>3, <4>1, <6>1, <6>2
          <5>2. QED  BY <2>2, <4>1, <5>1
        <4>2. CASE i # r + 1
          <5>1. i \in 1..r /\ Forgotten + j + i \in 1..Len(log)
            BY SMTT(30), <1>3, <2>0, <2>1, <2>2, <2>4, <4>2
          <5>2. QED  BY <2>2, <2>3, <2>4, <5>1
        <4>3. QED  BY <4>1, <4>2
      <3>2. \A i \in 1..Forgotten' : log'[i] + MinPeriod <= now'
        <4>1. \A i \in 1..(Forgotten + j) : i \in 1..Len(log)
          BY <1>2, <1>3, <2>1, <2>4
        <4>2. QED  BY <2>2, <2>3, <2>4, <4>1
      <3>3. Forgotten' >= 0
        BY <1>3, <2>4
      <3>4. QED  BY <3>1, <3>2, <3>3 DEF Accounted
    <2>7. WindowBound'
      <3>1. Len(log) + 1 - MaxLimit \in 1..Len(log)
               => log[Len(log) + 1 - MaxLimit] + MinPeriod <= now'
        <4>1. Len(log) + 1 - MaxLimit <= Forgotten + j
          BY <1>2, <1>3, <2>0, <2>1, <2>4
        <4>2. QED  BY <1>2, <1>3, <2>0, <2>3, <4>1
      <3>2. Spaced(MaxLimit, MinPeriod)'
        BY <1>2, <2>1, <3>1, AppendSpaced DEF SlidingIInv, WindowBound
      <3>3. QED  BY <3>2 DEF WindowBound
    <2>8. QED  BY <1>1, <2>5, <2>6, <2>7 DEF SlidingIInv
  <1>8. QED  BY <1>4, <1>5, <1>6, <1>7, SlidingStepShape DEF SlidingIInv

(***************************************************************************)
(* No interval of the shortest window ever sees more admissions than the   *)
(* highest limit, for all policies, all policy changes while the limiter   *)
(* lives and any number of calls.                                          *)
(***************************************************************************)
LEMMA SlidingBoundAlone == SlidingSpec => []WindowBound
  <1>1. SlidingIInv => WindowBound
    BY DEF SlidingIInv
  <1>2. QED  BY <1>1, SlidingInitIInv, SlidingStepIInv, PTL DEF SlidingSpec

(***************************************************************************)
(* The deque is always the recent end of the admission history, and what   *)
(* it has forgotten is older than the shortest window.                     *)
(***************************************************************************)
LEMMA DequeAccountedAlone == SlidingSpec => []Accounted
  <1>1. SlidingIInv => Accounted
    BY DEF SlidingIInv
  <1>2. QED  BY <1>1, SlidingInitIInv, SlidingStepIInv, PTL DEF SlidingSpec

(***************************************************************************)
(* After the pops every stamp left is inside the window, because the       *)
(* oldest one is; so a deque of at least limit stamps is a spent window.   *)
(***************************************************************************)
LEMMA RejectionJustified ==
    ASSUME SlidingIInv, NEW j \in 0..Len(requests),
           ExpiredPrefix(requests, j, now - Period),
           ~HasRoom(Len(requests) - j)
    PROVE  Spent(limit, Period)
  <1>1. /\ requests \in Seq(Nat) /\ log \in Seq(Nat) /\ now \in Nat
        /\ Period \in Nat /\ limit \in Nat /\ limit > 0
    BY PeriodFacts, LimiterAssumption DEF SlidingIInv, SlidingTypeOK, CommonTypeOK,
          LimiterAssumption
  <1>2. /\ Len(log) \in Nat /\ Len(requests) \in Nat /\ Forgotten \in Nat
        /\ Len(log) = Forgotten + Len(requests)
    BY <1>1 DEF SlidingIInv, Accounted, Forgotten
  <1>3. limit <= Len(requests) - j
    BY <1>1, <1>2 DEF HasRoom
  <1>4. requests[j + 1] > now - Period
    BY <1>1, <1>2, <1>3 DEF ExpiredPrefix
  <1> DEFINE k == Len(log) - limit + 1
  <1>5. Forgotten + (j + 1) \in 1..Len(log) /\ k \in 1..Len(log) /\ Forgotten + (j + 1) <= k
    BY <1>1, <1>2, <1>3
  <1>6. log[Forgotten + (j + 1)] = requests[j + 1]
    <2>1. j + 1 \in 1..Len(requests)
      BY <1>1, <1>2, <1>3
    <2>2. QED  BY <2>1 DEF SlidingIInv, Accounted
  <1>7. log[Forgotten + (j + 1)] <= log[k]
    BY <1>5 DEF SlidingIInv, LogOrdered
  <1>8. log[Forgotten + (j + 1)] \in Nat /\ log[k] \in Nat
    BY <1>1, <1>5
  <1>9. log[k] > now - Period
    BY <1>1, <1>4, <1>6, <1>7, <1>8
  <1>10. Len(log) >= limit
    BY <1>1, <1>2, <1>3
  <1>11. QED  BY <1>9, <1>10 DEF Spent

(***************************************************************************)
(* A 429 is never wrong: whatever policy changes and read-only calls came  *)
(* before, limit requests were admitted within the window in force.        *)
(***************************************************************************)
LEMMA SlidingRejectionsAlone == SlidingSpec => []RejectedOnlyWhenSpent
  <1>1. SlidingInit => RejectedOnlyWhenSpent
    BY DEF SlidingInit, CommonInit, RejectedOnlyWhenSpent, Rejected, NoReply
  <1>2. SlidingIInv /\ RejectedOnlyWhenSpent /\ [SlidingNext]_SlidingVars
        => RejectedOnlyWhenSpent'
    <2> SUFFICES ASSUME SlidingIInv, RejectedOnlyWhenSpent, [SlidingNext]_SlidingVars, Rejected'
                 PROVE  Spent(limit, Period)'
      BY DEF RejectedOnlyWhenSpent
    <2>1. CASE UNCHANGED SlidingVars
      BY <2>1 DEF SlidingVars, RejectedOnlyWhenSpent, Rejected, Spent, Period
    <2>2. CASE AllowRequest
      <3>1. PICK j \in 0..Len(requests) :
                /\ ExpiredPrefix(requests, j, now - Period)
                /\ \/ reply' = Allow(TRUE)
                   \/ ~HasRoom(Len(requests) - j) /\ UNCHANGED <<now, log>>
                /\ UNCHANGED <<limit, window>>
        BY <2>2 DEF AllowRequest
      <3>2. reply' # Allow(TRUE)
        BY DEF Rejected, Allow
      <3>3. Spent(limit, Period)
        BY <3>1, <3>2, RejectionJustified
      <3>4. QED  BY <3>1, <3>2, <3>3 DEF Spent, Period
    <2>3. CASE SlidingNext /\ ~AllowRequest
      <3>1. reply'.op # "allow"
        BY <2>3 DEF SlidingNext, RemainingRequests, ResetTime, Tick, Retune, Answer, NoReply
      <3>2. QED  BY <3>1 DEF Rejected
    <2>4. QED  BY <2>1, <2>2, <2>3
  <1>3. QED  BY <1>1, <1>2, SlidingInitIInv, SlidingStepIInv, PTL DEF SlidingSpec

(***************************************************************************)
(* The pop loop of _remove_expired_requests always has a place to stop: it *)
(* is at the first stamp that is later than the cutoff, or at the end.     *)
(***************************************************************************)
LEMMA PopLoopStops ==
    ASSUME NEW s \in Seq(Nat), NEW c \in Int
    PROVE  \E j \in 0..Len(s) : ExpiredPrefix(s, j, c)
  BY FirstLater DEF ExpiredPrefix

(***************************************************************************)
(* Once the oldest stamp of a deque has expired, the pop loop makes room.  *)
(***************************************************************************)
LEMMA RoomOnceOldestExpired ==
    ASSUME NEW s \in Seq(Nat), s # <<>>, NEW p \in Nat, NEW t \in Int, s[1] + p <= t
    PROVE  \E j \in 0..Len(s) : ExpiredPrefix(s, j, t - p) /\ Len(s) - j < Len(s)
  <1>1. s[1] \in Nat /\ Len(s) \in Nat /\ Len(s) > 0 /\ t - p \in Int
    OBVIOUS
  <1>2. PICK j \in 0..Len(s) : ExpiredPrefix(s, j, t - p)
    BY <1>1, PopLoopStops
  <1>3. j # 0
    <2>1. s[0 + 1] <= t - p
      BY <1>1
    <2>2. QED  BY <1>1, <1>2, <2>1 DEF ExpiredPrefix
  <1>4. Len(s) - j < Len(s)
    BY <1>1, <1>3
  <1>5. QED  BY <1>2, <1>4

(***************************************************************************)
(* The advertised reset time of sliding_window.py errs by less than a      *)
(* second: one second after it the client of a full window is admitted,    *)
(* for every set of policies and however late the second clock reading.    *)
(***************************************************************************)
LEMMA SlidingResetAlone == SlidingSpec => []RetryAfterWithinASecond
  <1>1. SlidingInit => RetryAfterWithinASecond
    BY DEF SlidingInit, CommonInit, NoReply, RetryAfterWithinASecond
  <1>2. SlidingTypeOK /\ SlidingTypeOK' /\ RetryAfterWithinASecond
        /\ [SlidingNext]_SlidingVars => RetryAfterWithinASecond'
    <2> SUFFICES ASSUME SlidingTypeOK, SlidingTypeOK', RetryAfterWithinASecond,
          [SlidingNext]_SlidingVars
                 PROVE  RetryAfterWithinASecond'
      OBVIOUS
    <2>1. CASE UNCHANGED SlidingVars
      BY <2>1 DEF SlidingVars, RetryAfterWithinASecond, AdmitsAt, ExpiredPrefix, HasRoom,
                  Period
    <2>2. CASE ResetTime
      <3> SUFFICES ASSUME Len(requests') = limit'
                   PROVE  AdmitsAt(now + (reply.val + 1) * SEC)'
        BY DEF RetryAfterWithinASecond
      <3>1. PICK j \in 0..Len(requests) :
                /\ requests' = Popped(j)
                /\ reply' = Answer("reset", SecondsLeft(Popped(j), now'))
                /\ window' = window
        BY <2>2 DEF ResetTime
      <3>2. /\ requests' \in Seq(Nat) /\ now' \in Nat /\ Period \in Nat
            /\ limit' \in Nat /\ limit' > 0 /\ SEC \in Nat
        BY CommonFacts, LimiterAssumption DEF SlidingTypeOK, CommonTypeOK, LimiterAssumption
      <3>3. requests' # <<>> /\ requests'[1] \in Nat
        BY <3>2
      <3> DEFINE v == IntSeconds(requests'[1] + Period - now')
                 e == (v + 1) * SEC
                 t == now' + e
      <3>4. reply'.val = v /\ Period' = Period
        BY <3>1, <3>3 DEF Answer, SecondsLeft, Period
      <3>5. e \in Nat /\ now' + e - requests'[1] >= Period
        BY <3>2, <3>3, WindowOverAfter
      <3>6. t \in Int /\ requests'[1] + Period <= t
        <4> HIDE DEF e
        <4>1. QED  BY <3>2, <3>3, <3>5
      <3>7. PICK i \in 0..Len(requests') :
                ExpiredPrefix(requests', i,
                t - Period) /\ Len(requests') - i < Len(requests')
        <4> HIDE DEF t
        <4>1. QED  BY <3>2, <3>3, <3>6, RoomOnceOldestExpired
      <3>8. QED  BY <3>4, <3>7 DEF AdmitsAt, HasRoom, ExpiredPrefix
    <2>3. CASE SlidingNext /\ ~ResetTime
      <3>1. reply'.op # "reset"
        BY <2>3 DEF SlidingNext, AllowRequest, RemainingRequests, Tick, Retune, Answer, Allow,
                    NoReply
      <3>2. QED  BY <3>1 DEF RetryAfterWithinASecond
    <2>4. QED  BY <2>1, <2>2, <2>3
  <1>3. QED  BY <1>1, <1>2, InitTypeOK, StepTypeOK, PTL DEF SlidingSpec

----------------------------------------------------------------------------
(***************************************************************************)
(* The fixed window.                                                       *)
(***************************************************************************)

\* The counter and window a call works on, after _reset_if_needed
Rolled(c, s) ==
    \/ Over(window_start, now) /\ c = 0 /\ s = now
    \/ ~Over(window_start, now) /\ c = request_count /\ s = window_start

CounterReads ==
    /\ Rolled(request_count', window_start')
    /\ log' = log
    /\ now' \in 0..MaxTime /\ now <= now'

CounterAdmits ==
    \E c \in Nat :
        /\ Rolled(c, window_start')
        /\ c < limit
        /\ request_count' = c + 1
        /\ log' = Append(log, now)
        /\ now' = now

CounterLeaves ==
    /\ UNCHANGED <<request_count, window_start, log>>
    /\ now' \in 0..MaxTime /\ now <= now'

(***************************************************************************)
(* Every step reads, admits, or leaves the counter alone.                  *)
(***************************************************************************)
LEMMA FixedStepShape ==
    ASSUME FixedTypeOK, FixedNext
    PROVE  CounterReads \/ CounterAdmits \/ CounterLeaves
  <1>0. now \in Nat /\ MaxTime \in Nat /\ now \in 0..MaxTime /\ MaxLag \in Nat
        /\ request_count \in Nat
    BY CommonFacts DEF FixedTypeOK, CommonTypeOK
  <1>1. Rolled(CountAt(now), StartAt(now)) /\ CountAt(now) \in Nat
    BY <1>0 DEF Rolled, CountAt, StartAt
  <1>2. CASE FixedAllowRequest
    <2>1. CASE /\ FixedHasRoom(CountAt(now))
               /\ ResetIfNeeded(CountAt(now) + 1)
               /\ log' = Append(log, now)
      <3>1. now' = now
        BY <1>2 DEF FixedAllowRequest
      <3>2. QED  BY <1>1, <2>1, <3>1 DEF CounterAdmits, ResetIfNeeded, FixedHasRoom
    <2>2. CASE ResetIfNeeded(CountAt(now)) /\ UNCHANGED log
      BY <1>0, <1>1, <1>2, <2>2 DEF FixedAllowRequest, CounterReads, ResetIfNeeded
    <2>3. QED  BY <1>2, <2>1, <2>2 DEF FixedAllowRequest
  <1>3. CASE FixedRemainingRequests
    BY <1>0, <1>1, <1>3 DEF FixedRemainingRequests, CounterReads, ResetIfNeeded
  <1>4. CASE FixedResetTime
    BY <1>0, <1>1, <1>4 DEF FixedResetTime, CounterReads, ResetIfNeeded, Lag
  <1>5. CASE Tick /\ UNCHANGED <<request_count, window_start>>
    BY <1>0, <1>5 DEF Tick, CounterLeaves
  <1>6. CASE \E l \in Limits, w \in Windows :
                Retune(l, w) /\ UNCHANGED <<request_count, window_start>>
    BY <1>0, <1>6 DEF Retune, CounterLeaves
  <1>7. QED  BY <1>2, <1>3, <1>4, <1>5, <1>6 DEF FixedNext

(***************************************************************************)
(* Type correctness is preserved by every step.                            *)
(***************************************************************************)
LEMMA FixedStepTypeOK == FixedTypeOK /\ [FixedNext]_FixedVars => FixedTypeOK'
  <1> SUFFICES ASSUME FixedTypeOK, [FixedNext]_FixedVars PROVE FixedTypeOK'
    OBVIOUS
  <1>1. CASE UNCHANGED FixedVars
    BY <1>1 DEF FixedVars, FixedTypeOK, CommonTypeOK
  <1>2. CASE FixedNext
    <2>1. /\ now \in Nat /\ log \in Seq(Nat) /\ 0..MaxTime \subseteq Nat /\ now \in 0..MaxTime
          /\ request_count \in Nat /\ window_start \in Nat /\ Period \in Nat
      BY CommonFacts DEF FixedTypeOK, CommonTypeOK
    <2>2. /\ now' \in 0..MaxTime /\ log' \in Seq(Nat)
          /\ request_count' \in Nat /\ window_start' \in Nat
      <3>1. CASE CounterReads
        BY <2>1, <3>1 DEF CounterReads, Rolled
      <3>2. CASE CounterAdmits
        BY <2>1, <3>2 DEF CounterAdmits, Rolled
      <3>3. CASE CounterLeaves
        BY <2>1, <3>3 DEF CounterLeaves
      <3>4. QED  BY <1>2, <3>1, <3>2, <3>3, FixedStepShape
    <2>3. limit' \in Limits /\ window' \in Windows
      BY <1>2 DEF FixedNext, FixedAllowRequest, FixedRemainingRequests,
                  FixedResetTime, Tick, Retune,
                  FixedTypeOK, CommonTypeOK
    <2>4. reply' \in Replies
      <3>1. CountAt(now) \in Nat /\ StartAt(now) \in Nat
        BY <2>1 DEF CountAt, StartAt
      <3>2. CASE FixedAllowRequest
        BY <3>2, RepliesTyped DEF FixedAllowRequest
      <3>3. CASE FixedRemainingRequests
        BY <3>1, <3>3, RepliesTyped, LeftNat DEF FixedRemainingRequests, FixedTypeOK,
                                                 CommonTypeOK
      <3>4. CASE FixedResetTime
        <4>1. StartAt(now) + Period - now' \in Int
          BY <2>1, <2>2, <3>1
        <4>2. QED  BY <3>4, <4>1, RepliesTyped, IntSecondsNat DEF FixedResetTime,
                                                                  FixedSecondsLeft
      <3>5. CASE Tick \/ \E l \in Limits, w \in Windows : Retune(l, w)
        BY <3>5, RepliesTyped DEF Tick, Retune
      <3>6. QED  BY <1>2, <3>2, <3>3, <3>4, <3>5 DEF FixedNext
    <2>5. QED  BY <2>2, <2>3, <2>4 DEF FixedTypeOK, CommonTypeOK
  <1>3. QED  BY <1>1, <1>2

(***************************************************************************)
(* The inductive invariant.  The edge burst makes two generations of       *)
(* admissions matter: the ones counted now and the at most MaxLimit of the *)
(* window before; FixedAccounted bounds both.                                   *)
(***************************************************************************)
FixedIInv == FixedTypeOK /\ LogOrdered /\ FixedAccounted /\ FixedWindowBound

\* A new limiter has admitted nothing.
LEMMA FixedInitIInv == FixedInit => FixedIInv
  <1> SUFFICES ASSUME FixedInit PROVE FixedIInv
    OBVIOUS
  <1>1. CommonTypeOK /\ log = <<>> /\ now = 0 /\ request_count = 0 /\ window_start = 0
    BY CommonInitFacts DEF FixedInit
  <1>2. FixedTypeOK
    BY <1>1 DEF FixedTypeOK
  <1>3. MaxLimit \in Nat
    BY <1>1, CommonFacts
  <1>4. LogOrdered /\ FixedWindowBound
    BY <1>1, <1>3 DEF LogOrdered, FixedWindowBound, Spaced
  <1>5. FixedAccounted
    BY <1>1, <1>3 DEF FixedAccounted, Earlier
  <1>6. QED  BY <1>2, <1>4, <1>5 DEF FixedIInv

(***************************************************************************)
(* Rolling over keeps the accounting: what the old window counted becomes  *)
(* the previous generation, and everything older is a window away.         *)
(***************************************************************************)
LEMMA RolledAccounts ==
    ASSUME FixedIInv, NEW c, NEW s, Rolled(c, s)
    PROVE  /\ c \in Nat /\ s \in Nat /\ c <= MaxLimit /\ s <= now
           /\ Len(log) - c >= 0
           /\ \A i \in 1..Len(log) : i <= Len(log) - c => log[i] <= s
           /\ \A i \in 1..Len(log) : i > Len(log) - c => log[i] >= s
           /\ \A i \in 1..(Len(log) - c - MaxLimit) : log[i] + MinPeriod <= s
  <1>0. /\ now \in Nat /\ log \in Seq(Nat) /\ Len(log) \in Nat /\ MaxLimit \in Nat
        /\ Period \in Nat /\ MinPeriod \in Nat /\ MinPeriod <= Period
        /\ request_count \in Nat /\ window_start \in Nat
    BY CommonFacts DEF FixedIInv, FixedTypeOK
  <1>1. CASE ~Over(window_start, now) /\ c = request_count /\ s = window_start
    BY <1>0, <1>1 DEF FixedIInv, FixedAccounted, Earlier
  <1>2. CASE Over(window_start, now) /\ c = 0 /\ s = now
    <2>1. window_start + MinPeriod <= now
      BY <1>0, <1>2 DEF Over
    <2>2. \A i \in 1..Len(log) : log[i] \in Nat /\ log[i] <= now
      BY <1>0 DEF FixedIInv, LogOrdered
    <2>3. ASSUME NEW i \in 1..(Len(log) - c - MaxLimit)
          PROVE  log[i] + MinPeriod <= s
      <3>1. i \in 1..Len(log) /\ i <= Earlier
        BY <1>0, <1>2, <2>3 DEF FixedIInv, FixedAccounted, Earlier
      <3>2. log[i] <= window_start /\ log[i] \in Nat
        BY <2>2, <3>1 DEF FixedIInv, FixedAccounted
      <3>3. QED  BY <1>0, <1>2, <2>1, <3>2
    <2>4. QED  BY <1>0, <1>2, <2>2, <2>3
  <1>3. QED  BY <1>1, <1>2 DEF Rolled

\* Every step keeps the invariant.
LEMMA FixedStepIInv == FixedIInv /\ [FixedNext]_FixedVars => FixedIInv'
  <1> SUFFICES ASSUME FixedIInv, [FixedNext]_FixedVars PROVE FixedIInv'
    OBVIOUS
  <1>0. /\ now \in Nat /\ log \in Seq(Nat) /\ Len(log) \in Nat /\ MaxLimit \in Nat
        /\ limit \in Nat /\ limit > 0 /\ limit <= MaxLimit /\ MinPeriod \in Nat
        /\ request_count \in Nat /\ window_start \in Nat /\ CommonTypeOK
    BY CommonFacts DEF FixedIInv, FixedTypeOK
  <1>1. FixedTypeOK' /\ now' \in Nat
    BY FixedStepTypeOK, CommonFacts DEF FixedIInv, FixedTypeOK, CommonTypeOK
  <1>2. CASE UNCHANGED FixedVars
    BY <1>1, <1>2 DEF FixedIInv, FixedVars, LogOrdered, FixedAccounted, Earlier,
                      FixedWindowBound, Spaced
  <1>3. CASE CounterLeaves
    <2>1. LogOrdered'
      BY <1>0, <1>1, <1>3, PassOrdered DEF FixedIInv, CounterLeaves
    <2>2. FixedAccounted'
      BY <1>0, <1>1, <1>3 DEF FixedIInv, CounterLeaves, FixedAccounted, Earlier
    <2>3. FixedWindowBound'
      BY <1>3 DEF FixedIInv, CounterLeaves, FixedWindowBound, Spaced
    <2>4. QED  BY <1>1, <2>1, <2>2, <2>3 DEF FixedIInv
  <1>4. CASE CounterReads
    <2>1. LogOrdered'
      BY <1>0, <1>1, <1>4, PassOrdered DEF FixedIInv, CounterReads
    <2>2. FixedAccounted'
      <3>1. /\ request_count' \in Nat /\ window_start' \in Nat
            /\ request_count' <= MaxLimit /\ window_start' <= now
            /\ Len(log) - request_count' >= 0
            /\ \A i \in 1..Len(log) : i <= Len(log) - request_count' => log[i] <= window_start'
            /\ \A i \in 1..Len(log) : i > Len(log) - request_count' => log[i] >= window_start'
            /\ \A i \in 1..(Len(log) - request_count' - MaxLimit) :
                  log[i] + MinPeriod <= window_start'
        BY <1>4, RolledAccounts DEF CounterReads
      <3>2. window_start' <= now'
        BY <1>0, <1>1, <1>4, <3>1 DEF CounterReads
      <3>3. QED  BY <1>4, <3>1, <3>2 DEF CounterReads, FixedAccounted, Earlier
    <2>3. FixedWindowBound'
      BY <1>4 DEF FixedIInv, CounterReads, FixedWindowBound, Spaced
    <2>4. QED  BY <1>1, <2>1, <2>2, <2>3 DEF FixedIInv
  <1>5. CASE CounterAdmits
    <2>1. PICK c \in Nat :
              /\ Rolled(c, window_start') /\ c < limit /\ request_count' = c + 1
              /\ log' = Append(log, now) /\ now' = now
      BY <1>5 DEF CounterAdmits
    <2>2. /\ window_start' \in Nat /\ c <= MaxLimit /\ window_start' <= now
          /\ Len(log) - c >= 0
          /\ \A i \in 1..Len(log) : i <= Len(log) - c => log[i] <= window_start'
          /\ \A i \in 1..Len(log) : i > Len(log) - c => log[i] >= window_start'
          /\ \A i \in 1..(Len(log) - c - MaxLimit) : log[i] + MinPeriod <= window_start'
      BY <2>1, RolledAccounts
    <2>3. /\ Len(log') = Len(log) + 1 /\ log'[Len(log) + 1] = now
          /\ \A i \in 1..Len(log) : log'[i] = log[i] /\ log[i] \in Nat
      BY <1>0, <2>1
    <2>4. LogOrdered'
      BY <1>0, <2>1, AppendOrdered DEF FixedIInv
    <2>5. FixedAccounted'
      <3>1. Earlier' = Len(log) - c /\ request_count' <= MaxLimit
        BY <1>0, <2>1, <2>3 DEF Earlier
      <3>2. ASSUME NEW i \in 1..Len(log')
            PROVE  /\ i <= Len(log) - c => log'[i] <= window_start'
                   /\ i > Len(log) - c => log'[i] >= window_start'
        <4>1. CASE i = Len(log) + 1
          BY <1>0, <2>2, <2>3, <4>1
        <4>2. CASE i \in 1..Len(log)
          BY <2>2, <2>3, <4>2
        <4>3. QED  BY <1>0, <2>3, <4>1, <4>2
      <3>3. ASSUME NEW i \in 1..(Len(log) - c - MaxLimit)
            PROVE  log'[i] + MinPeriod <= window_start'
        <4>1. i \in 1..Len(log)
          BY <1>0
        <4>2. QED  BY <2>2, <2>3, <4>1
      <3>4. QED  BY <2>1, <2>2, <3>1, <3>2, <3>3 DEF FixedAccounted
    <2>6. FixedWindowBound'
      <3>1. 2 * MaxLimit \in Nat /\ 2 * MaxLimit > 0
        BY <1>0
      <3>2. Len(log) + 1 - 2 * MaxLimit \in 1..Len(log)
               => log[Len(log) + 1 - 2 * MaxLimit] + MinPeriod <= now
        <4>1. ASSUME Len(log) + 1 - 2 * MaxLimit \in 1..Len(log)
              PROVE  Len(log) + 1 - 2 * MaxLimit \in 1..(Len(log) - c - MaxLimit)
          BY <1>0, <2>1, <4>1
        <4>2. ASSUME NEW i \in 1..(Len(log) - c - MaxLimit)
              PROVE  log[i] + MinPeriod <= now
          <5>1. i \in 1..Len(log) /\ log[i] \in Nat
            BY <1>0, <2>3
          <5>2. QED  BY <1>0, <2>2, <5>1
        <4>3. QED  BY <4>1, <4>2
      <3>3. Spaced(2 * MaxLimit, MinPeriod)'
        BY <1>0, <2>1, <3>1, <3>2, AppendSpaced DEF FixedIInv, FixedWindowBound
      <3>4. QED  BY <3>3 DEF FixedWindowBound
    <2>7. QED  BY <1>1, <2>4, <2>5, <2>6 DEF FixedIInv
  <1>6. QED  BY <1>2, <1>3, <1>4, <1>5, FixedStepShape DEF FixedIInv

(***************************************************************************)
(* Every state of the fixed window is well typed.                          *)
(***************************************************************************)
LEMMA FixedTyped == FixedSpec => []FixedTypeOK
  <1>1. FixedIInv => FixedTypeOK
    BY DEF FixedIInv
  <1>2. QED  BY <1>1, FixedInitIInv, FixedStepIInv, PTL DEF FixedSpec

(***************************************************************************)
(* The burst at a window's edge never exceeds twice the highest limit in   *)
(* one shortest window, for all policies and policy changes.               *)
(***************************************************************************)
LEMMA FixedBoundAlone == FixedSpec => []FixedWindowBound
  <1>1. FixedIInv => FixedWindowBound
    BY DEF FixedIInv
  <1>2. QED  BY <1>1, FixedInitIInv, FixedStepIInv, PTL DEF FixedSpec

(***************************************************************************)
(* A 429 of the fixed window is never wrong: the counted requests all fall *)
(* inside the window in force.                                             *)
(***************************************************************************)
LEMMA FixedRejectionsAlone == FixedSpec => []FixedRejectedOnlyWhenSpent
  <1>1. FixedInit => FixedRejectedOnlyWhenSpent
    BY DEF FixedInit, CommonInit, FixedRejectedOnlyWhenSpent, Rejected, NoReply
  <1>2. FixedIInv /\ FixedRejectedOnlyWhenSpent /\ [FixedNext]_FixedVars
            => FixedRejectedOnlyWhenSpent'
    <2> SUFFICES ASSUME FixedIInv, FixedRejectedOnlyWhenSpent, [FixedNext]_FixedVars, Rejected'
                 PROVE  Spent(limit, Period)'
      BY DEF FixedRejectedOnlyWhenSpent
    <2>0. /\ now \in Nat /\ log \in Seq(Nat) /\ Len(log) \in Nat /\ Period \in Nat
          /\ limit \in Nat /\ limit > 0 /\ request_count \in Nat /\ window_start \in Nat
      BY CommonFacts DEF FixedIInv, FixedTypeOK
    <2>1. CASE UNCHANGED FixedVars
      BY <2>1 DEF FixedVars, FixedRejectedOnlyWhenSpent, Rejected, Spent, Period
    <2>2. CASE FixedAllowRequest
      <3>1. UNCHANGED <<now, limit, window>>
        BY <2>2 DEF FixedAllowRequest
      <3>2. ~FixedHasRoom(CountAt(now)) /\ log' = log
        BY <2>2 DEF FixedAllowRequest, Rejected, Allow
      <3>3. ~Over(window_start, now) /\ limit <= request_count
        BY <2>0, <3>2 DEF FixedHasRoom, CountAt
      <3>4. window_start > now - Period
        BY <2>0, <3>3 DEF Over
      <3>5. Earlier >= 0 /\ Len(log) >= limit
        BY <2>0, <3>3 DEF FixedIInv, FixedAccounted, Earlier
      <3>6. /\ Len(log) - limit + 1 \in 1..Len(log)
            /\ Len(log) - limit + 1 > Earlier
        BY <2>0, <3>3, <3>5 DEF Earlier
      <3>7. log[Len(log) - limit + 1] >= window_start
        BY <3>6 DEF FixedIInv, FixedAccounted
      <3>8. log[Len(log) - limit + 1] \in Nat
        BY <2>0, <3>6
      <3>9. log[Len(log) - limit + 1] > now - Period
        BY <2>0, <3>4, <3>7, <3>8
      <3>10. Spent(limit, Period)
        BY <3>5, <3>9 DEF Spent
      <3>11. QED  BY <3>1, <3>2, <3>10 DEF Spent, Period
    <2>3. CASE FixedNext /\ ~FixedAllowRequest
      <3>1. reply'.op # "allow"
        BY <2>3 DEF FixedNext, FixedRemainingRequests, FixedResetTime, Tick, Retune,
                    Answer, NoReply
      <3>2. QED  BY <3>1 DEF Rejected
    <2>4. QED  BY <2>1, <2>2, <2>3
  <1>3. QED  BY <1>1, <1>2, FixedInitIInv, FixedStepIInv, PTL DEF FixedSpec

(***************************************************************************)
(* One second after the time that reset_time of fixed_window.py advertises *)
(* a request is admitted, for every set of policies and also after the     *)
(* limit was cut below what the window has already counted.                *)
(***************************************************************************)
LEMMA FixedResetAlone == FixedSpec => []FixedRetryAfterWithinASecond
  <1>1. FixedInit => FixedRetryAfterWithinASecond
    BY DEF FixedInit, CommonInit, NoReply, FixedRetryAfterWithinASecond
  <1>2. FixedIInv /\ FixedIInv' /\ FixedRetryAfterWithinASecond /\ [FixedNext]_FixedVars
            => FixedRetryAfterWithinASecond'
    <2> SUFFICES ASSUME FixedIInv, FixedIInv', FixedRetryAfterWithinASecond,
                        [FixedNext]_FixedVars
                 PROVE  FixedRetryAfterWithinASecond'
      OBVIOUS
    <2>1. CASE UNCHANGED FixedVars
      BY <2>1 DEF FixedVars, FixedRetryAfterWithinASecond, FixedAdmitsAt, Over,
                  FixedHasRoom, Period
    <2>2. CASE FixedResetTime
      <3> DEFINE v == IntSeconds(window_start' + Period - now')
      <3>1. window_start' \in Nat /\ now' \in Nat /\ Period \in Nat
        BY CommonFacts, LimiterAssumption DEF FixedIInv, FixedTypeOK, CommonTypeOK,
                                              LimiterAssumption
      <3>2. now' + (v + 1) * SEC - window_start' >= Period
        BY <3>1, WindowOverAfter
      <3>3. window_start' = StartAt(now) /\ window' = window /\ reply' = Answer("reset", v)
        BY <2>2 DEF FixedResetTime, ResetIfNeeded, FixedSecondsLeft
      <3>4. reply'.val = v /\ Period' = Period
        BY <3>3 DEF Answer, Period
      <3>5. now' + (reply'.val + 1) * SEC - window_start' >= Period'
        BY <3>2, <3>4
      <3>6. FixedAdmitsAt(now + (reply.val + 1) * SEC)'
        <4>1. v \in Nat /\ SEC \in Nat
          BY <3>1, IntSecondsNat, LimiterAssumption DEF LimiterAssumption
        <4>2. QED  BY <3>1, <3>4, <3>5, <4>1 DEF FixedAdmitsAt, Over
      <3>7. QED  BY <3>6 DEF FixedRetryAfterWithinASecond
    <2>3. CASE FixedNext /\ ~FixedResetTime
      <3>1. reply'.op # "reset"
        BY <2>3 DEF FixedNext, FixedAllowRequest, FixedRemainingRequests, Tick,
                    Retune, Answer, Allow, NoReply
      <3>2. QED  BY <3>1 DEF FixedRetryAfterWithinASecond
    <2>4. QED  BY <2>1, <2>2, <2>3
  <1>3. QED  BY <1>1, <1>2, FixedInitIInv, FixedStepIInv, PTL DEF FixedSpec

----------------------------------------------------------------------------
(***************************************************************************)
(* A deployment that runs the sliding window takes its steps only, from    *)
(* the beginning and for good.                                             *)
(***************************************************************************)
LEMMA SlidingRuns ==
    Spec => \/ Is("sliding_window") /\ []Is("sliding_window") /\ SlidingSpec
            \/ []~Is("sliding_window")
  <1>1. Init /\ Is("sliding_window") => SlidingInit
    BY DEF Init
  <1>2. Is("sliding_window") /\ [Next]_vars => Is("sliding_window")' /\ [SlidingNext]_SlidingVars
    BY DEF Is, Next, vars, SlidingVars
  <1>3. ~Is("sliding_window") /\ [Next]_vars => ~Is("sliding_window")'
    BY DEF Is, Next, vars
  <1>4. QED  BY <1>1, <1>2, <1>3, PTL DEF Spec, SlidingSpec

(***************************************************************************)
(* The same of a deployment that runs the fixed window.                    *)
(***************************************************************************)
LEMMA FixedRuns ==
    Spec => \/ Is("fixed_window") /\ []Is("fixed_window") /\ FixedSpec
            \/ []~Is("fixed_window")
  <1>1. Init /\ Is("fixed_window") => FixedInit
    BY DEF Init
  <1>2. Is("fixed_window") /\ [Next]_vars => Is("fixed_window")' /\ [FixedNext]_FixedVars
    BY DEF Is, Next, vars, FixedVars
  <1>3. ~Is("fixed_window") /\ [Next]_vars => ~Is("fixed_window")'
    BY DEF Is, Next, vars
  <1>4. QED  BY <1>1, <1>2, <1>3, PTL DEF Spec, FixedSpec

(***************************************************************************)
(* No interval of the shortest window ever sees more admissions of the     *)
(* sliding window than the highest limit, for all policies, all policy     *)
(* changes while the limiter lives and any number of calls.                *)
(***************************************************************************)
THEOREM SlidingWindowBound == Spec => []SlidingBounded
  <1>1. SlidingBounded <=> (Is("sliding_window") => WindowBound)
    BY DEF SlidingBounded
  <1>2. QED  BY <1>1, SlidingRuns, SlidingBoundAlone, PTL

(***************************************************************************)
(* A 429 of the sliding window is never wrong: whatever policy changes and *)
(* read-only calls came before, limit requests were admitted within the    *)
(* window in force.                                                        *)
(***************************************************************************)
THEOREM SlidingRejectionsAreRight == Spec => []SlidingRejectsRightly
  <1>1. SlidingRejectsRightly <=> (Is("sliding_window") => RejectedOnlyWhenSpent)
    BY DEF SlidingRejectsRightly
  <1>2. QED  BY <1>1, SlidingRuns, SlidingRejectionsAlone, PTL

(***************************************************************************)
(* One second after the reset time that sliding_window.py advertises the   *)
(* client of a full window is admitted, for every set of policies and      *)
(* however late the second clock reading.                                  *)
(***************************************************************************)
THEOREM SlidingResetTimeIsRight == Spec => []SlidingResetsInTime
  <1>1. SlidingResetsInTime <=> (Is("sliding_window") => RetryAfterWithinASecond)
    BY DEF SlidingResetsInTime
  <1>2. QED  BY <1>1, SlidingRuns, SlidingResetAlone, PTL

(***************************************************************************)
(* The burst at the edge of a fixed window never exceeds twice the highest *)
(* limit in one shortest window, for all policies and policy changes.      *)
(***************************************************************************)
THEOREM FixedBurstWithinTwice == Spec => []FixedBounded
  <1>1. FixedBounded <=> (Is("fixed_window") => FixedWindowBound)
    BY DEF FixedBounded
  <1>2. QED  BY <1>1, FixedRuns, FixedBoundAlone, PTL

(***************************************************************************)
(* A 429 of the fixed window is never wrong: the counted requests all fall *)
(* inside the window in force.                                             *)
(***************************************************************************)
THEOREM FixedRejectionsAreRight == Spec => []FixedRejectsRightly
  <1>1. FixedRejectsRightly <=> (Is("fixed_window") => FixedRejectedOnlyWhenSpent)
    BY DEF FixedRejectsRightly
  <1>2. QED  BY <1>1, FixedRuns, FixedRejectionsAlone, PTL

(***************************************************************************)
(* One second after the reset time that fixed_window.py advertises a       *)
(* request is admitted, for every set of policies and also after the limit *)
(* was cut below what the window has already counted.                      *)
(***************************************************************************)
THEOREM FixedResetTimeIsRight == Spec => []FixedResetsInTime
  <1>1. FixedResetsInTime <=> (Is("fixed_window") => FixedRetryAfterWithinASecond)
    BY DEF FixedResetsInTime
  <1>2. QED  BY <1>1, FixedRuns, FixedResetAlone, PTL
=============================================================================
