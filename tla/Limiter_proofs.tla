--------------------------- MODULE Limiter_proofs ---------------------------
(***************************************************************************)
(* Facts about the parts that the in-process algorithms share.             *)
(***************************************************************************)
EXTENDS Limiter, FiniteSetTheorems, TLAPS

(***************************************************************************)
(* Every policy's window is at least MinPeriod ticks long.                 *)
(***************************************************************************)
LEMMA PeriodFacts ==
    ASSUME window \in Windows
    PROVE  Period \in Nat /\ MinPeriod \in Nat /\ MinPeriod <= Period
  BY LimiterAssumption DEF LimiterAssumption, Period

(***************************************************************************)
(* Truncation to whole seconds yields a natural number.                    *)
(***************************************************************************)
LEMMA IntSecondsNat == ASSUME NEW t \in Int PROVE IntSeconds(t) \in Nat
  BY LimiterAssumption DEF LimiterAssumption, IntSeconds

(***************************************************************************)
(* What is left of the limit is a natural number.                          *)
(***************************************************************************)
LEMMA LeftNat == ASSUME limit \in Limits, NEW n \in Nat PROVE Left(n) \in Nat
  BY LimiterAssumption DEF LimiterAssumption, Left

(***************************************************************************)
(* What the common part of every initial state satisfies.                  *)
(***************************************************************************)
LEMMA CommonInitFacts == CommonInit => CommonTypeOK /\ log = <<>> /\ now = 0
  BY LimiterAssumption DEF CommonInit, CommonTypeOK, Replies, NoReply, LimiterAssumption

(***************************************************************************)
(* The answers of the three calls are replies.                             *)
(***************************************************************************)
LEMMA RepliesTyped ==
    /\ NoReply \in Replies
    /\ \A b \in BOOLEAN : Allow(b) \in Replies
    /\ \A n \in Nat : Answer("remaining", n) \in Replies /\ Answer("reset", n) \in Replies
  BY DEF NoReply, Allow, Answer, Replies

(***************************************************************************)
(* The types of the common state, unfolded for arithmetic.                 *)
(***************************************************************************)
LEMMA CommonFacts ==
    ASSUME CommonTypeOK
    PROVE  /\ now \in Nat /\ now <= MaxTime /\ MaxTime \in Nat /\ MaxLag \in Nat
           /\ log \in Seq(Nat) /\ Len(log) \in Nat
           /\ limit \in Nat /\ limit > 0 /\ limit <= MaxLimit /\ MaxLimit \in Nat
           /\ Period \in Nat /\ MinPeriod \in Nat /\ MinPeriod <= Period
  BY LimiterAssumption DEF CommonTypeOK, LimiterAssumption, Period

(***************************************************************************)
(* Admitting a request at a time that is not in the past keeps the         *)
(* history in the order of the clock.                                      *)
(***************************************************************************)
LEMMA AppendOrdered ==
    ASSUME now \in Nat, log \in Seq(Nat), LogOrdered, NEW t \in Nat, now <= t,
           log' = Append(log, t), now' = t
    PROVE  LogOrdered'
  <1>1. /\ log \in Seq(Nat) /\ Len(log) \in Nat /\ now \in Nat
        /\ Len(log') = Len(log) + 1 /\ log'[Len(log) + 1] = t
        /\ \A i \in 1..Len(log) : log'[i] = log[i] /\ log[i] \in Nat /\ log[i] <= now
    BY DEF LogOrdered
  <1>2. ASSUME NEW i \in 1..Len(log') PROVE log'[i] <= now'
    <2>1. i = Len(log) + 1 \/ i \in 1..Len(log)
      BY <1>1
    <2>2. QED  BY <1>1, <2>1
  <1>3. ASSUME NEW i \in 1..Len(log'), NEW k \in 1..Len(log'), i <= k
        PROVE  log'[i] <= log'[k]
    <2>1. CASE k = Len(log) + 1
      BY <1>1, <1>2, <2>1
    <2>2. CASE k # Len(log) + 1
      <3>1. i \in 1..Len(log) /\ k \in 1..Len(log)
        BY <1>1, <1>3, <2>2
      <3>2. QED  BY <1>1, <1>3, <3>1 DEF LogOrdered
    <2>3. QED  BY <2>1, <2>2
  <1>4. QED  BY <1>2, <1>3 DEF LogOrdered

(***************************************************************************)
(* Letting time pass keeps the order of the history.                       *)
(***************************************************************************)
LEMMA PassOrdered ==
    ASSUME now \in Nat, log \in Seq(Nat), LogOrdered,
           log' = log, now' \in Nat, now <= now'
    PROVE  LogOrdered'
  <1>1. \A i \in 1..Len(log) : log[i] \in Nat /\ log[i] <= now
    BY DEF LogOrdered
  <1>2. \A i \in 1..Len(log) : log[i] <= now'
    BY <1>1
  <1>3. QED  BY <1>2 DEF LogOrdered

(***************************************************************************)
(* An index n places before one of m + 1 places is the last such index or  *)
(* n places before one of the first m.                                     *)
(***************************************************************************)
LEMMA LastOrEarlier ==
    ASSUME NEW m \in Nat, NEW n \in Nat, NEW i \in 1..(m + 1 - n)
    PROVE  \/ i = m + 1 - n /\ i + n = m + 1
           \/ i \in 1..(m - n) /\ i + n \in 1..m
  OBVIOUS

(***************************************************************************)
(* One more admission, p ticks or more after the one n places before it,   *)
(* keeps the admissions spaced.                                            *)
(***************************************************************************)
LEMMA AppendSpaced ==
    ASSUME NEW n \in Nat, NEW p \in Nat, NEW t \in Nat, log \in Seq(Nat),
           Spaced(n, p), log' = Append(log, t),
           Len(log) + 1 - n \in 1..Len(log) => log[Len(log) + 1 - n] + p <= t,
           n > 0
    PROVE  Spaced(n, p)'
  <1>1. /\ Len(log) \in Nat /\ Len(log') = Len(log) + 1 /\ log'[Len(log) + 1] = t
        /\ \A i \in 1..Len(log) : log'[i] = log[i]
    OBVIOUS
  <1>2. ASSUME NEW i \in 1..(Len(log') - n) PROVE log'[i] + p <= log'[i + n]
    <2>0. i \in 1..(Len(log) + 1 - n) /\ i \in 1..Len(log)
      BY <1>1
    <2>1. CASE i = Len(log) + 1 - n /\ i + n = Len(log) + 1
      BY <1>1, <2>0, <2>1
    <2>2. CASE i \in 1..(Len(log) - n) /\ i + n \in 1..Len(log)
      BY <1>1, <2>0, <2>2 DEF Spaced
    <2>3. QED  BY <1>1, <2>0, <2>1, <2>2, LastOrEarlier
  <1>3. QED  BY <1>2 DEF Spaced

(***************************************************************************)
(* Rounding a quotient down loses less than the divisor.                   *)
(***************************************************************************)
LEMMA QuotientReaches ==
    ASSUME NEW t \in Nat, NEW q \in Nat, q > 0
    PROVE  t \div q \in Nat /\ (t \div q + 1) * q \in Nat /\ (t \div q + 1) * q > t
  <1>1. t \div q \in Nat
    OBVIOUS
  <1>2. t = q * (t \div q) + (t % q) /\ (t % q) \in 0..(q - 1)
    OBVIOUS
  <1> DEFINE d == t \div q
             r == t % q
             p == q * d
  <1>3. (d + 1) * q = p + q /\ p \in Nat
    <2> HIDE DEF d
    <2>1. d \in Nat
      BY <1>1 DEF d
    <2>2. QED  BY <2>1
  <1>4. d \in Nat /\ t = p + r /\ r \in 0..(q - 1)
    BY <1>1, <1>2
  <1> HIDE DEF d, r, p
  <1>5. (d + 1) * q \in Nat /\ (d + 1) * q > t
    BY <1>3, <1>4
  <1>6. QED  BY <1>4, <1>5 DEF d

(***************************************************************************)
(* One second after a duration rounded down by int() the duration is over. *)
(***************************************************************************)
LEMMA SecondAfter ==
    ASSUME NEW t \in Int
    PROVE  (IntSeconds(t) + 1) * SEC \in Nat /\ (IntSeconds(t) + 1) * SEC > t
  <1>1. SEC \in Nat /\ SEC > 0
    BY LimiterAssumption DEF LimiterAssumption
  <1>2. CASE t > 0
    <2>1. IntSeconds(t) = t \div SEC /\ t \in Nat
      BY <1>2 DEF IntSeconds
    <2>2. QED  BY <1>1, <2>1, QuotientReaches
  <1>3. CASE ~(t > 0)
    <2>1. IntSeconds(t) = 0
      BY <1>3 DEF IntSeconds
    <2>2. (0 + 1) * SEC = SEC
      BY <1>1
    <2>3. QED  BY <1>1, <1>3, <2>1, <2>2
  <1>4. QED  BY <1>2, <1>3

(***************************************************************************)
(* One second after the advertised remainder of a window that started at s *)
(* and is p ticks long, seen at time n, the window is over.                *)
(***************************************************************************)
LEMMA WindowOverAfter ==
    ASSUME NEW s \in Nat, NEW p \in Nat, NEW n \in Nat
    PROVE  /\ (IntSeconds(s + p - n) + 1) * SEC \in Nat
           /\ n + (IntSeconds(s + p - n) + 1) * SEC - s >= p
  <1> DEFINE e == (IntSeconds(s + p - n) + 1) * SEC
  <1>1. e \in Nat /\ e > s + p - n
    BY SecondAfter
  <1> HIDE DEF e
  <1>2. n + e - s >= p
    BY <1>1
  <1>3. QED  BY <1>1, <1>2 DEF e

(***************************************************************************)
(* The least-number principle for a set of naturals, from the              *)
(* well-foundedness of the strict inclusion of finite sets.                *)
(***************************************************************************)
LEMMA LeastNatural ==
    ASSUME NEW S \in SUBSET Nat, S # {}
    PROVE  \E m \in S : \A k \in S : m <= k
  <1> DEFINE F == {0..n : n \in S}
             R == StrictSubsetOrdering(Nat)
  <1>1. F \subseteq FiniteSubsetsOf(Nat) /\ F # {}
    <2>1. ASSUME NEW n \in S PROVE 0..n \in FiniteSubsetsOf(Nat)
      BY FS_Interval DEF FiniteSubsetsOf
    <2>2. QED  BY <2>1
  <1>2. IsWellFoundedOn(R, FiniteSubsetsOf(Nat))
    BY FS_StrictSubsetOrderingWellFounded
  <1> HIDE DEF R
  <1>3. \E x \in F : \A y \in F : ~ (<<y, x>> \in R)
    <2> HIDE DEF F
    <2>1. QED  BY <1>1, <1>2, WFMin
  <1>4. PICK m \in S : \A k \in S : ~ (<<0..k, 0..m>> \in R)
    BY <1>3
  <1>5. ASSUME NEW k \in S, k < m PROVE <<0..k, 0..m>> \in R
    <2>1. 0..k \subseteq 0..m /\ m \in 0..m /\ m \notin 0..k /\ 0..m \subseteq Nat /\ 0..k \subseteq Nat
      BY <1>5
    <2>2. QED  BY <2>1 DEF R, StrictSubsetOrdering
  <1>6. ASSUME NEW k \in S PROVE m <= k
    <2>1. ~(k < m)
      BY <1>4, <1>5
    <2>2. QED  BY <2>1
  <1>7. QED  BY <1>6

(***************************************************************************)
(* Products with a common factor keep the order of the other factor.       *)
(***************************************************************************)
LEMMA ProductMonotone ==
    ASSUME NEW a \in Nat, NEW b \in Nat, NEW c \in Nat, a <= b
    PROVE  a * c \in Nat /\ b * c \in Nat /\ a * c <= b * c /\ c * a <= c * b
  OBVIOUS

(***************************************************************************)
(* A difference distributes over a product.                                *)
(***************************************************************************)
LEMMA ProductSplit ==
    ASSUME NEW r \in Nat, NEW x \in Int, NEW y \in Int, NEW z \in Int
    PROVE  r * (x - z) = r * (x - y) + r * (y - z)
  OBVIOUS

(***************************************************************************)
(* The history after an admission.                                         *)
(***************************************************************************)
LEMMA LogGrown ==
    ASSUME log \in Seq(Nat), NEW t \in Nat, log' = Append(log, t)
    PROVE  /\ Len(log) \in Nat /\ Len(log') = Len(log) + 1 /\ log'[Len(log) + 1] = t
           /\ \A i \in 1..Len(log) : log'[i] = log[i] /\ log[i] \in Nat
           /\ \A i \in 1..Len(log') : i \in 1..Len(log) \/ i = Len(log) + 1
  OBVIOUS

(***************************************************************************)
(* One more request is one more Unit.                                      *)
(***************************************************************************)
LEMMA OneMore ==
    ASSUME NEW n \in Nat, NEW i \in Nat, NEW u \in Nat
    PROVE  /\ (n + 1 - i + 1) * u = (n - i + 1) * u + u
           /\ (n - i + 1) * u \in Int
  OBVIOUS

(***************************************************************************)
(* The arithmetic of one leak: k whole requests of u parts leak in d ticks *)
(* at a rate between lo and hi.  They are no more than the fastest rate    *)
(* drains and, because only a fraction below one request is thrown away    *)
(* with at least one whole one, no less than half of what the slowest does.*)
(***************************************************************************)
LEMMA LeakArithmetic ==
    ASSUME NEW u \in Nat, u > 0, NEW r \in Nat, NEW lo \in Nat, NEW hi \in Nat,
           lo <= r, r <= hi, NEW d \in Nat, NEW k, k = (d * r) \div u
    PROVE  /\ k \in Nat /\ k * u \in Nat /\ lo * d \in Nat /\ hi * d \in Nat
           /\ k * u <= hi * d
           /\ k > 0 => lo * d <= 2 * (k * u)
           /\ k = 0 => lo * d < u
  <1> DEFINE x == d * r
             a == lo * d
             b == hi * d
             y == k * u
             z == x % u
  <1>1. x \in Nat /\ a \in Nat /\ b \in Nat /\ a <= x /\ x <= b
    <2>1. /\ lo * d \in Nat /\ r * d \in Nat /\ hi * d \in Nat
          /\ lo * d <= r * d /\ r * d <= hi * d
      BY ProductMonotone
    <2>2. r * d = d * r
      OBVIOUS
    <2>3. QED  BY <2>1, <2>2
  <1> HIDE DEF x, a, b
  <1>2. k = x \div u
    BY DEF x
  <1>3. k \in Nat /\ x = u * k + z /\ z \in 0..(u - 1)
    BY <1>1, <1>2
  <1>4. y \in Nat /\ u * k = y /\ (k > 0 => y >= u) /\ (k = 0 => y = 0)
    <2>1. y \in Nat /\ u * k = y /\ 0 * u = 0 /\ 1 * u = u
      BY <1>3
    <2>2. k > 0 => 1 * u <= k * u
      BY <1>3, ProductMonotone
    <2>3. QED  BY <1>3, <2>1, <2>2
  <1> HIDE DEF y, z
  <1>5. x = y + z
    BY <1>3, <1>4
  <1>6. y <= b /\ (k > 0 => a <= 2 * y) /\ (k = 0 => a < u)
    BY <1>1, <1>3, <1>4, <1>5
  <1>7. QED  BY <1>1, <1>3, <1>4, <1>6 DEF a, b, y

(***************************************************************************)
(* What has been pending for less than a whole request at the slowest rate *)
(* has been pending for so short a time that Slack covers it.              *)
(***************************************************************************)
LEMMA PendingArithmetic ==
    ASSUME NEW u \in Nat, NEW lo \in Nat, lo > 0, NEW hi \in Nat, NEW d \in Nat, lo * d < u
    PROVE  hi * d <= hi * ((u + lo - 1) \div lo) /\ hi * ((u + lo - 1) \div lo) \in Nat
  <1> DEFINE s == u + lo - 1
             c == s \div lo
  <1>1. s \in Nat
    OBVIOUS
  <1>2. c \in Nat /\ (c + 1) * lo \in Nat /\ (c + 1) * lo > s
    <2> HIDE DEF s
    <2>1. QED  BY <1>1, QuotientReaches
  <1>3. d <= c
    <2> SUFFICES ASSUME c + 1 <= d PROVE FALSE
      <3> HIDE DEF c
      <3>1. QED  BY <1>2
    <2>1. (c + 1) * lo <= d * lo /\ d * lo = lo * d /\ lo * d \in Nat
      <3> HIDE DEF c
      <3>1. c + 1 \in Nat
        BY <1>2
      <3>2. QED  BY <3>1, ProductMonotone
    <2> DEFINE p == (c + 1) * lo
               q == lo * d
    <2>2. p \in Nat /\ p > u + lo - 1 /\ q \in Nat /\ q < u /\ p <= q
      BY <1>2, <2>1
    <2> HIDE DEF p, q
    <2>3. QED  BY <2>2
  <1>4. QED
    <2> HIDE DEF c
    <2>1. hi * d <= hi * c /\ c * hi \in Nat /\ hi * c = c * hi
      BY <1>2, <1>3, ProductMonotone
    <2>2. QED  BY <2>1 DEF c

----------------------------------------------------------------------------
(***************************************************************************)
(* At least m whole requests leak out of m times u parts or more.          *)
(***************************************************************************)
LEMMA QuotientAtLeast ==
    ASSUME NEW x \in Nat, NEW u \in Nat, u > 0, NEW m \in Nat, x >= m * u
    PROVE  x \div u \in Nat /\ x \div u >= m
  <1> DEFINE k == x \div u
  <1>1. k \in Nat /\ (k + 1) * u \in Nat /\ (k + 1) * u > x
    BY QuotientReaches
  <1> HIDE DEF k
  <1>2. m * u \in Nat
    OBVIOUS
  <1>3. ~(k + 1 <= m)
    <2> SUFFICES ASSUME k + 1 <= m PROVE FALSE
      OBVIOUS
    <2>1. k + 1 \in Nat
      BY <1>1
    <2>2. (k + 1) * u <= m * u
      BY <2>1, ProductMonotone
    <2> DEFINE a == (k + 1) * u
               b == m * u
    <2>3. a \in Nat /\ b \in Nat /\ a > x /\ x >= b /\ a <= b
      BY <1>1, <1>2, <2>2
    <2> HIDE DEF a, b
    <2>4. QED  BY <2>3
  <1>4. QED  BY <1>1, <1>3 DEF k

(***************************************************************************)
(* Rounding a quotient up reaches the dividend.                            *)
(***************************************************************************)
LEMMA QuotientUp ==
    ASSUME NEW t \in Nat, NEW q \in Nat, q > 0
    PROVE  /\ (t + q - 1) \div q \in Nat /\ ((t + q - 1) \div q) * q \in Nat
           /\ ((t + q - 1) \div q) * q >= t
  <1> DEFINE s == t + q - 1
             d == s \div q
             p == d * q
  <1>1. s \in Nat
    OBVIOUS
  <1>2. d \in Nat /\ (d + 1) * q \in Nat /\ (d + 1) * q > s
    <2> HIDE DEF s
    <2>1. QED  BY <1>1, QuotientReaches
  <1>3. p \in Nat /\ (d + 1) * q = p + q
    <2> HIDE DEF d
    <2>1. QED  BY <1>2
  <1>4. p >= t
    <2>1. p + q > t + q - 1
      BY <1>2, <1>3
    <2> HIDE DEF p
    <2>2. QED  BY <1>3, <2>1
  <1>5. QED  BY <1>2, <1>3, <1>4

(***************************************************************************)
(* Every sequence of times has a first one that is later than c, or none.  *)
(***************************************************************************)
LEMMA FirstLater ==
    ASSUME NEW s \in Seq(Nat), NEW c \in Int
    PROVE  \E j \in 0..Len(s) :
              (\A i \in 1..j : s[i] <= c) /\ (j < Len(s) => s[j + 1] > c)
  <1> DEFINE S == {k \in 0..Len(s) : k < Len(s) => s[k + 1] > c}
  <1>1. Len(s) \in Nat /\ S \in SUBSET Nat /\ Len(s) \in S
    OBVIOUS
  <1>2. PICK j \in S : \A k \in S : j <= k
    BY <1>1, LeastNatural
  <1>3. j \in 0..Len(s) /\ (j < Len(s) => s[j + 1] > c)
    BY <1>2
  <1>4. ASSUME NEW i \in 1..j PROVE s[i] <= c
    <2>1. i - 1 \in 0..Len(s) /\ i - 1 < Len(s) /\ i - 1 < j /\ i - 1 + 1 = i
      BY <1>1, <1>3
    <2>2. i - 1 \notin S
      BY <1>1, <1>2, <1>3, <2>1
    <2>3. ~(s[i] > c)
      BY <2>1, <2>2
    <2>4. s[i] \in Nat
      BY <1>1, <1>3, <2>1
    <2>5. QED  BY <2>3, <2>4
  <1>5. QED  BY <1>3, <1>4
=============================================================================
