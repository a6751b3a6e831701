------------------------- MODULE RateLimiter_proofs -------------------------
(***************************************************************************)
(* What the facade promises, proved for any number of threads, keys,       *)
(* policies and limiter objects, and for every max_keys and key_ttl; and,  *)
(* last, what the middleware's headers owe to it.                          *)
(***************************************************************************)
EXTENDS Middleware, FiniteSetTheorems, SequenceTheorems, TLAPS

Entries == [key : Keys, obj : Objects, age : Nat]
ObjectStates ==
    [limit : Limits \cup {0}, window : Windows \cup {0}, tuned : Configs \cup {<<0, 0>>}]
ThreadStates == [pc : {"idle", "lock", "limit", "window", "call"},
                 key : Keys \cup {None}, obj : Objects \cup {None},
                 config : Configs \cup {<<0, 0>>}, wait : Nat,
                 others : SUBSET Keys, replaced : BOOLEAN]

\* What the local variables of a call are, depending on where it is
Shaped(s) ==
    /\ s \in ThreadStates
    /\ s.pc # "idle" => s.key \in Keys /\ s.config \in Configs
    /\ Holding(s) => s.obj \in Objects
    /\ IsFiniteSet(s.others)

WellTyped ==
    /\ config \in Configs
    /\ limiters \in Seq(Entries)
    /\ heap \in [Objects -> ObjectStates]
    /\ lock \in Threads \cup {Nobody}
    /\ thread \in [Threads -> ThreadStates]
    /\ \A t \in Threads : Shaped(thread[t])
    /\ recency \in Seq(Keys)

\* The map m is the end of the order of use r
Recent(m, r) ==
    /\ Len(m) <= Len(r)
    /\ \A i \in 1..Len(m) : m[i].key = r[Len(r) - Len(m) + i]

Distinct(r) == \A i, j \in 1..Len(r) : r[i] = r[j] => i = j

Ordered == Distinct(recency) /\ Recent(limiters, recency) /\ Len(limiters) <= MaxKeys

\* A call has seen every key that was used since its own
Seen(r, s) ==
    \E p \in 1..Len(r) : r[p] = s.key /\ \A j \in (p + 1)..Len(r) : r[j] \in s.others

\* A call's limiter is in the map under its key, or it lost it for one of two reasons
Held(m, s) == \E i \in 1..Len(m) : m[i].key = s.key /\ m[i].obj = s.obj
Lost(s) == s.replaced \/ Cardinality(s.others \ {s.key}) >= MaxKeys

Knows(m, r, s) == Seen(r, s) /\ (Held(m, s) \/ Lost(s))

InHand == \A t \in Threads : Holding(thread[t]) => Knows(limiters, recency, thread[t])

\* Who is inside _retune has the lock, and has written half of the attributes at most
Retuning(s) == s.pc \in {"limit", "window"}
Exclusive == \A t \in Threads : Retuning(thread[t]) <=> lock = t
Marked(o) == o.tuned = <<o.limit, o.window>>
HalfWritten ==
    /\ \A o \in Objects :
          Marked(heap[o]) \/ \E t \in Threads : thread[t].pc = "window" /\ thread[t].obj = o
    /\ \A t \in Threads :
          thread[t].pc = "window" => heap[thread[t].obj].limit = thread[t].config[1]

MapInv == WellTyped /\ Ordered
BudgetInv == MapInv /\ InHand
RetuneInv == MapInv /\ Exclusive /\ HalfWritten

----------------------------------------------------------------------------
(***************************************************************************)
(* Removing the element at one place keeps the order of the others.        *)
(***************************************************************************)
LEMMA RemovedAt ==
    ASSUME NEW S, NEW s \in Seq(S), NEW p \in 1..Len(s)
    PROVE  /\ RemoveAt(s, p) \in Seq(S)
           /\ Len(RemoveAt(s, p)) = Len(s) - 1
           /\ \A j \in 1..(Len(s) - 1) : RemoveAt(s, p)[j] = s[IF j < p THEN j ELSE j + 1]
<1> DEFINE front == SubSeq(s, 1, p - 1)
           back == SubSeq(s, p + 1, Len(s))
<1>1. Len(s) \in Nat /\ p \in Nat /\ 1 <= p /\ p <= Len(s)
  OBVIOUS
<1>2. front \in Seq(S) /\ Len(front) = p - 1 /\ \A j \in 1..(p - 1) : front[j] = s[j]
  BY <1>1
<1>3. back \in Seq(S) /\ Len(back) = Len(s) - p /\ \A j \in 1..(Len(s) - p) : back[j] = s[p + j]
  BY <1>1
<1>4. RemoveAt(s, p) = front \o back
  BY DEF RemoveAt
<1> HIDE DEF front, back
<1>5. front \o back \in Seq(S) /\ Len(front \o back) = Len(s) - 1
  <2>1. front \o back \in Seq(S)
    BY <1>2, <1>3
  <2>2. Len(front \o back) = Len(front) + Len(back)
    BY <1>2, <1>3, ConcatProperties
  <2>3. (p - 1) + (Len(s) - p) = Len(s) - 1
    BY <1>1
  <2> QED
    BY <1>2, <1>3, <2>1, <2>2, <2>3
<1>6. ASSUME NEW j \in 1..(Len(s) - 1)
      PROVE  (front \o back)[j] = s[IF j < p THEN j ELSE j + 1]
  <2>1. CASE j < p
    BY <1>1, <1>2, <1>3, <2>1
  <2>2. CASE ~(j < p)
    <3>1. (front \o back)[j] = back[j - (p - 1)]
      BY <1>1, <1>2, <1>3, <2>2
    <3>2. j - (p - 1) \in 1..(Len(s) - p) /\ p + (j - (p - 1)) = j + 1
      BY <1>1, <2>2
    <3> QED
      BY <1>3, <2>2, <3>1, <3>2
  <2> QED
    BY <2>1, <2>2
<1> QED
  BY <1>4, <1>5, <1>6

(***************************************************************************)
(* Popped, for a key that is nowhere and for a key that is at one place.   *)
(***************************************************************************)
LEMMA PoppedNothing == ASSUME NEW s PROVE Popped(s, {}) = s
  BY DEF Popped

\* Popping a key that is in the map removes its entry.
LEMMA PoppedOne == ASSUME NEW s, NEW p PROVE Popped(s, {p}) = RemoveAt(s, p)
<1>1. (CHOOSE i \in {p} : TRUE) = p
  OBVIOUS
<1> QED
  BY <1>1 DEF Popped

(***************************************************************************)
(* An element appended to a sequence is its last, and the others stay.     *)
(***************************************************************************)
LEMMA Appended ==
    ASSUME NEW S, NEW s \in Seq(S), NEW x \in S
    PROVE  /\ Append(s, x) \in Seq(S)
           /\ Len(Append(s, x)) = Len(s) + 1
           /\ Append(s, x)[Len(s) + 1] = x
           /\ \A j \in 1..Len(s) : Append(s, x)[j] = s[j]
  OBVIOUS

----------------------------------------------------------------------------
(***************************************************************************)
(* The order of use.  The key that is used goes to its end, and the other  *)
(* keys keep their order: whatever came after another key still does, or   *)
(* is the key just used.                                                   *)
(***************************************************************************)
UsesIn(r, k) == {i \in 1..Len(r) : r[i] = k}
Touched(r, k) == Append(Popped(r, UsesIn(r, k)), k)

\* In an order of use every key has one place.
LEMMA UsedOnce ==
    ASSUME NEW r, Distinct(r), NEW p \in 1..Len(r)
    PROVE  UsesIn(r, r[p]) = {p}
  BY DEF UsesIn, Distinct

\* The first use of a key puts it at the end,
LEMMA TouchedNew ==
    ASSUME NEW r \in Seq(Keys), NEW k \in Keys, UsesIn(r, k) = {}
    PROVE  /\ Touched(r, k) \in Seq(Keys)
           /\ Len(Touched(r, k)) = Len(r) + 1
           /\ Touched(r, k)[Len(r) + 1] = k
           /\ \A j \in 1..Len(r) : Touched(r, k)[j] = r[j]
  BY PoppedNothing, Appended DEF Touched

\* a later use moves it there,
LEMMA TouchedAgain ==
    ASSUME NEW r \in Seq(Keys), NEW k \in Keys, NEW p \in 1..Len(r), UsesIn(r, k) = {p}
    PROVE  /\ Touched(r, k) \in Seq(Keys)
           /\ Len(Touched(r, k)) = Len(r)
           /\ Touched(r, k)[Len(r)] = k
           /\ \A j \in 1..(Len(r) - 1) : Touched(r, k)[j] = r[IF j < p THEN j ELSE j + 1]
<1> DEFINE rest == RemoveAt(r, p)
<1>1. rest \in Seq(Keys) /\ Len(rest) = Len(r) - 1
      /\ \A j \in 1..(Len(r) - 1) : rest[j] = r[IF j < p THEN j ELSE j + 1]
  BY RemovedAt
<1>2. Touched(r, k) = Append(rest, k)
  BY PoppedOne DEF Touched
<1> HIDE DEF rest
<1>3. Len(r) \in Nat /\ (Len(r) - 1) + 1 = Len(r)
  OBVIOUS
<1>4. /\ Append(rest, k) \in Seq(Keys)
      /\ Len(Append(rest, k)) = Len(rest) + 1
      /\ Append(rest, k)[Len(rest) + 1] = k
      /\ \A j \in 1..Len(rest) : Append(rest, k)[j] = rest[j]
  BY <1>1, Appended
<1> QED
  BY <1>1, <1>2, <1>3, <1>4

\* and the order has every key once again.
LEMMA TouchedDistinct ==
    ASSUME NEW r \in Seq(Keys), NEW k \in Keys, Distinct(r)
    PROVE  Touched(r, k) \in Seq(Keys) /\ Distinct(Touched(r, k))
<1>1. CASE UsesIn(r, k) = {}
  <2>1. \A i \in 1..Len(r) : r[i] # k
    BY <1>1 DEF UsesIn
  <2> DEFINE q == Touched(r, k)
  <2>2. q \in Seq(Keys) /\ Len(q) = Len(r) + 1 /\ q[Len(r) + 1] = k /\ \A j \in 1..Len(r) : q[j] = r[j]
    BY <1>1, TouchedNew
  <2> HIDE DEF q
  <2>3. Len(r) \in Nat
    OBVIOUS
  <2>4. ASSUME NEW i \in 1..Len(q), NEW j \in 1..Len(q), q[i] = q[j] PROVE i = j
    <3>1. i \in 1..Len(r) \/ i = Len(r) + 1
      BY <2>2, <2>3
    <3>2. j \in 1..Len(r) \/ j = Len(r) + 1
      BY <2>2, <2>3
    <3> QED
      BY <2>1, <2>2, <2>4, <3>1, <3>2 DEF Distinct
  <2>5. Distinct(q)
    BY <2>4 DEF Distinct
  <2> QED
    BY <2>2, <2>5 DEF q
<1>2. ASSUME NEW p \in 1..Len(r), r[p] = k
      PROVE  Touched(r, k) \in Seq(Keys) /\ Distinct(Touched(r, k))
  <2>1. UsesIn(r, k) = {p}
    BY <1>2, UsedOnce
  <2> DEFINE q == Touched(r, k)
             from(j) == IF j < p THEN j ELSE j + 1
  <2>2. q \in Seq(Keys) /\ Len(q) = Len(r) /\ q[Len(r)] = k /\ \A j \in 1..(Len(r) - 1) : q[j] = r[from(j)]
    BY <2>1, TouchedAgain
  <2> HIDE DEF q
  <2>3. Len(r) \in Nat /\ p \in Nat
    OBVIOUS
  <2>4. \A j \in 1..(Len(r) - 1) : from(j) \in 1..Len(r) /\ from(j) # p
    BY <2>3
  <2>5. \A i, j \in 1..(Len(r) - 1) : from(i) = from(j) => i = j
    BY <2>3
  <2> HIDE DEF from
  <2>6. \A j \in 1..(Len(r) - 1) : r[from(j)] # k
    BY <1>2, <2>4 DEF Distinct
  <2>7. ASSUME NEW i \in 1..Len(q), NEW j \in 1..Len(q), q[i] = q[j] PROVE i = j
    <3>1. i \in 1..(Len(r) - 1) \/ i = Len(r)
      BY <2>2, <2>3
    <3>2. j \in 1..(Len(r) - 1) \/ j = Len(r)
      BY <2>2, <2>3
    <3>3. CASE i \in 1..(Len(r) - 1) /\ j \in 1..(Len(r) - 1)
      <4>1. r[from(i)] = r[from(j)]
        BY <2>2, <2>7, <3>3
      <4>2. from(i) = from(j)
        BY <2>4, <3>3, <4>1 DEF Distinct
      <4> QED
        BY <2>5, <3>3, <4>2
    <3> QED
      BY <2>2, <2>6, <2>7, <3>1, <3>2, <3>3
  <2>8. Distinct(q)
    BY <2>7 DEF Distinct
  <2> QED
    BY <2>2, <2>8 DEF q
<1> QED
  BY <1>1, <1>2 DEF UsesIn

(***************************************************************************)
(* A call that saw every key used since its own still has, when another    *)
(* key is used and it takes note; and when its own key is used, nothing    *)
(* comes after it.                                                         *)
(***************************************************************************)
LEMMA SeenByOthers ==
    ASSUME NEW r \in Seq(Keys), NEW k \in Keys, Distinct(r),
           NEW s, NEW n, Seen(r, s), s.key # k, n.key = s.key,
           \A x : x \in s.others \/ x = k => x \in n.others
    PROVE  Seen(Touched(r, k), n)
<1> DEFINE q == Touched(r, k)
<1>1. PICK p \in 1..Len(r) : r[p] = s.key /\ \A j \in (p + 1)..Len(r) : r[j] \in s.others
  BY DEF Seen
<1>2. Len(r) \in Nat /\ p \in Nat /\ 1 <= p /\ p <= Len(r)
  OBVIOUS
<1>3. CASE UsesIn(r, k) = {}
  <2>1. q \in Seq(Keys) /\ Len(q) = Len(r) + 1 /\ q[Len(r) + 1] = k /\ \A j \in 1..Len(r) : q[j] = r[j]
    BY <1>3, TouchedNew
  <2> HIDE DEF q
  <2>2. ASSUME NEW j \in (p + 1)..Len(q) PROVE q[j] \in n.others
    <3>1. (j \in (p + 1)..Len(r) /\ j \in 1..Len(r)) \/ j = Len(r) + 1
      BY <1>2, <2>1
    <3> QED
      BY <1>1, <2>1, <3>1
  <2>3. p \in 1..Len(q) /\ q[p] = n.key
    BY <1>1, <1>2, <2>1
  <2>4. Seen(q, n)
    BY <2>2, <2>3 DEF Seen
  <2> QED
    BY <2>4 DEF q
<1>4. ASSUME NEW a \in 1..Len(r), r[a] = k
      PROVE  Seen(q, n)
  <2>1. UsesIn(r, k) = {a} /\ a # p /\ a \in Nat
    BY SMTT(30), <1>1, <1>4, UsedOnce
  <2>2. q \in Seq(Keys) /\ Len(q) = Len(r) /\ q[Len(r)] = k
        /\ \A j \in 1..(Len(r) - 1) : q[j] = r[IF j < a THEN j ELSE j + 1]
    BY <2>1, TouchedAgain
  <2> HIDE DEF q
  <2> DEFINE b == IF p < a THEN p ELSE p - 1
  <2>3. b \in 1..(Len(r) - 1) /\ (IF b < a THEN b ELSE b + 1) = p
    BY <1>2, <2>1
  <2>4. b \in 1..Len(q) /\ q[b] = n.key
    BY <1>1, <1>2, <2>2, <2>3
  <2>5. ASSUME NEW j \in (b + 1)..Len(q) PROVE q[j] \in n.others
    <3>1. CASE j = Len(r)
      BY <2>2, <3>1
    <3>2. CASE j # Len(r)
      <4>1. j \in 1..(Len(r) - 1) /\ (IF j < a THEN j ELSE j + 1) \in (p + 1)..Len(r)
        BY <1>2, <2>1, <2>2, <2>3, <3>2
      <4> QED
        BY <1>1, <2>2, <4>1
    <3> QED
      BY <3>1, <3>2
  <2> HIDE DEF b
  <2>6. Seen(q, n)
    BY <2>4, <2>5 DEF Seen
  <2> QED
    BY <2>6
<1> QED
  BY <1>3, <1>4 DEF UsesIn

\* Who has just used its key has seen every key used since.
LEMMA SeenByItself ==
    ASSUME NEW r \in Seq(Keys), NEW k \in Keys, NEW n, n.key = k
    PROVE  Seen(Touched(r, k), n)
<1> DEFINE rest == Popped(r, UsesIn(r, k))
<1>1. rest \in Seq(Keys)
  <2>1. CASE UsesIn(r, k) = {}
    BY <2>1, PoppedNothing
  <2>2. CASE UsesIn(r, k) # {}
    <3> DEFINE p == CHOOSE i \in UsesIn(r, k) : TRUE
    <3>1. p \in 1..Len(r)
      BY <2>2 DEF UsesIn
    <3>2. rest = RemoveAt(r, p)
      BY <2>2 DEF Popped
    <3> QED
      BY <3>1, <3>2, RemovedAt
  <2> QED
    BY <2>1, <2>2
<1> HIDE DEF rest
<1>2. /\ Append(rest, k) \in Seq(Keys)
      /\ Len(Append(rest, k)) = Len(rest) + 1
      /\ Append(rest, k)[Len(rest) + 1] = k
  BY <1>1, Appended
<1>3. Len(rest) \in Nat
  BY <1>1
<1>4. Touched(r, k) = Append(rest, k)
  BY DEF Touched, rest
<1> DEFINE p == Len(rest) + 1
           q == Append(rest, k)
<1>5. p \in 1..Len(q) /\ q[p] = n.key /\ (p + 1)..Len(q) = {}
  BY <1>2, <1>3
<1> HIDE DEF p, q
<1>6. Seen(q, n)
  BY <1>5 DEF Seen
<1> QED
  BY <1>4, <1>6 DEF q

----------------------------------------------------------------------------
(***************************************************************************)
(* The map after the entry e was put at its end.                           *)
(***************************************************************************)
PlacesIn(m, k) == {i \in 1..Len(m) : m[i].key = k}
Updated(m, e) == Append(Popped(m, PlacesIn(m, e.key)), e)

\* A map that is the end of an order of use has every key once,
LEMMA KeysOnce ==
    ASSUME NEW m \in Seq(Entries), NEW r \in Seq(Keys), Distinct(r), Recent(m, r)
    PROVE  \A i, j \in 1..Len(m) : m[i].key = m[j].key => i = j
<1> SUFFICES ASSUME NEW i \in 1..Len(m), NEW j \in 1..Len(m), m[i].key = m[j].key
             PROVE  i = j
  OBVIOUS
<1> DEFINE d == Len(r) - Len(m)
<1>1. Len(m) \in Nat /\ Len(r) \in Nat /\ Len(m) <= Len(r)
  BY DEF Recent
<1>2. d + i \in 1..Len(r) /\ d + j \in 1..Len(r)
  BY <1>1
<1>3. r[d + i] = r[d + j]
  BY DEF Recent
<1>4. d + i = d + j
  BY <1>2, <1>3 DEF Distinct
<1> QED
  BY <1>1, <1>4

\* at one place.
LEMMA OnePlace ==
    ASSUME NEW m \in Seq(Entries), NEW r \in Seq(Keys), Distinct(r), Recent(m, r),
           NEW p \in 1..Len(m)
    PROVE  PlacesIn(m, m[p].key) = {p}
  BY KeysOnce DEF PlacesIn

\* A new entry is put at the end of the map,
LEMMA UpdatedNew ==
    ASSUME NEW m \in Seq(Entries), NEW e \in Entries, PlacesIn(m, e.key) = {}
    PROVE  /\ Updated(m, e) \in Seq(Entries)
           /\ Len(Updated(m, e)) = Len(m) + 1
           /\ Updated(m, e)[Len(m) + 1] = e
           /\ \A j \in 1..Len(m) : Updated(m, e)[j] = m[j]
  BY PoppedNothing, Appended DEF Updated

\* the entry of a key that is there is moved to the end.
LEMMA UpdatedAgain ==
    ASSUME NEW m \in Seq(Entries), NEW e \in Entries,
           NEW p \in 1..Len(m), PlacesIn(m, e.key) = {p}
    PROVE  /\ Updated(m, e) \in Seq(Entries)
           /\ Len(Updated(m, e)) = Len(m)
           /\ Updated(m, e)[Len(m)] = e
           /\ \A j \in 1..(Len(m) - 1) : Updated(m, e)[j] = m[IF j < p THEN j ELSE j + 1]
<1> DEFINE rest == RemoveAt(m, p)
<1>1. rest \in Seq(Entries) /\ Len(rest) = Len(m) - 1
      /\ \A j \in 1..(Len(m) - 1) : rest[j] = m[IF j < p THEN j ELSE j + 1]
  BY RemovedAt
<1>2. Updated(m, e) = Append(rest, e)
  BY PoppedOne DEF Updated
<1> HIDE DEF rest
<1>3. Len(m) \in Nat /\ (Len(m) - 1) + 1 = Len(m)
  OBVIOUS
<1>4. /\ Append(rest, e) \in Seq(Entries)
      /\ Len(Append(rest, e)) = Len(rest) + 1
      /\ Append(rest, e)[Len(rest) + 1] = e
      /\ \A j \in 1..Len(rest) : Append(rest, e)[j] = rest[j]
  BY <1>1, Appended
<1> QED
  BY <1>1, <1>2, <1>3, <1>4

(***************************************************************************)
(* Putting an entry at the end of the map touches no other entry.          *)
(***************************************************************************)
LEMMA UpdatedHolds ==
    ASSUME NEW m \in Seq(Entries), NEW r \in Seq(Keys), Distinct(r), Recent(m, r),
           NEW e \in Entries
    PROVE  /\ Updated(m, e) \in Seq(Entries)
           /\ Len(Updated(m, e)) \in 1..(Len(m) + 1)
           /\ Updated(m, e)[Len(Updated(m, e))] = e
           /\ \A i \in 1..Len(m) : m[i].key # e.key =>
                 \E j \in 1..Len(Updated(m, e)) : Updated(m, e)[j] = m[i]
           /\ \A j \in 1..Len(Updated(m, e)) : j # Len(Updated(m, e)) =>
                 \E i \in 1..Len(m) : Updated(m, e)[j] = m[i] /\ m[i].key # e.key
<1> DEFINE u == Updated(m, e)
<1>1. Len(m) \in Nat
  OBVIOUS
<1>2. CASE PlacesIn(m, e.key) = {}
  <2>1. u \in Seq(Entries) /\ Len(u) = Len(m) + 1 /\ u[Len(m) + 1] = e /\ \A j \in 1..Len(m) : u[j] = m[j]
    BY <1>2, UpdatedNew
  <2>2. \A i \in 1..Len(m) : m[i].key # e.key
    BY <1>2 DEF PlacesIn
  <2> HIDE DEF u
  <2>3. u \in Seq(Entries) /\ Len(u) \in 1..(Len(m) + 1) /\ u[Len(u)] = e
    BY <1>1, <2>1
  <2>4. ASSUME NEW i \in 1..Len(m) PROVE \E j \in 1..Len(u) : u[j] = m[i]
    <3>1. i \in 1..Len(u) /\ u[i] = m[i]
      BY <1>1, <2>1
    <3> QED
      BY <3>1
  <2>5. ASSUME NEW j \in 1..Len(u), j # Len(u)
        PROVE  \E i \in 1..Len(m) : u[j] = m[i] /\ m[i].key # e.key
    <3>1. j \in 1..Len(m)
      BY <1>1, <2>1, <2>5
    <3> QED
      BY <2>1, <2>2, <3>1
  <2> QED
    BY <2>3, <2>4, <2>5 DEF u
<1>3. ASSUME NEW p \in 1..Len(m), m[p].key = e.key
      PROVE  /\ u \in Seq(Entries) /\ Len(u) \in 1..(Len(m) + 1) /\ u[Len(u)] = e
             /\ \A i \in 1..Len(m) : m[i].key # e.key => \E j \in 1..Len(u) : u[j] = m[i]
             /\ \A j \in 1..Len(u) : j # Len(u) =>
                   \E i \in 1..Len(m) : u[j] = m[i] /\ m[i].key # e.key
  <2>1. PlacesIn(m, e.key) = {p}
    BY <1>3, OnePlace
  <2>2. u \in Seq(Entries) /\ Len(u) = Len(m) /\ u[Len(m)] = e
        /\ \A j \in 1..(Len(m) - 1) : u[j] = m[IF j < p THEN j ELSE j + 1]
    BY <2>1, UpdatedAgain
  <2>3. \A i \in 1..Len(m) : i # p => m[i].key # e.key
    BY <2>1 DEF PlacesIn
  <2> HIDE DEF u
  <2>4. Len(u) \in 1..(Len(m) + 1) /\ u[Len(u)] = e /\ p \in Nat
    BY <1>1, <2>2
  <2>5. ASSUME NEW i \in 1..Len(m), m[i].key # e.key PROVE \E j \in 1..Len(u) : u[j] = m[i]
    <3>1. i # p
      BY <1>3, <2>5
    <3> DEFINE j == IF i < p THEN i ELSE i - 1
    <3>2. j \in 1..(Len(m) - 1) /\ (IF j < p THEN j ELSE j + 1) = i /\ j \in 1..Len(u)
      BY <1>1, <2>2, <2>4, <3>1
    <3> HIDE DEF j
    <3> QED
      BY <2>2, <3>2
  <2>6. ASSUME NEW j \in 1..Len(u), j # Len(u)
        PROVE  \E i \in 1..Len(m) : u[j] = m[i] /\ m[i].key # e.key
    <3> DEFINE i == IF j < p THEN j ELSE j + 1
    <3>1. j \in 1..(Len(m) - 1) /\ i \in 1..Len(m) /\ i # p
      BY <1>1, <2>2, <2>4, <2>6
    <3>2. u[j] = m[i]
      BY <2>2, <3>1
    <3> HIDE DEF i
    <3> QED
      BY <2>3, <3>1, <3>2
  <2> QED
    BY <2>2, <2>4, <2>5, <2>6
<1> QED
  BY <1>2, <1>3 DEF PlacesIn, u

(***************************************************************************)
(* The map stays the end of the order of use: when a key is used, which    *)
(* puts its entry at the end, and when the map is trimmed at the front.    *)
(***************************************************************************)
LEMMA RecentUpdated ==
    ASSUME NEW m \in Seq(Entries), NEW r \in Seq(Keys), Distinct(r), Recent(m, r),
           NEW e \in Entries
    PROVE  Recent(Updated(m, e), Touched(r, e.key))
<1> DEFINE u == Updated(m, e)
           q == Touched(r, e.key)
           d == Len(r) - Len(m)
<1>1. Len(m) \in Nat /\ Len(r) \in Nat /\ Len(m) <= Len(r) /\ e.key \in Keys
  BY DEF Recent, Entries
<1>2. \A i \in 1..Len(m) : m[i].key = r[d + i] /\ d + i \in 1..Len(r)
  BY <1>1 DEF Recent
<1>3. CASE UsesIn(r, e.key) = {}
  <2>1. q \in Seq(Keys) /\ Len(q) = Len(r) + 1 /\ q[Len(r) + 1] = e.key /\ \A j \in 1..Len(r) : q[j] = r[j]
    BY <1>1, <1>3, TouchedNew
  <2>2. PlacesIn(m, e.key) = {}
    BY <1>2, <1>3 DEF PlacesIn, UsesIn
  <2>3. u \in Seq(Entries) /\ Len(u) = Len(m) + 1 /\ u[Len(m) + 1] = e /\ \A j \in 1..Len(m) : u[j] = m[j]
    BY <2>2, UpdatedNew
  <2> HIDE DEF u, q
  <2>4. Len(q) - Len(u) = d /\ Len(u) <= Len(q) /\ Len(u) \in Nat /\ d \in Nat
    BY <1>1, <2>1, <2>3
  <2>5. ASSUME NEW i \in 1..Len(u) PROVE u[i].key = q[d + i]
    <3>1. CASE i \in 1..Len(m)
      BY <1>2, <2>1, <2>3, <3>1
    <3>2. CASE i \notin 1..Len(m)
      <4>1. i = Len(m) + 1 /\ d + i = Len(r) + 1
        BY <1>1, <2>3, <3>2
      <4> QED
        BY <2>1, <2>3, <4>1
    <3> QED
      BY <3>1, <3>2
  <2> HIDE DEF d
  <2>6. Recent(u, q)
    BY <2>4, <2>5 DEF Recent
  <2> QED
    BY <2>6 DEF u, q
<1>4. ASSUME NEW a \in 1..Len(r), r[a] = e.key
      PROVE  Recent(u, q)
  <2>1. UsesIn(r, e.key) = {a} /\ a \in Nat
    <3>1. UsesIn(r, r[a]) = {a}
      BY UsedOnce
    <3> QED
      BY <1>4, <3>1
  <2>2. q \in Seq(Keys) /\ Len(q) = Len(r) /\ q[Len(r)] = e.key
        /\ \A j \in 1..(Len(r) - 1) : q[j] = r[IF j < a THEN j ELSE j + 1]
    BY <1>1, <2>1, TouchedAgain
  <2>3. CASE a <= d
    <3>1. \A i \in 1..Len(m) : m[i].key # e.key
      <4> SUFFICES ASSUME NEW i \in 1..Len(m), m[i].key = e.key PROVE FALSE
        OBVIOUS
      <4>1. d + i = a
        BY <1>2, <1>4 DEF Distinct
      <4> QED
        BY <1>1, <2>3, <4>1
    <3>2. PlacesIn(m, e.key) = {}
      BY <3>1 DEF PlacesIn
    <3>3. u \in Seq(Entries) /\ Len(u) = Len(m) + 1 /\ u[Len(m) + 1] = e /\ \A j \in 1..Len(m) : u[j] = m[j]
      BY <3>2, UpdatedNew
    <3> HIDE DEF u, q
    <3>4. Len(u) \in Nat /\ Len(u) <= Len(q)
      BY <1>1, <2>1, <2>2, <2>3, <3>3
    <3>5. Len(q) - Len(u) = d - 1 /\ d \in Nat /\ 1 <= d
      BY <1>1, <2>1, <2>2, <2>3, <3>3
    <3>6. ASSUME NEW i \in 1..Len(u) PROVE u[i].key = q[d - 1 + i]
      <4>1. CASE i \in 1..Len(m)
        <5>1. d - 1 + i \in 1..(Len(r) - 1) /\ ~(d - 1 + i < a) /\ d - 1 + i + 1 = d + i
          BY <1>1, <2>1, <2>3, <3>5, <4>1
        <5>2. q[d - 1 + i] = r[d + i]
          BY <2>2, <5>1
        <5> QED
          BY <1>2, <3>3, <4>1, <5>2
      <4>2. CASE i \notin 1..Len(m)
        <5>1. i = Len(m) + 1 /\ d - 1 + i = Len(r)
          BY <1>1, <3>3, <4>2
        <5> QED
          BY <2>2, <3>3, <5>1
      <4> QED
        BY <4>1, <4>2
    <3>7. \A i \in 1..Len(u) : u[i].key = q[Len(q) - Len(u) + i]
      BY <3>5, <3>6
    <3> QED
      BY <3>4, <3>7 DEF Recent
  <2>4. CASE ~(a <= d)
    <3> DEFINE p == a - d
    <3>1. p \in 1..Len(m) /\ d + p = a
      BY <1>1, <2>1, <2>4
    <3> HIDE DEF p
    <3>2. m[p].key = e.key
      BY <1>2, <1>4, <3>1
    <3>3. PlacesIn(m, e.key) = {p}
      BY <3>1, <3>2, OnePlace
    <3>4. u \in Seq(Entries) /\ Len(u) = Len(m) /\ u[Len(m)] = e
          /\ \A j \in 1..(Len(m) - 1) : u[j] = m[IF j < p THEN j ELSE j + 1]
      BY <3>1, <3>3, UpdatedAgain
    <3> HIDE DEF u, q
    <3>5. Len(u) \in Nat /\ Len(u) <= Len(q) /\ Len(q) - Len(u) = d /\ d \in Nat /\ d + Len(m) = Len(r)
      BY <1>1, <2>2, <3>4
    <3>6. ASSUME NEW i \in 1..Len(u) PROVE u[i].key = q[d + i]
      <4>1. CASE i = Len(m)
        BY <2>2, <3>4, <3>5, <4>1
      <4>2. CASE i # Len(m)
        <5> DEFINE b == IF i < p THEN i ELSE i + 1
        <5>1. i \in 1..(Len(m) - 1) /\ b \in 1..Len(m)
          BY <1>1, <3>1, <3>4, <4>2
        <5>2. d + i \in 1..(Len(r) - 1)
          BY <1>1, <3>5, <5>1
        <5>3. (IF d + i < a THEN d + i ELSE d + i + 1) = d + b
          BY <1>1, <3>1, <3>5, <5>1
        <5> HIDE DEF b
        <5>4. q[d + i] = r[d + b]
          BY <2>2, <5>2, <5>3
        <5>5. u[i] = m[b]
          BY <3>4, <5>1 DEF b
        <5> QED
          BY <1>2, <5>1, <5>4, <5>5
      <4> QED
        BY <4>1, <4>2
    <3>7. \A i \in 1..Len(u) : u[i].key = q[Len(q) - Len(u) + i]
      BY <3>5, <3>6
    <3> QED
      BY <3>5, <3>7 DEF Recent
  <2> QED
    BY <2>3, <2>4
<1> QED
  BY <1>3, <1>4 DEF UsesIn

\* popitem drops the front entries that are too many.
LEMMA TrimmedIs ==
    ASSUME NEW u \in Seq(Entries), MaxKeys \in Nat \ {0}
    PROVE  \E n \in Nat :
              /\ n = IF Len(u) > MaxKeys THEN Len(u) - MaxKeys ELSE 0
              /\ Trimmed(u) \in Seq(Entries)
              /\ Len(Trimmed(u)) = Len(u) - n
              /\ \A i \in 1..(Len(u) - n) : Trimmed(u)[i] = u[n + i]
<1>1. Len(u) \in Nat
  OBVIOUS
<1>2. CASE Len(u) > MaxKeys
  <2> DEFINE n == Len(u) - MaxKeys
  <2>1. n \in Nat /\ n + 1 >= 1 /\ n + 1 <= Len(u) /\ Len(u) - n = MaxKeys
    BY <1>1, <1>2
  <2>2. Trimmed(u) = SubSeq(u, n + 1, Len(u))
    BY <1>2 DEF Trimmed
  <2> HIDE DEF n
  <2>3. SubSeq(u, n + 1, Len(u)) \in Seq(Entries)
    BY <1>1, <2>1
  <2>4. Len(SubSeq(u, n + 1, Len(u))) = Len(u) - n
    BY <1>1, <2>1
  <2>5. \A i \in 1..(Len(u) - n) : SubSeq(u, n + 1, Len(u))[i] = u[n + i]
    BY <1>1, <2>1
  <2> QED
    BY <1>2, <2>1, <2>2, <2>3, <2>4, <2>5 DEF n
<1>3. CASE ~(Len(u) > MaxKeys)
  <2>1. Trimmed(u) = u
    BY <1>3 DEF Trimmed
  <2> QED
    BY <1>1, <1>3, <2>1
<1> QED
  BY <1>2, <1>3

\* What is left is the end of the same order of use.
LEMMA TrimmedRecent ==
    ASSUME NEW u \in Seq(Entries), NEW q \in Seq(Keys), Recent(u, q), MaxKeys \in Nat \ {0}
    PROVE  Trimmed(u) \in Seq(Entries) /\ Len(Trimmed(u)) <= MaxKeys /\ Recent(Trimmed(u), q)
<1> DEFINE v == Trimmed(u)
<1>1. Len(u) \in Nat /\ Len(q) \in Nat /\ Len(u) <= Len(q)
  BY DEF Recent
<1>2. PICK n \in Nat :
         /\ n = IF Len(u) > MaxKeys THEN Len(u) - MaxKeys ELSE 0
         /\ v \in Seq(Entries) /\ Len(v) = Len(u) - n
         /\ \A i \in 1..(Len(u) - n) : v[i] = u[n + i]
  BY TrimmedIs
<1> HIDE DEF v
<1>3. Len(v) \in Nat /\ Len(v) <= MaxKeys /\ Len(v) <= Len(q)
  BY <1>1, <1>2
<1>4. ASSUME NEW i \in 1..Len(v) PROVE v[i].key = q[Len(q) - Len(v) + i]
  <2>1. n + i \in 1..Len(u) /\ Len(q) - Len(u) + (n + i) = Len(q) - Len(v) + i
    BY <1>1, <1>2, <1>3
  <2>2. u[n + i].key = q[Len(q) - Len(u) + (n + i)]
    BY <2>1 DEF Recent
  <2> QED
    BY <1>2, <2>1, <2>2
<1>5. Recent(v, q)
  BY <1>3, <1>4 DEF Recent
<1> QED
  BY <1>2, <1>3, <1>5 DEF v

----------------------------------------------------------------------------
(***************************************************************************)
(* A new limiter finds an unused identity: the objects in use are those of *)
(* the map's entries and one for every thread.                             *)
(***************************************************************************)
LEMMA ReferencedBounded ==
    ASSUME NEW m \in Seq(Entries), NEW ths \in [Threads -> ThreadStates], IsFiniteSet(Threads)
    PROVE  /\ IsFiniteSet(Referenced(m, ths))
           /\ Cardinality(Referenced(m, ths)) <= Len(m) + Cardinality(Threads)
<1> DEFINE A == {m[i].obj : i \in 1..Len(m)}
           B == {ths[t].obj : t \in Threads}
           f == [i \in 1..Len(m) |-> m[i].obj]
           g == [t \in Threads |-> ths[t].obj]
<1>1. Len(m) \in Nat
  OBVIOUS
<1>2. IsFiniteSet(1..Len(m)) /\ Cardinality(1..Len(m)) = Len(m)
  <2>1. IsFiniteSet(1..Len(m)) /\ Cardinality(1..Len(m)) = IF 1 > Len(m) THEN 0 ELSE Len(m) - 1 + 1
    BY <1>1, FS_Interval
  <2> QED
    BY <1>1, <2>1
<1>3. IsFiniteSet(A) /\ Cardinality(A) <= Len(m)
  <2>1. f \in Surjection(1..Len(m), A)
    BY DEF Surjection
  <2> QED
    BY <1>2, <2>1, FS_Surjection
<1>4. IsFiniteSet(B) /\ Cardinality(B) <= Cardinality(Threads)
  <2>1. g \in Surjection(Threads, B)
    BY DEF Surjection
  <2> QED
    BY <2>1, FS_Surjection
<1>5. Referenced(m, ths) = A \cup B
  BY DEF Referenced
<1> HIDE DEF A, B, f, g
<1>6. IsFiniteSet(A \cup B) /\ Cardinality(A \cup B) = Cardinality(A) + Cardinality(B) - Cardinality(A \cap B)
  BY <1>3, <1>4, FS_Union
<1>7. IsFiniteSet(A \cap B)
  BY <1>3, FS_Intersection
<1>8. Cardinality(A) \in Nat /\ Cardinality(B) \in Nat /\ Cardinality(A \cap B) \in Nat /\ Cardinality(Threads) \in Nat
  BY <1>3, <1>4, <1>7, FS_CardinalityType
<1> QED
  BY <1>1, <1>3, <1>4, <1>5, <1>6, <1>8

\* There is an object nobody refers to: map and threads hold one each.
LEMMA FreshObject ==
    ASSUME FacadeAssumption, NEW m \in Seq(Entries), Len(m) <= MaxKeys,
           NEW ths \in [Threads -> ThreadStates]
    PROVE  \E o \in Objects : o \notin Referenced(m, ths)
<1> SUFFICES ASSUME Objects \subseteq Referenced(m, ths) PROVE FALSE
  OBVIOUS
<1> DEFINE R == Referenced(m, ths)
<1>1. IsFiniteSet(R) /\ Cardinality(R) <= Len(m) + Cardinality(Threads)
  BY ReferencedBounded DEF FacadeAssumption
<1> HIDE DEF R
<1>2. Cardinality(Objects) <= Cardinality(R)
  BY <1>1, FS_Subset DEF R
<1>3. /\ Cardinality(R) \in Nat /\ Cardinality(Objects) \in Nat /\ Cardinality(Threads) \in Nat
      /\ Len(m) \in Nat /\ MaxKeys \in Nat /\ Cardinality(Objects) > MaxKeys + Cardinality(Threads)
  BY <1>1, FS_CardinalityType DEF FacadeAssumption
<1> QED
  BY <1>1, <1>2, <1>3

(***************************************************************************)
(* A thread leaves _get_limiter with a limiter, or stays to retune it; the *)
(* other calls that hold one take note of its key and do nothing else.     *)
(***************************************************************************)
LookedUp(ths, t, o, place, b) ==
    Noted([ths EXCEPT ![t].obj = o, ![t].wait = 0, ![t].pc = place], t, ths[t].key, b)

\* What a look-up does to the calls: its own has an object, the others have seen its key.
LEMMA LookedUpIs ==
    ASSUME NEW ths \in [Threads -> ThreadStates], \A u \in Threads : Shaped(ths[u]),
           NEW t \in Threads, ths[t].pc = "lock", NEW o \in Objects,
           NEW place \in {"limit", "call"}, NEW b \in BOOLEAN
    PROVE  LET n == LookedUp(ths, t, o, place, b)
           IN  /\ n \in [Threads -> ThreadStates]
               /\ \A u \in Threads : Shaped(n[u])
               /\ n[t].pc = place /\ n[t].obj = o
               /\ n[t].key = ths[t].key /\ n[t].config = ths[t].config
               /\ \A u \in Threads \ {t} :
                     /\ n[u].pc = ths[u].pc /\ n[u].key = ths[u].key
                     /\ n[u].obj = ths[u].obj /\ n[u].config = ths[u].config
                     /\ Holding(ths[u]) =>
                           /\ n[u].others = ths[u].others \cup {ths[t].key}
                           /\ ths[u].replaced \/ (b /\ ths[u].key = ths[t].key) => n[u].replaced
<1> DEFINE s == [ths[t] EXCEPT !.obj = o, !.wait = 0, !.pc = place]
           h == [ths EXCEPT ![t].obj = o, ![t].wait = 0, ![t].pc = place]
           k == ths[t].key
           note(x) == [x EXCEPT !.others = @ \cup {k}, !.replaced = @ \/ (b /\ x.key = k)]
           n == LookedUp(ths, t, o, place, b)
<1>1. ths[t] \in ThreadStates /\ k \in Keys /\ ths[t].config \in Configs /\ IsFiniteSet(ths[t].others)
  BY DEF Shaped
<1>2. h = [ths EXCEPT ![t] = s]
  OBVIOUS
<1>3. /\ s \in ThreadStates /\ s.pc = place /\ s.obj = o
      /\ s.key = k /\ s.config = ths[t].config /\ s.others = ths[t].others
  BY <1>1 DEF ThreadStates
<1>4. Shaped(s)
  <2> HIDE DEF s
  <2> QED
    BY <1>1, <1>3 DEF Shaped, Holding
<1> HIDE DEF s
<1>5. h \in [Threads -> ThreadStates] /\ h[t] = s /\ \A u \in Threads \ {t} : h[u] = ths[u]
  BY <1>2, <1>3
<1>6. n = [u \in Threads |-> IF u = t \/ ~Holding(h[u]) THEN h[u] ELSE note(h[u])]
  BY DEF LookedUp, Noted
<1>7. n[t] = s
  BY <1>5, <1>6
<1>8. ASSUME NEW u \in Threads \ {t}, ~Holding(ths[u])
      PROVE  n[u] = ths[u]
  BY <1>5, <1>6, <1>8
<1>9. ASSUME NEW u \in Threads \ {t}, Holding(ths[u])
      PROVE  /\ n[u] \in ThreadStates /\ Shaped(n[u])
             /\ n[u].pc = ths[u].pc /\ n[u].key = ths[u].key
             /\ n[u].obj = ths[u].obj /\ n[u].config = ths[u].config
             /\ n[u].others = ths[u].others \cup {k}
             /\ ths[u].replaced \/ (b /\ ths[u].key = k) => n[u].replaced
  <2> DEFINE x == ths[u]
             y == note(x)
  <2>1. n[u] = y
    BY ZenonT(30), <1>5, <1>6, <1>9
  <2>2. x \in ThreadStates /\ Shaped(x)
    OBVIOUS
  <2> HIDE DEF x
  <2>3. y.pc = x.pc /\ y.key = x.key /\ y.obj = x.obj /\ y.config = x.config /\ y.wait = x.wait
        /\ y.others = x.others \cup {k}
    BY <2>2 DEF ThreadStates
  <2>4. y.replaced = (x.replaced \/ (b /\ x.key = k))
    BY <2>2 DEF ThreadStates
  <2>5. y \in ThreadStates
    BY <1>1, <2>2 DEF ThreadStates
  <2>6. IsFiniteSet(y.others)
    <3>1. IsFiniteSet(x.others)
      BY <2>2 DEF Shaped
    <3>2. IsFiniteSet(x.others \cup {k})
      BY <3>1, FS_AddElement
    <3> QED
      BY <2>3, <3>2
  <2> HIDE DEF y
  <2>7. Shaped(y)
    BY <2>2, <2>3, <2>5, <2>6 DEF Shaped, Holding
  <2> QED
    BY <2>1, <2>3, <2>4, <2>5, <2>7 DEF x
<1> HIDE DEF n, h, note, k
<1>10. \A u \in Threads : n[u] \in ThreadStates /\ Shaped(n[u])
  BY <1>3, <1>4, <1>7, <1>8, <1>9
<1>11. n \in [Threads -> ThreadStates]
  BY <1>6, <1>10
<1> QED
  BY <1>3, <1>7, <1>8, <1>9, <1>10, <1>11 DEF n, k

----------------------------------------------------------------------------
(***************************************************************************)
(* The two outcomes of _get_limiter, in terms of the operators above.      *)
(***************************************************************************)
LEMMA FoundStep ==
    ASSUME MapInv, NEW t \in Threads, Found(t)
    PROVE  \E p \in 1..Len(limiters) : \E place \in {"limit", "call"} :
              /\ thread[t].pc = "lock" /\ lock = Nobody
              /\ limiters[p] \in Entries /\ limiters[p].key = thread[t].key
              /\ limiters' = Updated(limiters, limiters[p])
              /\ recency' = Touched(recency, limiters[p].key)
              /\ thread' = LookedUp(thread, t, limiters[p].obj, place, FALSE)
              /\ lock' = IF place = "limit" THEN t ELSE Nobody
              /\ place = "call" => heap[limiters[p].obj].tuned = thread[t].config
              /\ UNCHANGED <<config, heap>>
<1>1. PICK p \in Positions(thread[t].key) :
         LET e == limiters[p]
             retune == NeedsRetune(e.obj, thread[t].config)
         IN  /\ limiters' = Reinserted(e)
             /\ lock' = IF retune THEN t ELSE Nobody
             /\ thread' = Noted([thread EXCEPT ![t].obj = e.obj, ![t].wait = 0,
                                              ![t].pc = IF retune THEN "limit" ELSE "call"],
                               t, e.key, FALSE)
  BY DEF Found
<1> DEFINE e == limiters[p]
           place == IF NeedsRetune(e.obj, thread[t].config) THEN "limit" ELSE "call"
<1>2. p \in 1..Len(limiters) /\ e.key = thread[t].key /\ e \in Entries
  BY DEF Positions, MapInv, WellTyped
<1>3. limiters' = Updated(limiters, e)
  BY <1>1 DEF Reinserted, Updated, Positions, PlacesIn
<1>4. recency' = Touched(recency, e.key)
  BY <1>2 DEF Found, Touch, Uses, Touched, UsesIn
<1>5. thread' = LookedUp(thread, t, e.obj, place, FALSE)
  BY <1>1, <1>2 DEF LookedUp
<1>6. lock' = (IF place = "limit" THEN t ELSE Nobody)
  BY <1>1
<1>7. place = "call" => heap[e.obj].tuned = thread[t].config
  BY DEF NeedsRetune
<1>8. place \in {"limit", "call"}
  OBVIOUS
<1>9. thread[t].pc = "lock" /\ lock = Nobody /\ UNCHANGED <<config, heap>>
  BY DEF Found
<1> HIDE DEF place
<1> QED
  BY <1>2, <1>3, <1>4, <1>5, <1>6, <1>7, <1>8, <1>9

\* A created limiter, in terms of the operators above.
LEMMA CreatedStep ==
    ASSUME FacadeAssumption, MapInv, NEW t \in Threads, Created(t)
    PROVE  \E o \in Objects : \E e \in Entries : \E b \in BOOLEAN :
              /\ thread[t].pc = "lock" /\ lock = Nobody
              /\ e.key = thread[t].key /\ e.obj = o
              /\ b = (PlacesIn(limiters, e.key) # {})
              /\ \A i \in PlacesIn(limiters, e.key) : limiters[i].age >= KeyTTL
              /\ limiters' = Trimmed(Updated(limiters, e))
              /\ recency' = Touched(recency, e.key)
              /\ thread' = LookedUp(thread, t, o, "call", b)
              /\ heap' = Collect([heap EXCEPT ![o] = [limit |-> thread[t].config[1],
                                                      window |-> thread[t].config[2],
                                                      tuned |-> thread[t].config]],
                                 limiters', thread')
              /\ UNCHANGED <<config, lock>>
<1> DEFINE k == thread[t].key
           o == CHOOSE x \in Objects : x \notin Referenced(limiters, thread)
           e == [key |-> k, obj |-> o, age |-> thread[t].wait]
           b == k \in InMap
<1>1. thread[t].pc = "lock" /\ lock = Nobody /\ UNCHANGED <<config, lock>>
      /\ \A i \in Positions(k) : ~Alive(limiters[i], thread[t].wait)
  BY DEF Created
<1>2. thread[t] \in ThreadStates /\ k \in Keys /\ thread[t].wait \in Nat /\ limiters \in Seq(Entries)
  BY <1>1 DEF MapInv, WellTyped, Shaped, ThreadStates
<1>3. o \in Objects
  BY <1>2, FreshObject DEF MapInv, WellTyped, Ordered
<1>4. /\ limiters' = Trimmed(Append(Popped(limiters, Positions(k)), e))
      /\ thread' = Noted([thread EXCEPT ![t].obj = o, ![t].wait = 0, ![t].pc = "call"], t, k, b)
      /\ heap' = Collect([heap EXCEPT ![o] = [limit |-> thread[t].config[1],
                                              window |-> thread[t].config[2],
                                              tuned |-> thread[t].config]],
                         limiters', thread')
      /\ Touch(k)
  BY DEF Created
<1> HIDE DEF o
<1>5. e \in Entries /\ e.key = k /\ e.obj = o
  BY <1>2, <1>3 DEF Entries
<1>6. limiters' = Trimmed(Updated(limiters, e))
  BY <1>4, <1>5 DEF Updated, Positions, PlacesIn
<1>7. recency' = Touched(recency, e.key)
  BY <1>4, <1>5 DEF Touch, Uses, Touched, UsesIn
<1>8. thread' = LookedUp(thread, t, o, "call", b)
  BY <1>4 DEF LookedUp
<1>9. b = (PlacesIn(limiters, e.key) # {}) /\ b \in BOOLEAN
  BY <1>5 DEF InMap, PlacesIn
<1>10. \A i \in PlacesIn(limiters, e.key) : limiters[i].age >= KeyTTL
  <2> SUFFICES ASSUME NEW i \in PlacesIn(limiters, e.key) PROVE limiters[i].age >= KeyTTL
    OBVIOUS
  <2>1. i \in 1..Len(limiters) /\ i \in Positions(k)
    BY <1>5 DEF PlacesIn, Positions
  <2>2. limiters[i].age \in Nat /\ KeyTTL \in Nat
    <3>1. limiters[i] \in Entries
      BY <1>2, <2>1
    <3> QED
      BY <3>1 DEF Entries, FacadeAssumption
  <2>3. ~(limiters[i].age - thread[t].wait < KeyTTL)
    BY <1>1, <2>1 DEF Alive
  <2> QED
    BY <1>2, <2>2, <2>3
<1> HIDE DEF e, b
<1> QED
  BY <1>1, <1>3, <1>4, <1>5, <1>6, <1>7, <1>8, <1>9, <1>10

----------------------------------------------------------------------------
(***************************************************************************)
(* Typing is preserved, and so is the order of the map.                    *)
(***************************************************************************)
LEMMA NewObject ==
    ASSUME NEW c \in Configs
    PROVE  [limit |-> c[1], window |-> c[2], tuned |-> c] \in ObjectStates
  BY DEF ObjectStates, Limits, Windows

\* Collection keeps the objects that are referred to and blanks the others.
LEMMA Collected ==
    ASSUME NEW h \in [Objects -> ObjectStates], NEW m, NEW ths
    PROVE  /\ Collect(h, m, ths) \in [Objects -> ObjectStates]
           /\ \A o \in Objects : Collect(h, m, ths)[o] \in {h[o], Blank}
           /\ \A o \in Objects \cap Referenced(m, ths) : Collect(h, m, ths)[o] = h[o]
<1>1. Blank \in ObjectStates
  BY DEF Blank, ObjectStates
<1> QED
  BY <1>1 DEF Collect

\* A thread without a call is well formed.
LEMMA IdleShaped == Shaped(Idle)
<1>1. Idle \in ThreadStates /\ Idle.pc = "idle" /\ Idle.others = {}
  BY DEF Idle, ThreadStates
<1>2. IsFiniteSet({})
  BY FS_EmptySet
<1> QED
  BY <1>1, <1>2 DEF Shaped, Holding

\* A thread's own step, when it holds no limiter before or after it, or the same one
LEMMA ThreadSteps ==
    ASSUME NEW ths \in [Threads -> ThreadStates], \A u \in Threads : Shaped(ths[u]),
           NEW t \in Threads, NEW s, Shaped(s)
    PROVE  /\ [ths EXCEPT ![t] = s] \in [Threads -> ThreadStates]
           /\ \A u \in Threads : Shaped([ths EXCEPT ![t] = s][u])
           /\ [ths EXCEPT ![t] = s][t] = s
           /\ \A u \in Threads \ {t} : [ths EXCEPT ![t] = s][u] = ths[u]
<1>1. s \in ThreadStates
  BY DEF Shaped
<1> QED
  BY <1>1

\* A call that goes on keeps what it holds.
LEMMA Moves ==
    ASSUME NEW s, Shaped(s), s.pc # "idle", NEW place \in {"lock", "limit", "window", "call"},
           Holding(s) \/ place = "lock"
    PROVE  /\ Shaped([s EXCEPT !.pc = place])
           /\ [s EXCEPT !.pc = place].pc = place
           /\ [s EXCEPT !.pc = place].key = s.key
           /\ [s EXCEPT !.pc = place].obj = s.obj
           /\ [s EXCEPT !.pc = place].config = s.config
           /\ [s EXCEPT !.pc = place].others = s.others
           /\ [s EXCEPT !.pc = place].replaced = s.replaced
<1> DEFINE n == [s EXCEPT !.pc = place]
<1>1. s \in ThreadStates
  BY DEF Shaped
<1>2. /\ n \in ThreadStates /\ n.pc = place /\ n.key = s.key /\ n.obj = s.obj
      /\ n.config = s.config /\ n.others = s.others /\ n.replaced = s.replaced
  BY <1>1 DEF ThreadStates
<1> HIDE DEF n
<1>3. Shaped(n)
  BY <1>2 DEF Shaped, Holding
<1> QED
  BY <1>2, <1>3 DEF n

(***************************************************************************)
(* The steps that leave the map alone.                                     *)
(***************************************************************************)
LEMMA ResolveStep ==
    ASSUME WellTyped, NEW t \in Threads, NEW k \in Keys, Resolve(t, k)
    PROVE  \E s :
              /\ Shaped(s) /\ s.pc = "lock"
              /\ thread[t].pc = "idle" /\ thread' = [thread EXCEPT ![t] = s]
<1> DEFINE s == [Idle EXCEPT !.pc = "lock", !.key = k, !.config = RouteConfig]
<1>1. config \in Configs
  BY DEF WellTyped
<1>2. s \in ThreadStates /\ s.pc = "lock" /\ s.key = k /\ s.config = config /\ s.others = {}
  BY <1>1 DEF Idle, RouteConfig, ThreadStates
<1>3. thread[t].pc = "idle" /\ thread' = [thread EXCEPT ![t] = s]
  BY DEF Resolve
<1> HIDE DEF s
<1>4. Shaped(s)
  BY <1>1, <1>2, FS_EmptySet DEF Shaped, Holding
<1> QED
  BY <1>2, <1>3, <1>4

\* The first assignment of _retune,
LEMMA RetuneLimitStep ==
    ASSUME NEW t \in Threads, RetuneLimit(t)
    PROVE  /\ thread[t].pc = "limit" /\ thread' = [thread EXCEPT ![t] = [thread[t] EXCEPT !.pc = "window"]]
           /\ heap' = [heap EXCEPT ![thread[t].obj] =
                          [heap[thread[t].obj] EXCEPT !.limit = thread[t].config[1]]]
           /\ UNCHANGED <<config, limiters, lock, recency>>
  BY DEF RetuneLimit

\* the second, with the mark and the end of the lock,
LEMMA RetuneWindowStep ==
    ASSUME NEW t \in Threads, RetuneWindow(t)
    PROVE  /\ thread[t].pc = "window" /\ thread' = [thread EXCEPT ![t] = [thread[t] EXCEPT !.pc = "call"]]
           /\ heap' = [heap EXCEPT ![thread[t].obj] = Rewritten(t)] /\ lock' = Nobody
           /\ UNCHANGED <<config, limiters, recency>>
  BY DEF RetuneWindow

\* and the clock, which only makes entries and waits older.
LEMMA TickStep ==
    ASSUME FacadeAssumption, WellTyped, Tick
    PROVE  /\ limiters' \in Seq(Entries) /\ Len(limiters') = Len(limiters)
           /\ \A i \in 1..Len(limiters) :
                 limiters'[i].key = limiters[i].key /\ limiters'[i].obj = limiters[i].obj
           /\ thread' \in [Threads -> ThreadStates]
           /\ \A u \in Threads :
                 /\ Shaped(thread'[u])
                 /\ thread'[u].pc = thread[u].pc /\ thread'[u].key = thread[u].key
                 /\ thread'[u].obj = thread[u].obj /\ thread'[u].config = thread[u].config
                 /\ thread'[u].others = thread[u].others
                 /\ thread'[u].replaced = thread[u].replaced
           /\ UNCHANGED <<config, heap, lock, recency>>
<1>1. limiters \in Seq(Entries) /\ Len(limiters) \in Nat
  BY DEF WellTyped
<1> DEFINE older(e) == [e EXCEPT !.age = Older(@)]
<1>2. ASSUME NEW e \in Entries
      PROVE  older(e) \in Entries /\ older(e).key = e.key /\ older(e).obj = e.obj
  <2>1. e.age \in Nat
    BY DEF Entries
  <2>2. Older(e.age) \in Nat
    BY <2>1 DEF Older
  <2> QED
    BY <2>2 DEF Entries
<1>3. limiters' = [i \in 1..Len(limiters) |-> older(limiters[i])]
  BY DEF Tick
<1> HIDE DEF older
<1>4. \A i \in 1..Len(limiters) : limiters[i] \in Entries
  BY <1>1
<1>5. limiters' \in Seq(Entries) /\ Len(limiters') = Len(limiters)
  BY <1>1, <1>2, <1>3, <1>4
<1>6. \A i \in 1..Len(limiters) :
         limiters'[i].key = limiters[i].key /\ limiters'[i].obj = limiters[i].obj
  BY <1>2, <1>3, <1>4
<1> DEFINE later(s) == [s EXCEPT !.wait = @ + 1]
<1>7. ASSUME NEW s, Shaped(s)
      PROVE  /\ Shaped(later(s)) /\ later(s) \in ThreadStates
             /\ later(s).pc = s.pc /\ later(s).key = s.key /\ later(s).obj = s.obj
             /\ later(s).config = s.config /\ later(s).others = s.others
             /\ later(s).replaced = s.replaced
  <2>1. s \in ThreadStates
    BY <1>7 DEF Shaped
  <2> DEFINE n == later(s)
  <2>2. s.wait + 1 \in Nat
    BY <2>1 DEF ThreadStates
  <2>3. /\ n \in ThreadStates /\ n.pc = s.pc /\ n.key = s.key /\ n.obj = s.obj
        /\ n.config = s.config /\ n.others = s.others /\ n.replaced = s.replaced
    BY <2>1, <2>2 DEF ThreadStates
  <2> HIDE DEF n
  <2>4. Shaped(n)
    BY <1>7, <2>3 DEF Shaped, Holding
  <2> QED
    BY <2>3, <2>4 DEF n
<1>8. thread' = [u \in Threads |-> IF thread[u].pc = "lock" THEN later(thread[u]) ELSE thread[u]]
  BY DEF Tick
<1>9. \A u \in Threads : Shaped(thread[u]) /\ thread[u] \in ThreadStates
  BY DEF WellTyped, Shaped
<1> HIDE DEF later
<1>10. ASSUME NEW u \in Threads
       PROVE  /\ Shaped(thread'[u]) /\ thread'[u] \in ThreadStates
              /\ thread'[u].pc = thread[u].pc /\ thread'[u].key = thread[u].key
              /\ thread'[u].obj = thread[u].obj /\ thread'[u].config = thread[u].config
              /\ thread'[u].others = thread[u].others
              /\ thread'[u].replaced = thread[u].replaced
  BY <1>7, <1>8, <1>9
<1>11. thread' \in [Threads -> ThreadStates]
  BY <1>8, <1>10
<1>12. UNCHANGED <<config, heap, lock, recency>>
  BY DEF Tick
<1> QED
  BY <1>5, <1>6, <1>10, <1>11, <1>12

(***************************************************************************)
(* The map and the order of use: typed, without repetition, and one the    *)
(* end of the other.                                                       *)
(***************************************************************************)
LEMMA MapInit == FacadeAssumption /\ Init => MapInv
<1> SUFFICES ASSUME FacadeAssumption, Init PROVE MapInv
  OBVIOUS
<1>1. Blank \in ObjectStates
  BY DEF Blank, ObjectStates
<1>2. WellTyped
  <2>1. \A t \in Threads : thread[t] = Idle
    BY DEF Init
  <2>2. Idle \in ThreadStates
    BY IdleShaped DEF Shaped
  <2>3. thread \in [Threads -> ThreadStates] /\ \A t \in Threads : Shaped(thread[t])
    BY <2>1, <2>2, IdleShaped DEF Init
  <2>4. limiters \in Seq(Entries) /\ recency \in Seq(Keys) /\ heap \in [Objects -> ObjectStates]
    BY <1>1 DEF Init
  <2> QED
    BY <2>3, <2>4 DEF WellTyped, Init
<1>3. Len(limiters) = 0 /\ Len(recency) = 0 /\ MaxKeys \in Nat
  BY DEF Init, FacadeAssumption
<1>4. Ordered
  BY <1>3 DEF Ordered, Distinct, Recent
<1> QED
  BY <1>2, <1>4 DEF MapInv

\* A hit keeps the map in the order of use,
LEMMA MapFound ==
    ASSUME FacadeAssumption, MapInv, NEW t \in Threads, Found(t)
    PROVE  MapInv'
<1>1. PICK p \in 1..Len(limiters), place \in {"limit", "call"} :
         /\ thread[t].pc = "lock" /\ lock = Nobody
         /\ limiters[p] \in Entries /\ limiters[p].key = thread[t].key
         /\ limiters' = Updated(limiters, limiters[p])
         /\ recency' = Touched(recency, limiters[p].key)
         /\ thread' = LookedUp(thread, t, limiters[p].obj, place, FALSE)
         /\ lock' = IF place = "limit" THEN t ELSE Nobody
         /\ UNCHANGED <<config, heap>>
  BY FoundStep
<1> DEFINE e == limiters[p]
<1>2. e \in Entries /\ e.key \in Keys /\ e.obj \in Objects
  BY <1>1 DEF Entries
<1>3. /\ limiters \in Seq(Entries) /\ recency \in Seq(Keys) /\ Distinct(recency)
      /\ Recent(limiters, recency) /\ Len(limiters) <= MaxKeys /\ MaxKeys \in Nat
      /\ thread \in [Threads -> ThreadStates] /\ \A u \in Threads : Shaped(thread[u])
  BY DEF MapInv, WellTyped, Ordered, FacadeAssumption
<1>4. thread' \in [Threads -> ThreadStates] /\ \A u \in Threads : Shaped(thread'[u])
  <2>1. PICK b \in BOOLEAN : thread' = LookedUp(thread, t, e.obj, place, b)
    BY <1>1
  <2>2. /\ thread[t].pc = "lock" /\ thread \in [Threads -> ThreadStates]
        /\ \A u \in Threads : Shaped(thread[u])
    BY <1>1, <1>3
  <2> HIDE DEF e
  <2> QED
    BY <1>2, <2>1, <2>2, LookedUpIs
<1>5. recency' \in Seq(Keys) /\ Distinct(recency')
  BY <1>1, <1>2, <1>3, TouchedDistinct
<1>6. limiters' \in Seq(Entries)
  BY <1>1, <1>2, <1>3, UpdatedHolds
<1>7. Recent(limiters', recency')
  BY <1>1, <1>2, <1>3, RecentUpdated
<1>8. Len(limiters') = Len(limiters)
  <2>1. PlacesIn(limiters, e.key) = {p}
    BY <1>3, OnePlace
  <2> QED
    BY <1>1, <1>2, <1>3, <2>1, UpdatedAgain
<1>9. lock' \in Threads \cup {Nobody}
  BY <1>1
<1>10. WellTyped'
  BY <1>1, <1>4, <1>5, <1>6, <1>9 DEF MapInv, WellTyped
<1>11. Ordered'
  BY <1>3, <1>5, <1>7, <1>8 DEF Ordered
<1> QED
  BY <1>10, <1>11 DEF MapInv

\* and so does a new limiter,
LEMMA MapCreated ==
    ASSUME FacadeAssumption, MapInv, NEW t \in Threads, Created(t)
    PROVE  MapInv'
<1>1. PICK o \in Objects, e \in Entries, b \in BOOLEAN :
         /\ thread[t].pc = "lock" /\ lock = Nobody
         /\ e.key = thread[t].key /\ e.obj = o
         /\ limiters' = Trimmed(Updated(limiters, e))
         /\ recency' = Touched(recency, e.key)
         /\ thread' = LookedUp(thread, t, o, "call", b)
         /\ heap' = Collect([heap EXCEPT ![o] = [limit |-> thread[t].config[1],
                                                 window |-> thread[t].config[2],
                                                 tuned |-> thread[t].config]],
                            limiters', thread')
         /\ UNCHANGED <<config, lock>>
  BY CreatedStep
<1>2. e.key \in Keys
  BY DEF Entries
<1>3. /\ limiters \in Seq(Entries) /\ recency \in Seq(Keys) /\ Distinct(recency)
      /\ Recent(limiters, recency) /\ MaxKeys \in Nat \ {0}
      /\ thread \in [Threads -> ThreadStates] /\ \A u \in Threads : Shaped(thread[u])
      /\ heap \in [Objects -> ObjectStates] /\ thread[t].config \in Configs
  BY <1>1 DEF MapInv, WellTyped, Ordered, FacadeAssumption, Shaped
<1>4. thread' \in [Threads -> ThreadStates] /\ \A u \in Threads : Shaped(thread'[u])
  BY <1>1, <1>2, <1>3, LookedUpIs
<1>5. recency' \in Seq(Keys) /\ Distinct(recency')
  BY <1>1, <1>2, <1>3, TouchedDistinct
<1> DEFINE u == Updated(limiters, e)
<1>6. u \in Seq(Entries) /\ Recent(u, recency')
  <2>1. u \in Seq(Entries)
    BY <1>3, UpdatedHolds
  <2>2. Recent(u, Touched(recency, e.key))
    BY <1>3, RecentUpdated
  <2> QED
    BY <1>1, <2>1, <2>2
<1> HIDE DEF u
<1>7. Trimmed(u) \in Seq(Entries) /\ Len(Trimmed(u)) <= MaxKeys /\ Recent(Trimmed(u), recency')
  BY <1>3, <1>5, <1>6, TrimmedRecent
<1>8. limiters' = Trimmed(u)
  BY <1>1 DEF u
<1>9. heap' \in [Objects -> ObjectStates]
  <2> DEFINE new == [limit |-> thread[t].config[1], window |-> thread[t].config[2],
                     tuned |-> thread[t].config]
  <2>1. new \in ObjectStates
    BY <1>3, NewObject
  <2> HIDE DEF new
  <2>2. [heap EXCEPT ![o] = new] \in [Objects -> ObjectStates]
    BY <1>3, <2>1
  <2>3. Collect([heap EXCEPT ![o] = new], limiters', thread') \in [Objects -> ObjectStates]
    BY <2>2, Collected
  <2> QED
    BY <1>1, <2>3 DEF new
<1>10. WellTyped'
  BY <1>1, <1>4, <1>5, <1>7, <1>8, <1>9 DEF MapInv, WellTyped
<1>11. Ordered'
  BY <1>5, <1>7, <1>8 DEF Ordered
<1> QED
  BY <1>10, <1>11 DEF MapInv

\* and every step.
LEMMA MapStep ==
    ASSUME FacadeAssumption, MapInv, [Next]_vars
    PROVE  MapInv'
<1>1. /\ config \in Configs /\ limiters \in Seq(Entries) /\ heap \in [Objects -> ObjectStates]
      /\ lock \in Threads \cup {Nobody} /\ recency \in Seq(Keys)
      /\ thread \in [Threads -> ThreadStates] /\ \A u \in Threads : Shaped(thread[u])
  BY DEF MapInv, WellTyped
<1>2. Ordered /\ WellTyped
  BY DEF MapInv
<1>3. ASSUME NEW t \in Threads, NEW k \in Keys, Resolve(t, k) PROVE MapInv'
  <2>1. PICK s : Shaped(s) /\ thread' = [thread EXCEPT ![t] = s]
    BY <1>2, <1>3, ResolveStep
  <2>2. thread' \in [Threads -> ThreadStates] /\ \A u \in Threads : Shaped(thread'[u])
    BY <1>1, <2>1, ThreadSteps
  <2>3. UNCHANGED <<config, limiters, heap, lock, recency>>
    BY <1>3 DEF Resolve
  <2>4. WellTyped'
    BY <1>1, <2>2, <2>3 DEF WellTyped
  <2>5. Ordered'
    BY <1>2, <2>3 DEF Ordered
  <2> QED
    BY <2>4, <2>5 DEF MapInv
<1>4. ASSUME NEW t \in Threads, RetuneLimit(t) PROVE MapInv'
  <2> DEFINE s == [thread[t] EXCEPT !.pc = "window"]
             o == thread[t].obj
             h == [heap[o] EXCEPT !.limit = thread[t].config[1]]
  <2>1. /\ thread[t].pc = "limit" /\ thread' = [thread EXCEPT ![t] = s]
        /\ heap' = [heap EXCEPT ![o] = h] /\ UNCHANGED <<config, limiters, lock, recency>>
    BY <1>4, RetuneLimitStep
  <2>2. o \in Objects /\ thread[t].config \in Configs /\ Shaped(s)
    BY <1>1, <2>1, Moves DEF Shaped, Holding
  <2>3. h \in ObjectStates
    <3>1. heap[o] \in ObjectStates
      BY <1>1, <2>2
    <3> QED
      BY <2>2, <3>1 DEF ObjectStates, Limits
  <2> HIDE DEF s, h
  <2>4. thread' \in [Threads -> ThreadStates] /\ \A u \in Threads : Shaped(thread'[u])
    BY <1>1, <2>1, <2>2, ThreadSteps
  <2>5. heap' \in [Objects -> ObjectStates]
    BY <1>1, <2>1, <2>2, <2>3
  <2>6. WellTyped'
    BY <1>1, <2>1, <2>4, <2>5 DEF WellTyped
  <2>7. Ordered'
    BY <1>2, <2>1 DEF Ordered
  <2> QED
    BY <2>6, <2>7 DEF MapInv
<1>5. ASSUME NEW t \in Threads, RetuneWindow(t) PROVE MapInv'
  <2> DEFINE s == [thread[t] EXCEPT !.pc = "call"]
             o == thread[t].obj
             h == Rewritten(t)
  <2>1. /\ thread[t].pc = "window" /\ thread' = [thread EXCEPT ![t] = s]
        /\ heap' = [heap EXCEPT ![o] = h] /\ lock' = Nobody /\ UNCHANGED <<config, limiters, recency>>
    BY <1>5, RetuneWindowStep
  <2>2. o \in Objects /\ thread[t].config \in Configs /\ Shaped(s)
    BY <1>1, <2>1, Moves DEF Shaped, Holding
  <2>3. h \in ObjectStates
    <3>1. heap[o] \in ObjectStates
      BY <1>1, <2>2
    <3> QED
      BY <2>2, <3>1 DEF Rewritten, ObjectStates, Windows
  <2> HIDE DEF s, h
  <2>4. thread' \in [Threads -> ThreadStates] /\ \A u \in Threads : Shaped(thread'[u])
    BY <1>1, <2>1, <2>2, ThreadSteps
  <2>5. heap' \in [Objects -> ObjectStates]
    BY <1>1, <2>1, <2>2, <2>3
  <2>6. WellTyped'
    BY <1>1, <2>1, <2>4, <2>5 DEF WellTyped
  <2>7. Ordered'
    BY <1>2, <2>1 DEF Ordered
  <2> QED
    BY <2>6, <2>7 DEF MapInv
<1>6. ASSUME NEW t \in Threads, Call(t) PROVE MapInv'
  <2>1. /\ thread' = [thread EXCEPT ![t] = Idle] /\ heap' = Collect(heap, limiters, thread')
        /\ UNCHANGED <<config, limiters, lock, recency>>
    BY <1>6 DEF Call
  <2>2. thread' \in [Threads -> ThreadStates] /\ \A u \in Threads : Shaped(thread'[u])
    BY <1>1, <2>1, IdleShaped, ThreadSteps
  <2>3. heap' \in [Objects -> ObjectStates]
    BY <1>1, <2>1, Collected
  <2>4. WellTyped'
    BY <1>1, <2>1, <2>2, <2>3 DEF WellTyped
  <2>5. Ordered'
    BY <1>2, <2>1 DEF Ordered
  <2> QED
    BY <2>4, <2>5 DEF MapInv
<1>7. ASSUME NEW c \in Configs, Reconfigure(c) PROVE MapInv'
  BY <1>1, <1>2, <1>7 DEF Reconfigure, MapInv, WellTyped, Ordered
<1>8. ASSUME Tick PROVE MapInv'
  <2>1. /\ limiters' \in Seq(Entries) /\ Len(limiters') = Len(limiters)
        /\ \A i \in 1..Len(limiters) : limiters'[i].key = limiters[i].key
        /\ thread' \in [Threads -> ThreadStates] /\ \A u \in Threads : Shaped(thread'[u])
        /\ UNCHANGED <<config, heap, lock, recency>>
    BY <1>2, <1>8, TickStep
  <2>2. WellTyped'
    BY <1>1, <2>1 DEF WellTyped
  <2>3. Recent(limiters', recency')
    BY <1>2, <2>1 DEF Ordered, Recent
  <2>4. Ordered'
    BY <1>2, <2>1, <2>3 DEF Ordered
  <2> QED
    BY <2>2, <2>4 DEF MapInv
<1>9. CASE UNCHANGED vars
  BY <1>1, <1>2, <1>9 DEF vars, MapInv, WellTyped, Ordered
<1> QED
  BY <1>3, <1>4, <1>5, <1>6, <1>7, <1>8, <1>9, MapFound, MapCreated DEF Next

(***************************************************************************)
(* The map holds the most recently used keys and at most max_keys of them: *)
(* popping a key and putting its entry at the end, in _get_limiter, moves  *)
(* it exactly as its use does, and popitem drops the one used longest ago. *)
(***************************************************************************)
THEOREM MapIsMostRecent == Spec => []LeastRecentlyUsedGoes
<1>1. Init => MapInv
  BY MapInit, FacadeAssumption
<1>2. MapInv /\ [Next]_vars => MapInv'
  BY MapStep, FacadeAssumption
<1>3. MapInv => LeastRecentlyUsedGoes
  BY DEF MapInv, Ordered, Recent, LeastRecentlyUsedGoes
<1> QED
  BY <1>1, <1>2, <1>3, PTL DEF Spec

----------------------------------------------------------------------------
(***************************************************************************)
(* The limiter of a key, in the map m: the set of it, or the empty set.    *)
(***************************************************************************)
ObjectsIn(m, k) == {m[i].obj : i \in PlacesIn(m, k)}

\* An updated map has the new object under its key and the old ones under the others.
LEMMA ObjectsUpdated ==
    ASSUME NEW m \in Seq(Entries), NEW r \in Seq(Keys), Distinct(r), Recent(m, r),
           NEW e \in Entries
    PROVE  /\ ObjectsIn(Updated(m, e), e.key) = {e.obj}
           /\ \A k : k # e.key => ObjectsIn(Updated(m, e), k) = ObjectsIn(m, k)
<1> DEFINE u == Updated(m, e)
           z == Len(u)
<1>1. /\ u \in Seq(Entries) /\ z \in 1..(Len(m) + 1) /\ u[z] = e
      /\ \A i \in 1..Len(m) : m[i].key # e.key => \E j \in 1..z : u[j] = m[i]
      /\ \A j \in 1..z : j # z => \E i \in 1..Len(m) : u[j] = m[i] /\ m[i].key # e.key
  BY UpdatedHolds
<1> HIDE DEF u
<1>2. z \in Nat /\ z \in 1..z
  BY <1>1
<1> HIDE DEF z
<1>3. PlacesIn(u, e.key) = {z}
  BY <1>1, <1>2 DEF PlacesIn, z
<1>4. ObjectsIn(u, e.key) = {e.obj}
  BY <1>1, <1>3 DEF ObjectsIn
<1>5. ASSUME NEW k, k # e.key
      PROVE  ObjectsIn(u, k) = ObjectsIn(m, k)
  <2>1. ASSUME NEW o \in ObjectsIn(u, k) PROVE o \in ObjectsIn(m, k)
    <3>1. PICK j \in 1..z : u[j].key = k /\ u[j].obj = o
      BY <2>1 DEF ObjectsIn, PlacesIn, z
    <3>2. PICK i \in 1..Len(m) : u[j] = m[i]
      BY <1>1, <1>5, <3>1
    <3>3. i \in PlacesIn(m, k) /\ m[i].obj = o
      BY <3>1, <3>2 DEF PlacesIn
    <3> QED
      BY <3>3 DEF ObjectsIn
  <2>2. ASSUME NEW o \in ObjectsIn(m, k) PROVE o \in ObjectsIn(u, k)
    <3>1. PICK i \in 1..Len(m) : m[i].key = k /\ m[i].obj = o
      BY <2>2 DEF ObjectsIn, PlacesIn
    <3>2. PICK j \in 1..z : u[j] = m[i]
      BY <1>1, <1>5, <3>1
    <3>3. j \in PlacesIn(u, k) /\ u[j].obj = o
      BY <3>1, <3>2 DEF PlacesIn, z
    <3> QED
      BY <3>3 DEF ObjectsIn
  <2> QED
    BY <2>1, <2>2
<1> QED
  BY <1>4, <1>5 DEF u

\* Dropping the front changes nothing for a key that is not there.
LEMMA ObjectsTrimmed ==
    ASSUME NEW u \in Seq(Entries), NEW v \in Seq(Entries), NEW n \in Nat,
           Len(v) = Len(u) - n, \A i \in 1..(Len(u) - n) : v[i] = u[n + i],
           NEW k, \A i \in 1..Len(u) : i <= n => u[i].key # k
    PROVE  ObjectsIn(v, k) = ObjectsIn(u, k)
<1>1. Len(u) \in Nat /\ Len(v) \in Nat
  OBVIOUS
<1>2. ASSUME NEW o \in ObjectsIn(v, k) PROVE o \in ObjectsIn(u, k)
  <2>1. PICK i \in 1..Len(v) : v[i].key = k /\ v[i].obj = o
    BY <1>2 DEF ObjectsIn, PlacesIn
  <2>2. n + i \in 1..Len(u) /\ v[i] = u[n + i]
    BY <1>1
  <2>3. n + i \in PlacesIn(u, k)
    BY <2>1, <2>2 DEF PlacesIn
  <2> QED
    BY <2>1, <2>2, <2>3 DEF ObjectsIn
<1>3. ASSUME NEW o \in ObjectsIn(u, k) PROVE o \in ObjectsIn(v, k)
  <2>1. PICK j \in 1..Len(u) : u[j].key = k /\ u[j].obj = o
    BY <1>3 DEF ObjectsIn, PlacesIn
  <2> DEFINE i == j - n
  <2>2. ~(j <= n)
    BY <2>1
  <2>3. i \in 1..Len(v) /\ n + i = j
    BY <1>1, <2>2
  <2> HIDE DEF i
  <2>4. v[i] = u[j]
    BY <2>3
  <2>5. i \in PlacesIn(v, k)
    BY <2>1, <2>3, <2>4 DEF PlacesIn
  <2> QED
    BY <2>1, <2>4, <2>5 DEF ObjectsIn
<1> QED
  BY <1>2, <1>3

(***************************************************************************)
(* Creating a limiter drops nobody else's, but that of the first entry of  *)
(* a full map.                                                             *)
(***************************************************************************)
LEMMA OnlyFirstGoes ==
    ASSUME NEW m \in Seq(Entries), NEW r \in Seq(Keys), Distinct(r), Recent(m, r),
           MaxKeys \in Nat \ {0}, Len(m) <= MaxKeys, NEW e \in Entries, NEW k, k # e.key
    PROVE  \/ ObjectsIn(Trimmed(Updated(m, e)), k) = ObjectsIn(m, k)
           \/ /\ Len(m) = MaxKeys /\ m[1].key = k
              /\ Len(Trimmed(Updated(m, e))) = MaxKeys /\ PlacesIn(Trimmed(Updated(m, e)), k) = {}
<1> DEFINE u == Updated(m, e)
           v == Trimmed(u)
<1>1. Len(m) \in Nat /\ MaxKeys \in Nat /\ 1 <= MaxKeys
  OBVIOUS
<1>2. u \in Seq(Entries) /\ Len(u) \in 1..(Len(m) + 1)
  BY UpdatedHolds
<1>3. ObjectsIn(u, k) = ObjectsIn(m, k)
  BY ObjectsUpdated
<1> HIDE DEF u
<1>4. PICK n \in Nat :
         /\ n = IF Len(u) > MaxKeys THEN Len(u) - MaxKeys ELSE 0
         /\ v \in Seq(Entries) /\ Len(v) = Len(u) - n
         /\ \A i \in 1..(Len(u) - n) : v[i] = u[n + i]
  BY <1>2, TrimmedIs
<1> HIDE DEF v
<1>5. CASE n = 0
  <2>1. \A i \in 1..Len(u) : ~(i <= n)
    BY <1>2, <1>5
  <2>2. ObjectsIn(v, k) = ObjectsIn(u, k)
    BY <1>2, <1>4, <2>1, ObjectsTrimmed
  <2> QED
    BY <1>3, <2>2 DEF u, v
<1>6. CASE n # 0
  <2>1. Len(m) = MaxKeys /\ Len(u) = Len(m) + 1 /\ n = 1 /\ Len(v) = MaxKeys
    BY <1>1, <1>2, <1>4, <1>6
  <2>2. PlacesIn(m, e.key) = {}
    <3> SUFFICES ASSUME NEW p \in PlacesIn(m, e.key) PROVE FALSE
      OBVIOUS
    <3>1. p \in 1..Len(m) /\ m[p].key = e.key
      BY DEF PlacesIn
    <3>2. PlacesIn(m, m[p].key) = {p}
      BY <3>1, OnePlace
    <3>3. Len(u) = Len(m)
      BY <3>1, <3>2, UpdatedAgain DEF u
    <3> QED
      BY <1>1, <2>1, <3>3
  <2>3. u[1] = m[1]
    BY <1>1, <2>1, <2>2, UpdatedNew DEF u
  <2>4. CASE m[1].key = k
    <3>1. \A i, j \in 1..Len(u) : u[i].key = u[j].key => i = j
      <4>1. /\ Touched(r, e.key) \in Seq(Keys) /\ Distinct(Touched(r, e.key))
            /\ Recent(u, Touched(r, e.key))
        BY TouchedDistinct, RecentUpdated DEF u, Entries
      <4> QED
        BY <1>2, <4>1, KeysOnce
    <3>2. ASSUME NEW i \in PlacesIn(v, k) PROVE FALSE
      <4>1. i \in 1..Len(v) /\ v[i].key = k
        BY <3>2 DEF PlacesIn
      <4>2. n + i \in 1..Len(u) /\ 1 \in 1..Len(u) /\ n + i # 1
        BY <1>1, <2>1, <4>1
      <4>3. u[n + i].key = u[1].key
        BY <1>4, <2>1, <2>3, <2>4, <4>1
      <4> QED
        BY <3>1, <4>2, <4>3
    <3> QED
      BY <2>1, <2>4, <3>2 DEF u, v
  <2>5. CASE m[1].key # k
    <3>1. \A i \in 1..Len(u) : i <= n => u[i].key # k
      <4> SUFFICES ASSUME NEW i \in 1..Len(u), i <= n PROVE u[i].key # k
        OBVIOUS
      <4>1. i = 1
        BY <1>2, <2>1
      <4> QED
        BY <2>3, <2>5, <4>1
    <3>2. ObjectsIn(v, k) = ObjectsIn(u, k)
      BY SMTT(30), <1>2, <1>4, <3>1, ObjectsTrimmed
    <3> QED
      BY <1>3, <3>2 DEF u, v
  <2> QED
    BY <2>4, <2>5
<1> QED
  BY <1>5, <1>6

\* In no step a key loses its object, but for the two rules of eviction.
LEMMA ObjectSurvives ==
    ASSUME FacadeAssumption, MapInv, [Next]_vars, NEW k \in InMap
    PROVE  \/ ObjectOf(k)' = ObjectOf(k)
           \/ limiters[1].key = k /\ Len(limiters) = MaxKeys
           \/ \E i \in Positions(k) : limiters[i].age >= KeyTTL
<1>1. /\ limiters \in Seq(Entries) /\ recency \in Seq(Keys) /\ Distinct(recency)
      /\ Recent(limiters, recency) /\ Len(limiters) <= MaxKeys /\ MaxKeys \in Nat \ {0}
  BY DEF MapInv, WellTyped, Ordered, FacadeAssumption
<1>2. ObjectOf(k) = ObjectsIn(limiters, k) /\ ObjectOf(k)' = ObjectsIn(limiters', k)
  BY DEF ObjectOf, ObjectsIn, Positions, PlacesIn
<1>3. ASSUME NEW t \in Threads, Found(t) PROVE ObjectOf(k)' = ObjectOf(k)
  <2>1. PICK p \in 1..Len(limiters), place \in {"limit", "call"} :
           limiters[p] \in Entries /\ limiters' = Updated(limiters, limiters[p])
    BY <1>3, FoundStep
  <2> DEFINE e == limiters[p]
  <2>2. /\ ObjectsIn(limiters', e.key) = {e.obj}
        /\ \A x : x # e.key => ObjectsIn(limiters', x) = ObjectsIn(limiters, x)
    BY <1>1, <2>1, ObjectsUpdated
  <2>3. ObjectsIn(limiters, e.key) = {e.obj}
    <3>1. PlacesIn(limiters, e.key) = {p}
      BY <1>1, OnePlace
    <3> QED
      BY <3>1 DEF ObjectsIn
  <2> QED
    BY <1>2, <2>2, <2>3
<1>4. ASSUME NEW t \in Threads, Created(t)
      PROVE  \/ ObjectOf(k)' = ObjectOf(k)
             \/ limiters[1].key = k /\ Len(limiters) = MaxKeys
             \/ \E i \in Positions(k) : limiters[i].age >= KeyTTL
  <2>1. PICK o \in Objects, e \in Entries, b \in BOOLEAN :
           /\ limiters' = Trimmed(Updated(limiters, e))
           /\ \A i \in PlacesIn(limiters, e.key) : limiters[i].age >= KeyTTL
    BY <1>4, CreatedStep
  <2>2. CASE k = e.key
    <3>1. PICK i \in 1..Len(limiters) : limiters[i].key = k
      BY DEF InMap
    <3>2. i \in Positions(k) /\ i \in PlacesIn(limiters, e.key)
      BY <2>2, <3>1 DEF Positions, PlacesIn
    <3> QED
      BY <2>1, <3>2
  <2>3. CASE k # e.key
    BY <1>1, <1>2, <2>1, <2>3, OnlyFirstGoes
  <2> QED
    BY <2>2, <2>3
<1>5. ASSUME Tick PROVE ObjectOf(k)' = ObjectOf(k)
  <2>1. /\ Len(limiters') = Len(limiters)
        /\ \A i \in 1..Len(limiters) :
              limiters'[i].key = limiters[i].key /\ limiters'[i].obj = limiters[i].obj
    BY <1>5, TickStep DEF MapInv
  <2>2. PlacesIn(limiters', k) = PlacesIn(limiters, k)
    BY <2>1 DEF PlacesIn
  <2>3. \A i \in PlacesIn(limiters, k) : limiters'[i].obj = limiters[i].obj
    BY <2>1 DEF PlacesIn
  <2> QED
    BY <1>2, <2>2, <2>3 DEF ObjectsIn
<1>6. UNCHANGED limiters => ObjectOf(k)' = ObjectOf(k)
  BY <1>2
<1>7. ASSUME NEW t \in Threads, NEW x \in Keys, Resolve(t, x) PROVE UNCHANGED limiters
  BY <1>7 DEF Resolve
<1>8. ASSUME NEW t \in Threads, RetuneLimit(t) \/ RetuneWindow(t) \/ Call(t) PROVE UNCHANGED limiters
  BY <1>8 DEF RetuneLimit, RetuneWindow, Call
<1>9. ASSUME NEW c \in Configs, Reconfigure(c) PROVE UNCHANGED limiters
  BY <1>9 DEF Reconfigure
<1>10. CASE UNCHANGED vars
  BY <1>6, <1>10 DEF vars
<1> QED
  BY <1>3, <1>4, <1>5, <1>6, <1>7, <1>8, <1>9, <1>10 DEF Next

(***************************************************************************)
(* A client's limiter, and the state recorded in it, stays the same from   *)
(* one look-up to the next, through retunes, hits and other clients'       *)
(* limiters, until it is the least recently used of max_keys or key_ttl is *)
(* over since it was created.                                              *)
(***************************************************************************)
THEOREM LimitersAreKept == Spec => StateSurvives
<1> DEFINE Kept == \A k \in InMap :
                      \/ ObjectOf(k)' = ObjectOf(k)
                      \/ limiters[1].key = k /\ Len(limiters) = MaxKeys
                      \/ \E i \in Positions(k) : limiters[i].age >= KeyTTL
<1>1. Init => MapInv
  BY MapInit, FacadeAssumption
<1>2. MapInv /\ [Next]_vars => MapInv'
  BY MapStep, FacadeAssumption
<1>3. MapInv /\ [Next]_vars => [Kept]_vars
  BY ObjectSurvives, FacadeAssumption
<1>4. StateSurvives <=> [][Kept]_vars
  BY DEF StateSurvives
<1> HIDE DEF Kept
<1> QED
  BY <1>1, <1>2, <1>3, <1>4, PTL DEF Spec

----------------------------------------------------------------------------
(***************************************************************************)
(* What a call that holds a limiter knows of the map.                      *)
(***************************************************************************)
LEMMA KnowsTheSame ==
    ASSUME NEW m, NEW r, NEW s, NEW n, Knows(m, r, s),
           n.key = s.key, n.obj = s.obj, n.others = s.others, n.replaced = s.replaced
    PROVE  Knows(m, r, n)
<1>1. Seen(r, s) => Seen(r, n)
  BY DEF Seen
<1>2. Held(m, s) => Held(m, n)
  BY DEF Held
<1>3. Lost(s) => Lost(n)
  BY DEF Lost
<1> QED
  BY <1>1, <1>2, <1>3 DEF Knows

\* What cost a call its limiter stays true while it sees more keys.
LEMMA LostGrows ==
    ASSUME NEW s, NEW n, n.key = s.key, s.others \subseteq n.others, IsFiniteSet(n.others),
           s.replaced => n.replaced, MaxKeys \in Nat, Lost(s)
    PROVE  Lost(n)
<1>1. CASE s.replaced
  BY <1>1 DEF Lost
<1>2. CASE Cardinality(s.others \ {s.key}) >= MaxKeys
  <2> DEFINE A == s.others \ {s.key}
             B == n.others \ {n.key}
  <2>1. IsFiniteSet(B)
    BY FS_RemoveElement
  <2>2. A \in SUBSET B
    OBVIOUS
  <2> HIDE DEF A, B
  <2>3. IsFiniteSet(A) /\ Cardinality(A) <= Cardinality(B)
    BY <2>1, <2>2, FS_Subset
  <2>4. Cardinality(A) \in Nat /\ Cardinality(B) \in Nat
    BY <2>1, <2>3, FS_CardinalityType
  <2>5. Cardinality(A) >= MaxKeys
    BY <1>2 DEF A
  <2>6. Cardinality(B) >= MaxKeys
    BY <2>3, <2>4, <2>5
  <2> QED
    BY <2>6 DEF B, Lost
<1> QED
  BY <1>1, <1>2 DEF Lost

(***************************************************************************)
(* A key that is not in a full map was followed by at least max_keys other *)
(* keys: those of the map.  A call that has its limiter has seen them all. *)
(***************************************************************************)
LEMMA EvictedAfterMany ==
    ASSUME NEW r \in Seq(Keys), Distinct(r), NEW v \in Seq(Entries), Recent(v, r),
           Len(v) = MaxKeys, MaxKeys \in Nat,
           NEW s, Seen(r, s), IsFiniteSet(s.others), PlacesIn(v, s.key) = {}
    PROVE  Lost(s)
<1> DEFINE d == Len(r) - Len(v)
           f == [i \in 1..MaxKeys |-> r[d + i]]
           T == s.others \ {s.key}
<1>1. PICK p \in 1..Len(r) : r[p] = s.key /\ \A j \in (p + 1)..Len(r) : r[j] \in s.others
  BY DEF Seen
<1>2. Len(r) \in Nat /\ Len(v) \in Nat /\ Len(v) <= Len(r) /\ d \in Nat /\ d + MaxKeys = Len(r)
  BY DEF Recent
<1>3. \A i \in 1..MaxKeys : v[i].key = r[d + i]
  BY DEF Recent
<1>4. p <= d
  <2> SUFFICES ASSUME ~(p <= d) PROVE FALSE
    OBVIOUS
  <2> DEFINE i == p - d
  <2>1. i \in 1..MaxKeys /\ d + i = p
    BY <1>2
  <2> HIDE DEF i, d
  <2>2. v[i].key = s.key /\ i \in 1..Len(v)
    BY <1>1, <1>3, <2>1
  <2> QED
    BY <2>2 DEF PlacesIn
<1> HIDE DEF d
<1>5. ASSUME NEW i \in 1..MaxKeys
      PROVE  d + i \in (p + 1)..Len(r) /\ d + i \in 1..Len(r) /\ d + i # p
  BY <1>2, <1>4
<1>6. \A i \in 1..MaxKeys : r[d + i] \in T
  BY <1>1, <1>5 DEF Distinct
<1>7. \A i, j \in 1..MaxKeys : r[d + i] = r[d + j] => i = j
  <2> SUFFICES ASSUME NEW i \in 1..MaxKeys, NEW j \in 1..MaxKeys, r[d + i] = r[d + j]
               PROVE  i = j
    OBVIOUS
  <2>1. d + i = d + j
    BY <1>5 DEF Distinct
  <2> QED
    BY <1>2, <2>1
<1>8. f \in Injection(1..MaxKeys, T)
  <2>1. f \in [1..MaxKeys -> T]
    BY <1>6
  <2>2. \A i, j \in 1..MaxKeys : f[i] = f[j] => i = j
    BY <1>7
  <2> HIDE DEF f, T
  <2> QED
    BY <2>1, <2>2 DEF Injection, IsInjective
<1>9. IsFiniteSet(T)
  BY FS_RemoveElement
<1> HIDE DEF f, T
<1>10. Cardinality(1..MaxKeys) <= Cardinality(T)
  BY <1>8, <1>9, FS_Injection
<1>11. Cardinality(1..MaxKeys) = MaxKeys
  <2>1. Cardinality(1..MaxKeys) = IF 1 > MaxKeys THEN 0 ELSE MaxKeys - 1 + 1
    BY FS_Interval
  <2> QED
    BY <2>1
<1>12. Cardinality(T) \in Nat
  BY <1>9, FS_CardinalityType
<1>13. Cardinality(T) >= MaxKeys
  BY <1>10, <1>11, <1>12
<1> QED
  BY <1>13 DEF T, Lost

\* After a hit every call knows what became of its limiter,
LEMMA InHandFound ==
    ASSUME FacadeAssumption, BudgetInv, NEW t \in Threads, Found(t),
           NEW w \in Threads, Holding(thread'[w])
    PROVE  Knows(limiters', recency', thread'[w])
<1>1. PICK p \in 1..Len(limiters), place \in {"limit", "call"} :
         /\ thread[t].pc = "lock"
         /\ limiters[p] \in Entries /\ limiters[p].key = thread[t].key
         /\ limiters' = Updated(limiters, limiters[p])
         /\ recency' = Touched(recency, limiters[p].key)
         /\ thread' = LookedUp(thread, t, limiters[p].obj, place, FALSE)
  BY FoundStep DEF BudgetInv
<1> DEFINE e == limiters[p]
           m == limiters
           r == recency
           s == thread[w]
           n == thread'[w]
<1>2. e \in Entries /\ e.key \in Keys /\ e.obj \in Objects
  BY <1>1 DEF Entries
<1>3. /\ m \in Seq(Entries) /\ r \in Seq(Keys) /\ Distinct(r) /\ Recent(m, r) /\ MaxKeys \in Nat
      /\ thread \in [Threads -> ThreadStates] /\ \A u \in Threads : Shaped(thread[u])
  BY DEF BudgetInv, MapInv, WellTyped, Ordered, FacadeAssumption
<1>4. PICK b \in BOOLEAN : thread' = LookedUp(thread, t, e.obj, place, b)
  BY <1>1
<1>5. thread[t].pc = "lock"
  BY <1>1
<1>6. /\ Shaped(n)
      /\ w = t => n.obj = e.obj /\ n.key = thread[t].key
      /\ w # t => /\ n.pc = s.pc /\ n.key = s.key /\ n.obj = s.obj
                  /\ Holding(s) => n.others = s.others \cup {thread[t].key}
                                   /\ (s.replaced => n.replaced)
  <2> DEFINE g == LookedUp(thread, t, e.obj, place, b)
  <2> HIDE DEF e
  <2>1. /\ \A u \in Threads : Shaped(g[u])
        /\ g[t].obj = e.obj /\ g[t].key = thread[t].key
        /\ \A u \in Threads \ {t} :
              /\ g[u].pc = thread[u].pc /\ g[u].key = thread[u].key /\ g[u].obj = thread[u].obj
              /\ Holding(thread[u]) =>
                    /\ g[u].others = thread[u].others \cup {thread[t].key}
                    /\ thread[u].replaced \/ (b /\ thread[u].key = thread[t].key) => g[u].replaced
    BY <1>2, <1>3, <1>5, LookedUpIs
  <2>2. n = g[w]
    BY <1>4
  <2> HIDE DEF g, n, s
  <2>3. CASE w = t
    BY <2>1, <2>2, <2>3
  <2>4. CASE w # t
    BY <2>1, <2>2, <2>4 DEF s
  <2> QED
    BY <2>3, <2>4
<1>7. n.key = e.key => Seen(recency', n)
  BY <1>1, <1>2, <1>3, SeenByItself
<1>8. ObjectsIn(m, e.key) = {e.obj} /\ ObjectsIn(limiters', e.key) = {e.obj}
      /\ \A k : k # e.key => ObjectsIn(limiters', k) = ObjectsIn(m, k)
  <2>1. PlacesIn(m, e.key) = {p}
    BY <1>3, OnePlace
  <2>2. ObjectsIn(m, e.key) = {e.obj}
    BY <2>1 DEF ObjectsIn
  <2> QED
    BY <1>1, <1>3, <2>2, ObjectsUpdated
<1>9. \A x, y : Held(x, y) <=> y.obj \in ObjectsIn(x, y.key)
  BY DEF Held, ObjectsIn, PlacesIn
<1> HIDE DEF m, r, s, n, e
<1>10. CASE w = t
  <2>1. n.key = e.key /\ n.obj = e.obj
    BY <1>1, <1>6, <1>10 DEF e
  <2>2. Held(limiters', n)
    BY <1>8, <1>9, <2>1
  <2> QED
    BY <1>7, <2>1, <2>2 DEF Knows, n
<1>11. CASE w # t
  <2>1. Holding(s)
    BY <1>6, <1>11 DEF Holding, n
  <2>2. /\ n.key = s.key /\ n.obj = s.obj /\ n.others = s.others \cup {e.key}
        /\ s.replaced => n.replaced
    BY <1>1, <1>6, <1>11, <2>1 DEF e
  <2>3. Knows(m, r, s)
    BY <2>1 DEF BudgetInv, InHand, m, r, s
  <2>4. Seen(recency', n)
    <3>1. CASE s.key = e.key
      BY <1>7, <2>2, <3>1
    <3>2. CASE s.key # e.key
      <4>1. Seen(Touched(r, e.key), n)
        BY <1>2, <1>3, <2>2, <2>3, <3>2, SeenByOthers DEF Knows
      <4> QED
        BY <1>1, <4>1 DEF r, e
    <3> QED
      BY <3>1, <3>2
  <2>5. Held(m, s) => Held(limiters', n)
    BY <1>8, <1>9, <2>2
  <2>6. Lost(s) => Lost(n)
    BY <1>3, <1>6, <2>2, LostGrows DEF Shaped
  <2> QED
    BY <2>3, <2>4, <2>5, <2>6 DEF Knows, n
<1> QED
  BY <1>10, <1>11

\* and after a new limiter was made,
LEMMA InHandCreated ==
    ASSUME FacadeAssumption, BudgetInv, NEW t \in Threads, Created(t),
           NEW w \in Threads, Holding(thread'[w])
    PROVE  Knows(limiters', recency', thread'[w])
<1>1. PICK o \in Objects, e \in Entries, b \in BOOLEAN :
         /\ thread[t].pc = "lock"
         /\ e.key = thread[t].key /\ e.obj = o
         /\ b = (PlacesIn(limiters, e.key) # {})
         /\ limiters' = Trimmed(Updated(limiters, e))
         /\ recency' = Touched(recency, e.key)
         /\ thread' = LookedUp(thread, t, o, "call", b)
  BY CreatedStep DEF BudgetInv
<1> DEFINE m == limiters
           r == recency
           s == thread[w]
           n == thread'[w]
<1>2. e.key \in Keys
  BY DEF Entries
<1>3. /\ m \in Seq(Entries) /\ r \in Seq(Keys) /\ Distinct(r) /\ Recent(m, r)
      /\ MaxKeys \in Nat \ {0} /\ MaxKeys \in Nat /\ Len(m) <= MaxKeys
      /\ thread \in [Threads -> ThreadStates] /\ \A u \in Threads : Shaped(thread[u])
  BY DEF BudgetInv, MapInv, WellTyped, Ordered, FacadeAssumption
<1>4. thread[t].pc = "lock" /\ thread' = LookedUp(thread, t, o, "call", b)
  BY <1>1
<1>5. /\ Shaped(n)
      /\ w = t => n.obj = o /\ n.key = thread[t].key
      /\ w # t => /\ n.pc = s.pc /\ n.key = s.key /\ n.obj = s.obj
                  /\ Holding(s) => n.others = s.others \cup {thread[t].key}
                                   /\ (s.replaced \/ (b /\ s.key = thread[t].key) => n.replaced)
  BY SMTT(30), <1>3, <1>4, LookedUpIs
<1>6. n.key = e.key => Seen(recency', n)
  BY <1>1, <1>2, <1>3, SeenByItself
<1>7. MapInv'
  BY MapCreated DEF BudgetInv
<1>8. /\ limiters' \in Seq(Entries) /\ recency' \in Seq(Keys)
      /\ Distinct(recency') /\ Recent(limiters', recency')
  BY <1>7 DEF MapInv, WellTyped, Ordered
<1>9. \A x, y : Held(x, y) <=> y.obj \in ObjectsIn(x, y.key)
  BY DEF Held, ObjectsIn, PlacesIn
<1> HIDE DEF m, r, s, n
<1>10. CASE w = t
  <2>1. n.key = e.key /\ n.obj = e.obj
    BY <1>1, <1>5, <1>10
  <2> DEFINE u == Updated(m, e)
             v == Trimmed(u)
  <2>2. u \in Seq(Entries) /\ Len(u) \in 1..(Len(m) + 1) /\ u[Len(u)] = e
    BY <1>3, UpdatedHolds
  <2> HIDE DEF u
  <2>3. PICK d \in Nat :
           /\ d = IF Len(u) > MaxKeys THEN Len(u) - MaxKeys ELSE 0
           /\ v \in Seq(Entries) /\ Len(v) = Len(u) - d
           /\ \A i \in 1..(Len(u) - d) : v[i] = u[d + i]
    BY <1>3, <2>2, TrimmedIs
  <2> HIDE DEF v
  <2>4. Len(m) \in Nat
    BY <1>3
  <2>5. Len(v) \in 1..(Len(u) - d) /\ Len(v) \in 1..Len(v) /\ d + Len(v) = Len(u)
    <3>1. Len(u) \in Nat /\ 1 <= Len(u) /\ MaxKeys \in Nat /\ 1 <= MaxKeys
      BY <1>3, <2>2, <2>4
    <3>2. Len(v) = Len(u) - d /\ 1 <= Len(u) - d
      BY <2>3, <3>1
    <3> QED
      BY <3>1, <3>2
  <2>6. v[Len(v)] = e
    BY <2>2, <2>3, <2>5
  <2>7. limiters' = v
    BY <1>1 DEF u, v, m
  <2>8. Held(limiters', n)
    BY <2>1, <2>5, <2>6, <2>7 DEF Held
  <2> QED
    BY <1>6, <2>1, <2>8 DEF Knows, n
<1>11. CASE w # t
  <2>1. Holding(s)
    BY <1>5, <1>11 DEF Holding, n
  <2>2. /\ n.key = s.key /\ n.obj = s.obj /\ n.others = s.others \cup {e.key}
        /\ s.replaced => n.replaced
        /\ b /\ s.key = e.key => n.replaced
    BY <1>1, <1>5, <1>11, <2>1
  <2>3. Knows(m, r, s)
    BY <2>1 DEF BudgetInv, InHand, m, r, s
  <2>4. Seen(recency', n)
    <3>1. CASE s.key = e.key
      BY <1>6, <2>2, <3>1
    <3>2. CASE s.key # e.key
      <4>1. Seen(Touched(r, e.key), n)
        BY <1>2, <1>3, <2>2, <2>3, <3>2, SeenByOthers DEF Knows
      <4> QED
        BY <1>1, <4>1 DEF r
    <3> QED
      BY <3>1, <3>2
  <2>5. Lost(s) => Lost(n)
    BY <1>3, <1>5, <2>2, LostGrows DEF Shaped
  <2>6. ASSUME Held(m, s) PROVE Held(limiters', n) \/ Lost(n)
    <3>1. CASE s.key = e.key
      <4>1. PlacesIn(limiters, e.key) # {}
        BY <2>6, <3>1 DEF Held, PlacesIn, m
      <4>2. n.replaced
        BY <1>1, <2>2, <3>1, <4>1
      <4> QED
        BY <4>2 DEF Lost
    <3>2. CASE s.key # e.key
      <4>1. \/ ObjectsIn(limiters', s.key) = ObjectsIn(m, s.key)
            \/ Len(limiters') = MaxKeys /\ PlacesIn(limiters', s.key) = {}
        BY <1>1, <1>3, <3>2, OnlyFirstGoes DEF m
      <4>2. CASE ObjectsIn(limiters', s.key) = ObjectsIn(m, s.key)
        BY <1>9, <2>2, <2>6, <4>2
      <4>3. CASE Len(limiters') = MaxKeys /\ PlacesIn(limiters', s.key) = {}
        <5>1. IsFiniteSet(n.others)
          BY <1>5 DEF Shaped
        <5> QED
          BY <1>3, <1>8, <2>2, <2>4, <4>3, <5>1, EvictedAfterMany
      <4> QED
        BY <4>1, <4>2, <4>3
    <3> QED
      BY <3>1, <3>2
  <2> QED
    BY <2>3, <2>4, <2>5, <2>6 DEF Knows, n
<1> QED
  BY <1>10, <1>11

\* and after every step.
LEMMA InHandStep ==
    ASSUME FacadeAssumption, BudgetInv, [Next]_vars
    PROVE  InHand'
<1> SUFFICES ASSUME NEW w \in Threads, Holding(thread'[w])
             PROVE  Knows(limiters', recency', thread'[w])
  BY DEF InHand
<1>1. thread \in [Threads -> ThreadStates] /\ \A u \in Threads : Shaped(thread[u])
  BY DEF BudgetInv, MapInv, WellTyped
<1>2. Holding(thread[w]) => Knows(limiters, recency, thread[w])
  BY DEF BudgetInv, InHand
<1>3. ASSUME NEW t \in Threads, NEW k \in Keys, Resolve(t, k)
      PROVE  Knows(limiters', recency', thread'[w])
  <2>1. PICK s : Shaped(s) /\ s.pc = "lock" /\ thread' = [thread EXCEPT ![t] = s]
    BY <1>3, ResolveStep DEF BudgetInv, MapInv
  <2>2. w # t /\ thread'[w] = thread[w]
    BY <1>1, <2>1, ThreadSteps DEF Holding
  <2>3. UNCHANGED <<limiters, recency>>
    BY <1>3 DEF Resolve
  <2> QED
    BY <1>2, <2>2, <2>3
<1>4. ASSUME NEW t \in Threads, NEW place \in {"window", "call"}, Retuning(thread[t]),
             thread' = [thread EXCEPT ![t] = [thread[t] EXCEPT !.pc = place]],
             UNCHANGED <<limiters, recency>>
      PROVE  Knows(limiters', recency', thread'[w])
  <2> DEFINE s == [thread[t] EXCEPT !.pc = place]
  <2>1. Holding(thread[t]) /\ thread[t].pc # "idle"
    BY <1>4 DEF Retuning, Holding
  <2>2. /\ Shaped(s) /\ s.key = thread[t].key /\ s.obj = thread[t].obj
        /\ s.others = thread[t].others /\ s.replaced = thread[t].replaced
    <3>1. Shaped(thread[t]) /\ place \in {"lock", "limit", "window", "call"}
      BY <1>1
    <3> QED
      BY <2>1, <3>1, Moves
  <2> HIDE DEF s
  <2>3. thread'[t] = s /\ \A u \in Threads \ {t} : thread'[u] = thread[u]
    BY <1>1, <1>4 DEF s
  <2>4. CASE w = t
    BY <1>2, <1>4, <2>1, <2>2, <2>3, <2>4, KnowsTheSame
  <2>5. CASE w # t
    BY <1>2, <1>4, <2>3, <2>5
  <2> QED
    BY <2>4, <2>5
<1>5. ASSUME NEW t \in Threads, RetuneLimit(t) PROVE Knows(limiters', recency', thread'[w])
  <2>1. /\ Retuning(thread[t]) /\ UNCHANGED <<limiters, recency>>
        /\ thread' = [thread EXCEPT ![t] = [thread[t] EXCEPT !.pc = "window"]]
    BY <1>5, RetuneLimitStep DEF Retuning
  <2> QED
    BY <1>4, <2>1
<1>6. ASSUME NEW t \in Threads, RetuneWindow(t) PROVE Knows(limiters', recency', thread'[w])
  <2>1. /\ Retuning(thread[t]) /\ UNCHANGED <<limiters, recency>>
        /\ thread' = [thread EXCEPT ![t] = [thread[t] EXCEPT !.pc = "call"]]
    BY <1>6, RetuneWindowStep DEF Retuning
  <2> QED
    BY <1>4, <2>1
<1>7. ASSUME NEW t \in Threads, Call(t) PROVE Knows(limiters', recency', thread'[w])
  <2>1. thread' = [thread EXCEPT ![t] = Idle] /\ UNCHANGED <<limiters, recency>>
    BY <1>7 DEF Call
  <2>2. w # t /\ thread'[w] = thread[w]
    BY <1>1, <2>1 DEF Holding, Idle
  <2> QED
    BY <1>2, <2>1, <2>2
<1>8. ASSUME NEW c \in Configs, Reconfigure(c) PROVE Knows(limiters', recency', thread'[w])
  BY <1>2, <1>8 DEF Reconfigure
<1>9. ASSUME Tick PROVE Knows(limiters', recency', thread'[w])
  <2>1. /\ Len(limiters') = Len(limiters)
        /\ \A i \in 1..Len(limiters) :
              limiters'[i].key = limiters[i].key /\ limiters'[i].obj = limiters[i].obj
        /\ thread'[w].pc = thread[w].pc
        /\ thread'[w].key = thread[w].key /\ thread'[w].obj = thread[w].obj
        /\ thread'[w].others = thread[w].others
        /\ thread'[w].replaced = thread[w].replaced
        /\ UNCHANGED recency
    BY <1>9, TickStep DEF BudgetInv, MapInv
  <2>2. Knows(limiters, recency, thread[w])
    BY <1>2, <2>1 DEF Holding
  <2>3. Knows(limiters, recency, thread'[w])
    BY <2>1, <2>2, KnowsTheSame
  <2>4. Held(limiters, thread'[w]) => Held(limiters', thread'[w])
    BY <2>1 DEF Held
  <2> QED
    BY <2>1, <2>3, <2>4 DEF Knows
<1>10. CASE UNCHANGED vars
  BY <1>2, <1>10 DEF vars
<1> QED
  BY <1>3, <1>5, <1>6, <1>7, <1>8, <1>9, <1>10, InHandFound, InHandCreated DEF Next

(***************************************************************************)
(* A client's calls share one budget, although they use the limiter after  *)
(* the facade's lock is released: one of two calls with different limiters *)
(* has seen max_keys other clients, or the end of the entry's key_ttl.     *)
(***************************************************************************)
THEOREM BudgetIsShared == Spec => []OneBudget
<1>1. Init => BudgetInv
  <2> SUFFICES ASSUME Init PROVE BudgetInv
    OBVIOUS
  <2>1. MapInv
    BY MapInit, FacadeAssumption
  <2>2. InHand
    BY DEF Init, InHand, Holding, Idle
  <2> QED
    BY <2>1, <2>2 DEF BudgetInv
<1>2. BudgetInv /\ [Next]_vars => BudgetInv'
  BY MapStep, InHandStep, FacadeAssumption DEF BudgetInv
<1>3. BudgetInv => OneBudget
  <2> SUFFICES ASSUME BudgetInv, NEW t \in Threads, NEW u \in Threads,
                      Holding(thread[t]), Holding(thread[u]),
                      thread[t].key = thread[u].key, thread[t].obj # thread[u].obj
               PROVE  \E c \in {t, u} :
                         \/ thread[c].replaced
                         \/ Cardinality(thread[c].others \ {thread[c].key}) >= MaxKeys
    BY DEF OneBudget
  <2>1. \A i, j \in 1..Len(limiters) : limiters[i].key = limiters[j].key => i = j
    BY KeysOnce DEF BudgetInv, MapInv, Ordered, WellTyped
  <2>2. ~(Held(limiters, thread[t]) /\ Held(limiters, thread[u]))
    BY <2>1 DEF Held
  <2>3. Lost(thread[t]) \/ Lost(thread[u])
    BY <2>2 DEF BudgetInv, InHand, Knows
  <2> QED
    BY <2>3 DEF Lost
<1> QED
  BY <1>1, <1>2, <1>3, PTL DEF Spec

----------------------------------------------------------------------------
(***************************************************************************)
(* Retuning.  Only the holder of the lock writes attributes, and outside   *)
(* of it a limiter's mark is what its attributes say.                      *)
(***************************************************************************)
LEMMA BlankIsMarked == Marked(Blank)
  BY DEF Marked, Blank

\* While the lock is free every limiter is as its mark says.
LEMMA NobodyRetunes ==
    ASSUME FacadeAssumption, RetuneInv, lock = Nobody
    PROVE  /\ \A u \in Threads : ~Retuning(thread[u])
           /\ \A o \in Objects : Marked(heap[o])
<1>1. \A u \in Threads : ~Retuning(thread[u])
  BY DEF RetuneInv, Exclusive, FacadeAssumption
<1>2. \A u \in Threads : thread[u].pc # "window"
  BY <1>1 DEF Retuning
<1> QED
  BY <1>1, <1>2 DEF RetuneInv, HalfWritten

\* Who retunes has the lock and is alone.
LEMMA OneRetunes ==
    ASSUME RetuneInv, NEW t \in Threads, Retuning(thread[t])
    PROVE  lock = t /\ \A u \in Threads \ {t} : ~Retuning(thread[u])
  BY DEF RetuneInv, Exclusive

\* Where the look-up of t leaves the threads, if nobody was retuning
LEMMA LookedUpPlaces ==
    ASSUME FacadeAssumption, RetuneInv, lock = Nobody,
           NEW t \in Threads, thread[t].pc = "lock", NEW o \in Objects,
           NEW place \in {"limit", "call"}, NEW b \in BOOLEAN,
           thread' = LookedUp(thread, t, o, place, b)
    PROVE  /\ thread'[t].pc = place /\ thread'[t].obj = o
           /\ \A u \in Threads \ {t} : thread'[u].pc = thread[u].pc /\ ~Retuning(thread'[u])
           /\ \A u \in Threads : thread'[u].pc # "window"
<1>1. thread \in [Threads -> ThreadStates] /\ \A u \in Threads : Shaped(thread[u])
  BY DEF RetuneInv, MapInv, WellTyped
<1>2. /\ thread'[t].pc = place /\ thread'[t].obj = o
      /\ \A u \in Threads \ {t} : thread'[u].pc = thread[u].pc
  <2> DEFINE g == LookedUp(thread, t, o, place, b)
  <2>1. g[t].pc = place /\ g[t].obj = o /\ \A u \in Threads \ {t} : g[u].pc = thread[u].pc
    BY <1>1, LookedUpIs
  <2> QED
    BY <2>1
<1>3. \A u \in Threads \ {t} : ~Retuning(thread'[u])
  BY <1>2, NobodyRetunes DEF Retuning
<1> QED
  BY <1>2, <1>3 DEF Retuning

\* A hit hands out a limiter whose mark is the policy, or starts to retune it.
LEMMA RetuneFound ==
    ASSUME FacadeAssumption, RetuneInv, NEW t \in Threads, Found(t)
    PROVE  /\ Exclusive' /\ HalfWritten'
           /\ \A w \in Threads : HandedOut(w) =>
                 LET o == heap'[thread'[w].obj] IN <<o.limit, o.window>> = thread[w].config
<1>1. PICK p \in 1..Len(limiters), place \in {"limit", "call"} :
         /\ thread[t].pc = "lock" /\ lock = Nobody /\ limiters[p] \in Entries
         /\ thread' = LookedUp(thread, t, limiters[p].obj, place, FALSE)
         /\ lock' = IF place = "limit" THEN t ELSE Nobody
         /\ place = "call" => heap[limiters[p].obj].tuned = thread[t].config
         /\ UNCHANGED heap
  BY FoundStep DEF RetuneInv
<1> DEFINE o == limiters[p].obj
<1>2. o \in Objects
  BY <1>1 DEF Entries
<1>3. PICK b \in BOOLEAN : thread' = LookedUp(thread, t, o, place, b)
  BY <1>1
<1>4. thread[t].pc = "lock" /\ lock = Nobody
  BY <1>1
<1>5. /\ thread'[t].pc = place /\ thread'[t].obj = o
      /\ \A u \in Threads \ {t} : thread'[u].pc = thread[u].pc /\ ~Retuning(thread'[u])
      /\ \A u \in Threads : thread'[u].pc # "window"
  <2> HIDE DEF o
  <2> QED
    BY <1>2, <1>3, <1>4, LookedUpPlaces
<1>6. Exclusive'
  <2>1. Retuning(thread'[t]) <=> lock' = t
    BY <1>1, <1>5 DEF Retuning, FacadeAssumption
  <2>2. \A u \in Threads \ {t} : ~Retuning(thread'[u]) /\ lock' # u
    BY <1>1, <1>5 DEF FacadeAssumption
  <2> QED
    BY <2>1, <2>2 DEF Exclusive
<1>7. \A x \in Objects : Marked(heap[x])
  BY <1>4, NobodyRetunes
<1>8. HalfWritten'
  BY <1>1, <1>5, <1>7 DEF HalfWritten
<1>9. ASSUME NEW w \in Threads, HandedOut(w)
      PROVE  <<heap'[thread'[w].obj].limit, heap'[thread'[w].obj].window>> = thread[w].config
  <2>1. w = t /\ place = "call"
    BY <1>5, <1>9 DEF HandedOut
  <2>2. thread'[w].obj = o /\ heap'[o] = heap[o] /\ heap[o].tuned = thread[w].config
    BY <1>1, <1>5, <2>1
  <2>3. heap[o].tuned = <<heap[o].limit, heap[o].window>>
    BY <1>2, <1>7 DEF Marked
  <2> QED
    BY <2>2, <2>3
<1> QED
  BY <1>6, <1>8, <1>9

\* A new limiter has the policy of the call that made it.
LEMMA RetuneCreated ==
    ASSUME FacadeAssumption, RetuneInv, NEW t \in Threads, Created(t)
    PROVE  /\ Exclusive' /\ HalfWritten'
           /\ \A w \in Threads : HandedOut(w) =>
                 LET o == heap'[thread'[w].obj] IN <<o.limit, o.window>> = thread[w].config
<1> DEFINE c == thread[t].config
           new == [limit |-> c[1], window |-> c[2], tuned |-> c]
<1>1. PICK o \in Objects, e \in Entries, b \in BOOLEAN :
         /\ thread[t].pc = "lock" /\ lock = Nobody
         /\ thread' = LookedUp(thread, t, o, "call", b)
         /\ heap' = Collect([heap EXCEPT ![o] = new], limiters', thread')
         /\ UNCHANGED lock
  BY CreatedStep DEF RetuneInv
<1>2. c \in Configs /\ heap \in [Objects -> ObjectStates]
  BY <1>1 DEF RetuneInv, MapInv, WellTyped, Shaped
<1>3. new \in ObjectStates /\ new.limit = c[1] /\ new.window = c[2] /\ new.tuned = c
  BY <1>2, NewObject
<1>4. <<c[1], c[2]>> = c
  BY <1>2 DEF FacadeAssumption
<1> HIDE DEF new, c
<1>5. /\ thread'[t].pc = "call" /\ thread'[t].obj = o
      /\ \A u \in Threads \ {t} : thread'[u].pc = thread[u].pc /\ ~Retuning(thread'[u])
      /\ \A u \in Threads : thread'[u].pc # "window"
  BY <1>1, LookedUpPlaces
<1>6. \A x \in Objects : Marked(heap[x])
  BY <1>1, NobodyRetunes
<1> DEFINE h == [heap EXCEPT ![o] = new]
<1>7. h \in [Objects -> ObjectStates] /\ h[o] = new /\ \A x \in Objects \ {o} : h[x] = heap[x]
  BY <1>2, <1>3
<1>8. \A x \in Objects : Marked(h[x])
  BY <1>3, <1>4, <1>6, <1>7 DEF Marked
<1> HIDE DEF h
<1>9. /\ \A x \in Objects : heap'[x] \in {h[x], Blank}
      /\ \A x \in Objects \cap Referenced(limiters', thread') : heap'[x] = h[x]
  BY ZenonT(30), <1>1, <1>7, Collected DEF h
<1>10. o \in Referenced(limiters', thread')
  BY <1>5 DEF Referenced
<1>11. Exclusive'
  BY <1>1, <1>5 DEF Exclusive, Retuning, FacadeAssumption
<1>12. HalfWritten'
  <2>1. \A x \in Objects : Marked(heap'[x])
    BY <1>8, <1>9, BlankIsMarked
  <2> QED
    BY <1>5, <2>1 DEF HalfWritten
<1>13. ASSUME NEW w \in Threads, HandedOut(w)
       PROVE  <<heap'[thread'[w].obj].limit, heap'[thread'[w].obj].window>> = thread[w].config
  <2>1. w = t
    BY <1>5, <1>13 DEF HandedOut
  <2>2. heap'[thread'[w].obj] = new
    BY <1>5, <1>7, <1>9, <1>10, <2>1
  <2> QED
    BY <1>3, <1>4, <2>1, <2>2 DEF c
<1> QED
  BY <1>11, <1>12, <1>13

\* After the first assignment one limiter is half written and nobody has it yet.
LEMMA RetuneLimited ==
    ASSUME FacadeAssumption, RetuneInv, NEW t \in Threads, RetuneLimit(t)
    PROVE  Exclusive' /\ HalfWritten' /\ \A w \in Threads : ~HandedOut(w)
<1> DEFINE s == [thread[t] EXCEPT !.pc = "window"]
           o == thread[t].obj
           h == [heap[o] EXCEPT !.limit = thread[t].config[1]]
<1>1. /\ thread \in [Threads -> ThreadStates] /\ \A u \in Threads : Shaped(thread[u])
      /\ heap \in [Objects -> ObjectStates]
  BY DEF RetuneInv, MapInv, WellTyped
<1>2. /\ thread[t].pc = "limit" /\ thread' = [thread EXCEPT ![t] = s]
      /\ heap' = [heap EXCEPT ![o] = h] /\ UNCHANGED lock
  BY RetuneLimitStep
<1>3. o \in Objects /\ Shaped(s) /\ s.pc = "window" /\ s.obj = o /\ s.config = thread[t].config
  BY <1>1, <1>2, Moves DEF Shaped, Holding
<1>4. h.limit = thread[t].config[1]
  BY <1>1, <1>3 DEF ObjectStates
<1> HIDE DEF s, h
<1>5. thread'[t] = s /\ \A u \in Threads \ {t} : thread'[u] = thread[u]
  BY <1>1, <1>2, <1>3, ThreadSteps
<1>6. heap'[o] = h /\ \A x \in Objects \ {o} : heap'[x] = heap[x]
  BY <1>1, <1>2, <1>3
<1>7. lock = t /\ \A u \in Threads \ {t} : ~Retuning(thread[u])
  BY <1>2, OneRetunes DEF Retuning
<1>8. Exclusive'
  BY <1>2, <1>3, <1>5, <1>7 DEF Exclusive, Retuning
<1>9. \A u \in Threads : thread[u].pc # "window"
  BY <1>2, <1>7 DEF Retuning
<1>10. HalfWritten'
  <2>1. \A x \in Objects : Marked(heap'[x]) \/ x = o
    BY <1>6, <1>9 DEF RetuneInv, HalfWritten
  <2>2. thread'[t].pc = "window" /\ thread'[t].obj = o
    BY <1>3, <1>5
  <2>3. \A u \in Threads : thread'[u].pc = "window" => u = t
    BY <1>5, <1>9
  <2>4. heap'[thread'[t].obj].limit = thread'[t].config[1]
    BY <1>3, <1>4, <1>5, <1>6
  <2> QED
    BY <2>1, <2>2, <2>3, <2>4 DEF HalfWritten
<1>11. \A w \in Threads : ~HandedOut(w)
  BY <1>3, <1>5 DEF HandedOut
<1> QED
  BY <1>8, <1>10, <1>11

\* After the second it is as the call resolved it, and handed out.
LEMMA RetuneFinished ==
    ASSUME FacadeAssumption, RetuneInv, NEW t \in Threads, RetuneWindow(t)
    PROVE  /\ Exclusive' /\ HalfWritten'
           /\ \A w \in Threads : HandedOut(w) =>
                 LET o == heap'[thread'[w].obj] IN <<o.limit, o.window>> = thread[w].config
<1> DEFINE s == [thread[t] EXCEPT !.pc = "call"]
           o == thread[t].obj
           h == Rewritten(t)
           c == thread[t].config
<1>1. /\ thread \in [Threads -> ThreadStates] /\ \A u \in Threads : Shaped(thread[u])
      /\ heap \in [Objects -> ObjectStates]
  BY DEF RetuneInv, MapInv, WellTyped
<1>2. /\ thread[t].pc = "window" /\ thread' = [thread EXCEPT ![t] = s]
      /\ heap' = [heap EXCEPT ![o] = h] /\ lock' = Nobody
  BY RetuneWindowStep
<1>3. o \in Objects /\ Shaped(s) /\ s.pc = "call" /\ s.obj = o /\ c \in Configs
  BY <1>1, <1>2, Moves DEF Shaped, Holding
<1>4. <<c[1], c[2]>> = c
  BY <1>3 DEF FacadeAssumption
<1>5. heap[o].limit = c[1]
  BY <1>2 DEF RetuneInv, HalfWritten
<1>6. h.limit = c[1] /\ h.window = c[2] /\ h.tuned = c
  <2>1. heap[o] \in ObjectStates
    BY <1>1, <1>3
  <2> QED
    BY <1>5, <2>1 DEF Rewritten, ObjectStates
<1> HIDE DEF s, h
<1>7. thread'[t] = s /\ \A u \in Threads \ {t} : thread'[u] = thread[u]
  BY <1>1, <1>2, <1>3, ThreadSteps
<1>8. heap'[o] = h /\ \A x \in Objects \ {o} : heap'[x] = heap[x]
  BY <1>1, <1>2, <1>3
<1>9. lock = t /\ \A u \in Threads \ {t} : ~Retuning(thread[u])
  BY <1>2, OneRetunes DEF Retuning
<1>10. \A u \in Threads : ~Retuning(thread'[u])
  BY <1>3, <1>7, <1>9 DEF Retuning
<1>11. Exclusive'
  BY <1>2, <1>10 DEF Exclusive, FacadeAssumption
<1>12. HalfWritten'
  <2>1. \A u \in Threads : thread'[u].pc # "window"
    BY <1>10 DEF Retuning
  <2>2. Marked(h)
    BY <1>4, <1>6 DEF Marked
  <2>3. \A x \in Objects \ {o} : Marked(heap[x])
    BY <1>9 DEF RetuneInv, HalfWritten, Retuning
  <2>4. \A x \in Objects : Marked(heap'[x])
    BY <1>8, <2>2, <2>3
  <2> QED
    BY <2>1, <2>4 DEF HalfWritten
<1>13. ASSUME NEW w \in Threads, HandedOut(w)
       PROVE  <<heap'[thread'[w].obj].limit, heap'[thread'[w].obj].window>> = thread[w].config
  <2>1. w = t
    BY <1>7, <1>13 DEF HandedOut
  <2>2. heap'[thread'[w].obj] = h
    BY <1>3, <1>7, <1>8, <2>1
  <2> QED
    BY <1>4, <1>6, <2>1, <2>2
<1> QED
  BY <1>11, <1>12, <1>13

\* The steps in which nobody enters or leaves _retune
LEMMA RetuneNoStep ==
    ASSUME RetuneInv, UNCHANGED lock,
           \A u \in Threads :
              /\ Retuning(thread[u]) <=> Retuning(thread'[u])
              /\ thread[u].pc = "window" <=> thread'[u].pc = "window"
              /\ thread[u].pc = "window" =>
                    thread'[u].obj = thread[u].obj /\ thread'[u].config = thread[u].config,
           \A o \in Objects : heap'[o] \in {heap[o], Blank},
           \A u \in Threads : thread[u].pc = "window" => heap'[thread[u].obj] = heap[thread[u].obj]
    PROVE  Exclusive' /\ HalfWritten'
<1>1. Exclusive'
  BY DEF RetuneInv, Exclusive
<1>2. ASSUME NEW o \in Objects
      PROVE  Marked(heap'[o]) \/ \E u \in Threads : thread'[u].pc = "window" /\ thread'[u].obj = o
  <2>1. Marked(heap[o]) \/ \E u \in Threads : thread[u].pc = "window" /\ thread[u].obj = o
    BY DEF RetuneInv, HalfWritten
  <2>2. Marked(heap[o]) => Marked(heap'[o])
    BY BlankIsMarked
  <2> QED
    BY <2>1, <2>2
<1>3. \A u \in Threads : thread'[u].pc = "window" => heap'[thread'[u].obj].limit = thread'[u].config[1]
  BY DEF RetuneInv, HalfWritten
<1> QED
  BY <1>1, <1>2, <1>3 DEF HalfWritten

\* The other steps write no limiter and hand none out.
LEMMA RetuneOthers ==
    ASSUME FacadeAssumption, RetuneInv,
           \/ \E t \in Threads : (\E k \in Keys : Resolve(t, k)) \/ Call(t)
           \/ \E c \in Configs : Reconfigure(c)
           \/ Tick
           \/ UNCHANGED vars
    PROVE  Exclusive' /\ HalfWritten' /\ \A w \in Threads : ~HandedOut(w)
<1>1. /\ thread \in [Threads -> ThreadStates] /\ \A u \in Threads : Shaped(thread[u])
      /\ heap \in [Objects -> ObjectStates] /\ WellTyped
  BY DEF RetuneInv, MapInv, WellTyped
<1>2. ASSUME NEW t \in Threads, NEW k \in Keys, Resolve(t, k)
      PROVE  Exclusive' /\ HalfWritten' /\ \A w \in Threads : ~HandedOut(w)
  <2>1. PICK s : /\ Shaped(s) /\ s.pc = "lock" /\ thread[t].pc = "idle"
                 /\ thread' = [thread EXCEPT ![t] = s]
    BY <1>1, <1>2, ResolveStep
  <2>2. thread'[t] = s /\ \A u \in Threads \ {t} : thread'[u] = thread[u]
    BY <1>1, <2>1, ThreadSteps
  <2>3. UNCHANGED <<heap, lock>>
    BY <1>2 DEF Resolve
  <2>4. Exclusive' /\ HalfWritten'
    BY <2>1, <2>2, <2>3, RetuneNoStep DEF Retuning
  <2>5. \A w \in Threads : ~HandedOut(w)
    BY <2>1, <2>2 DEF HandedOut
  <2> QED
    BY <2>4, <2>5
<1>3. ASSUME NEW t \in Threads, Call(t)
      PROVE  Exclusive' /\ HalfWritten' /\ \A w \in Threads : ~HandedOut(w)
  <2>1. /\ thread[t].pc = "call" /\ thread' = [thread EXCEPT ![t] = Idle]
        /\ heap' = Collect(heap, limiters, thread') /\ UNCHANGED <<limiters, lock>>
    BY <1>3 DEF Call
  <2>2. thread'[t] = Idle /\ \A u \in Threads \ {t} : thread'[u] = thread[u]
    BY <1>1, <2>1
  <2>3. Idle.pc = "idle"
    BY DEF Idle
  <2>4. /\ \A o \in Objects : heap'[o] \in {heap[o], Blank}
        /\ \A o \in Objects \cap Referenced(limiters, thread') : heap'[o] = heap[o]
    BY <1>1, <2>1, Collected
  <2>5. ASSUME NEW u \in Threads, thread[u].pc = "window"
        PROVE  heap'[thread[u].obj] = heap[thread[u].obj]
    <3>1. thread'[u] = thread[u] /\ thread[u].obj \in Objects
      BY <1>1, <2>1, <2>2, <2>5 DEF Shaped, Holding
    <3>2. thread[u].obj \in Referenced(limiters, thread')
      BY <3>1 DEF Referenced
    <3> QED
      BY <2>4, <3>1, <3>2
  <2>6. Exclusive' /\ HalfWritten'
    BY <2>1, <2>2, <2>3, <2>4, <2>5, RetuneNoStep DEF Retuning
  <2>7. \A w \in Threads : ~HandedOut(w)
    BY <2>2, <2>3 DEF HandedOut
  <2> QED
    BY <2>6, <2>7
<1>4. ASSUME NEW c \in Configs, Reconfigure(c)
      PROVE  Exclusive' /\ HalfWritten' /\ \A w \in Threads : ~HandedOut(w)
  BY <1>4, RetuneNoStep DEF Reconfigure, HandedOut
<1>5. ASSUME Tick
      PROVE  Exclusive' /\ HalfWritten' /\ \A w \in Threads : ~HandedOut(w)
  <2>1. /\ \A u \in Threads :
              /\ thread'[u].pc = thread[u].pc /\ thread'[u].obj = thread[u].obj
              /\ thread'[u].config = thread[u].config
        /\ UNCHANGED <<heap, lock>>
    BY <1>1, <1>5, TickStep
  <2>2. Exclusive' /\ HalfWritten'
    BY <2>1, RetuneNoStep DEF Retuning
  <2> QED
    BY <2>1, <2>2 DEF HandedOut
<1>6. CASE UNCHANGED vars
  BY <1>6, RetuneNoStep DEF vars, HandedOut
<1> QED
  BY <1>2, <1>3, <1>4, <1>5, <1>6

\* Every step keeps the marks true and hands out what was resolved.
LEMMA RetuneStep ==
    ASSUME FacadeAssumption, RetuneInv, [Next]_vars
    PROVE  /\ RetuneInv'
           /\ \A w \in Threads : HandedOut(w) =>
                 LET o == heap'[thread'[w].obj] IN <<o.limit, o.window>> = thread[w].config
<1>1. MapInv'
  BY MapStep DEF RetuneInv
<1>2. /\ Exclusive' /\ HalfWritten'
      /\ \A w \in Threads : HandedOut(w) =>
            LET o == heap'[thread'[w].obj] IN <<o.limit, o.window>> = thread[w].config
  BY RetuneFound, RetuneCreated, RetuneLimited, RetuneFinished, RetuneOthers DEF Next
<1> QED
  BY <1>1, <1>2 DEF RetuneInv

\* At first there is no limiter and nobody holds the lock.
LEMMA RetuneInit == Init => RetuneInv
<1> SUFFICES ASSUME Init PROVE RetuneInv
  OBVIOUS
<1>1. MapInv
  BY MapInit, FacadeAssumption
<1>2. Exclusive
  BY FacadeAssumption DEF Init, Exclusive, Retuning, Idle, FacadeAssumption
<1>3. HalfWritten
  BY BlankIsMarked DEF Init, HalfWritten, Idle
<1> QED
  BY <1>1, <1>2, <1>3 DEF RetuneInv

(***************************************************************************)
(* A call gets a limiter with the policy it resolved: what the mark        *)
(* _rg_tuned says of a limiter is true whenever the lock is free, because  *)
(* _retune and its three assignments run under the lock.                   *)
(***************************************************************************)
THEOREM LimitersMatchTheirMarks == Spec => HandedOutAsResolved
<1> DEFINE AsResolved ==
              \A t \in Threads :
                  HandedOut(t) =>
                      LET o == heap'[thread'[t].obj] IN <<o.limit, o.window>> = thread[t].config
<1>1. RetuneInv /\ [Next]_vars => RetuneInv'
  BY RetuneStep, FacadeAssumption
<1>2. RetuneInv /\ [Next]_vars => [AsResolved]_vars
  BY RetuneStep, FacadeAssumption
<1>3. HandedOutAsResolved <=> [][AsResolved]_vars
  BY DEF HandedOutAsResolved
<1> HIDE DEF AsResolved
<1> QED
  BY RetuneInit, <1>1, <1>2, <1>3, PTL DEF Spec

----------------------------------------------------------------------------
(***************************************************************************)
(* The middleware.  Its steps are steps of the facade with one thread, the *)
(* event loop, so what was proved of limiters and their marks holds here.  *)
(* A request that is being decided is the only one (OneAtATime) and the    *)
(* facade's call is its own (OnBehalf).                                    *)
(***************************************************************************)
RequestStates ==
    [pc : Places, path : Paths \cup {None}, client : Clients \cup {None}, allowed : BOOLEAN,
     limit : Nat, remaining : Nat, status : Statuses \cup {None}, reached : BOOLEAN,
     steady : BOOLEAN, same : BOOLEAN]
KeyIn(r) == <<r.path, r.client>>

RequestsTyped ==
    /\ request \in [Requests -> RequestStates]
    /\ spent \in [Keys -> Nat]
    /\ cached \in [Keys -> Nat \cup {NoAnswer}]
    /\ backend \in {"memory", "redis"}
    /\ backend = "memory" => \A k \in Keys : cached[k] = NoAnswer
    /\ \A q \in Requests : request[q].pc \in Deciding => KeyIn(request[q]) \in Keys

OneAtATime ==
    \A p, q \in Requests :
        request[p].pc \in Synchronous /\ request[q].pc \in Synchronous => p = q
OnBehalf ==
    thread[Loop].pc # "idle" =>
        \E q \in Requests : request[q].pc \in FacadeCalls /\ thread[Loop].key = KeyIn(request[q])

\* The limiter in hand enforces the policy its call resolved
InHandTuned == thread[Loop].pc = "call" => HeldLimit = thread[Loop].config[1]

(***************************************************************************)
(* What is known of a request r, about which the facade's call is in state *)
(* s, while the policy is c: the call resolved this policy, the limit that *)
(* was read is its limit, the headers that were read fit, and before they  *)
(* are read the decision can still be told from the budget (in memory, n   *)
(* requests charged) or from the cached answer a (in Redis).               *)
(***************************************************************************)
InForce(r, s, c) == r.pc \in Deciding /\ r.steady /\ s.pc # "idle" => s.config = c
LimitRead(r, c) == r.pc = "remaining" /\ r.steady => r.limit = c[1]
FitsTogether(r) ==
    r.pc \in {"reset", "record"} /\ r.steady =>
        /\ r.remaining <= r.limit
        /\ r.same => IF r.allowed THEN r.remaining < r.limit ELSE r.remaining = 0
Charged(r, c, n) == IF r.allowed THEN 1 <= n /\ 1 <= c[1] ELSE c[1] <= n
Answered(r, c, a) == a \in Nat /\ (IF r.allowed THEN a < c[1] ELSE a = 0)
DecisionKept(r, c, b, n, a) ==
    r.pc \in {"limit", "remaining"} /\ r.steady =>
        IF b = "memory" THEN r.same => Charged(r, c, n)
        ELSE IF r.same THEN Answered(r, c, a) ELSE a = NoAnswer

Told(r, s, c, b, n, a) ==
    InForce(r, s, c) /\ LimitRead(r, c) /\ FitsTogether(r) /\ DecisionKept(r, c, b, n, a)

ToldAll ==
    \A q \in Requests :
        Told(request[q], thread[Loop], config, backend,
             spent[KeyIn(request[q])], cached[KeyIn(request[q])])

HeaderInv ==
    RetuneInv /\ RequestsTyped /\ OneAtATime /\ OnBehalf /\ InHandTuned /\ ToldAll

\* Only a request in a synchronous place is told anything.
LEMMA ToldLater ==
    ASSUME NEW r, r.pc \notin Synchronous, NEW s, NEW c, NEW b, NEW n, NEW a
    PROVE  Told(r, s, c, b, n, a)
BY DEF Told, InForce, LimitRead, FitsTogether, DecisionKept, Synchronous, Deciding, FacadeCalls

\* The loop is a thread, and limits are numbers.
LEMMA LoopFacts ==
    ASSUME RetuneInv
    PROVE  /\ Loop \in Threads /\ \A t \in Threads : t = Loop
           /\ config \in Configs /\ \A c \in Configs : c[1] \in Nat
           /\ thread[Loop] \in ThreadStates /\ Shaped(thread[Loop])
BY MiddlewareAssumption DEF RetuneInv, MapInv, WellTyped, MiddlewareAssumption, Limits

(***************************************************************************)
(* A step of request q keeps the invariant if it does so for q: the others *)
(* are not in a synchronous place.                                         *)
(***************************************************************************)
LEMMA OneMoves ==
    ASSUME HeaderInv, RetuneInv', NEW q \in Requests,
           request[q].pc \in Synchronous \/ LoopFree,
           \A p \in Requests \ {q} : request'[p] = request[p],
           RequestsTyped',
           thread'[Loop].pc # "idle" =>
               request'[q].pc \in FacadeCalls /\ thread'[Loop].key = KeyIn(request'[q]),
           InHandTuned',
           Told(request'[q], thread'[Loop], config', backend',
                spent'[KeyIn(request'[q])], cached'[KeyIn(request'[q])])
    PROVE  HeaderInv'
<1>1. \A p \in Requests \ {q} : request'[p].pc \notin Synchronous
  BY DEF HeaderInv, OneAtATime, LoopFree
<1>2. OneAtATime'
  BY <1>1 DEF OneAtATime
<1>3. OnBehalf'
  BY DEF OnBehalf
<1>4. ToldAll'
  <2> SUFFICES ASSUME NEW p \in Requests
               PROVE  Told(request'[p], thread'[Loop], config', backend',
                           spent'[KeyIn(request'[p])], cached'[KeyIn(request'[p])])
    BY DEF ToldAll, KeyIn
  <2>1. CASE p = q
    BY <2>1
  <2>2. CASE p # q
    BY <1>1, <2>2, ToldLater
  <2> QED BY <2>1, <2>2
<1> QED BY <1>2, <1>3, <1>4 DEF HeaderInv

\* While no request is decided the facade is not called.
LEMMA LoopIdle ==
    ASSUME HeaderInv, NEW q \in Requests,
           LoopFree \/ (request[q].pc \in Synchronous /\ request[q].pc \notin FacadeCalls)
    PROVE  thread[Loop].pc = "idle"
<1>1. ASSUME NEW p \in Requests, request[p].pc \in FacadeCalls PROVE FALSE
  <2>1. request[p].pc \in Synchronous
    BY <1>1 DEF Synchronous, Deciding
  <2> QED BY <1>1, <2>1 DEF HeaderInv, OneAtATime, LoopFree
<1> QED BY <1>1 DEF HeaderInv, OnBehalf

\* The call of the facade is that of the request being decided.
LEMMA CallIsOwn ==
    ASSUME HeaderInv, NEW q \in Requests, request[q].pc \in Synchronous, thread[Loop].pc # "idle"
    PROVE  request[q].pc \in FacadeCalls /\ thread[Loop].key = KeyIn(request[q])
<1>1. PICK p \in Requests :
        request[p].pc \in FacadeCalls /\ thread[Loop].key = KeyIn(request[p])
  BY DEF HeaderInv, OnBehalf
<1>2. p = q
  BY <1>1 DEF HeaderInv, OneAtATime, Synchronous, Deciding
<1> QED BY <1>1, <1>2

\* Every step of the middleware is a step of the facade, or none.
LEMMA FacadeStep ==
    ASSUME HeaderInv, [MiddlewareNext]_mwVars
    PROVE  [Next]_vars
<1>0. Loop \in Threads
  BY LoopFacts DEF HeaderInv
<1>1. CASE UNCHANGED facadeVars
  BY <1>1 DEF facadeVars, vars
<1>2. ASSUME NEW q \in Requests, LookUp(q) PROVE Next
  <2>1. KeyIn(request[q]) \in Keys /\ Resolve(Loop, KeyIn(request[q]))
    BY <1>2 DEF HeaderInv, RequestsTyped, LookUp, KeyOf, KeyIn, Deciding
  <2> QED BY <1>0, <2>1 DEF Next
<1>3. ASSUME Found(Loop) \/ RetuneLimit(Loop) \/ RetuneWindow(Loop) \/ Created(Loop) \/ Call(Loop)
      PROVE  Next
  BY <1>0, <1>3 DEF Next
<1>4. ASSUME NEW q \in Requests, HandleRequest(q) PROVE [Next]_vars
  <2>1. CASE \/ \E p \in Paths, c \in Clients : Arrive(q, p, c)
             \/ HeaderLimit(q) \/ ResolutionFails(q) \/ Record(q) \/ Respond(q)
             \/ AppStarts(q) \/ AppEnds(q) \/ Finally(q)
    BY <1>1, <2>1 DEF Arrive, HeaderLimit, ResolutionFails, Record, Respond, AppStarts, AppEnds, Finally
  <2>2. CASE \/ Reuse(q) \/ Make(q) \/ Decide(q) \/ HeaderRemaining(q) \/ HeaderReset(q)
             \/ ScriptFails(q)
    BY <1>3, <2>2 DEF Reuse, Make, Decide, HeaderRemaining, HeaderReset, ScriptFails
  <2> QED BY <1>2, <1>4, <2>1, <2>2 DEF HandleRequest
<1>5. ASSUME NEW c \in Configs, PolicyChanges(c) PROVE Next
  BY <1>5 DEF PolicyChanges, Next
<1>6. ASSUME TimePasses PROVE Next
  BY <1>6 DEF TimePasses, Next
<1>7. ASSUME NEW k \in Keys, OtherWorker(k) PROVE [Next]_vars
  BY <1>1, <1>7 DEF OtherWorker
<1>8. CASE UNCHANGED mwVars
  BY <1>1, <1>8 DEF mwVars
<1> QED BY <1>4, <1>5, <1>6, <1>7, <1>8 DEF MiddlewareNext

\* So limiters match their marks here too.
LEMMA MarksHold ==
    ASSUME HeaderInv, [MiddlewareNext]_mwVars
    PROVE  /\ RetuneInv'
           /\ HandedOut(Loop) =>
                 heap'[thread'[Loop].obj].limit = thread[Loop].config[1]
<1>1. [Next]_vars /\ RetuneInv /\ Loop \in Threads
  BY FacadeStep, LoopFacts DEF HeaderInv
<1>2. /\ RetuneInv'
      /\ \A w \in Threads : HandedOut(w) =>
            LET o == heap'[thread'[w].obj] IN <<o.limit, o.window>> = thread[w].config
  BY <1>1, RetuneStep, FacadeAssumption
<1>3. ASSUME HandedOut(Loop)
      PROVE  heap'[thread'[Loop].obj].limit = thread[Loop].config[1]
  <2> DEFINE o == heap'[thread'[Loop].obj]
  <2>1. <<o.limit, o.window>> = thread[Loop].config
    BY <1>1, <1>2, <1>3
  <2> HIDE DEF o
  <2>2. o.limit = thread[Loop].config[1]
    BY <2>1
  <2> QED BY <2>2 DEF o
<1> QED BY <1>2, <1>3

\* A call that goes on inside the facade keeps its key and its policy.
LEMMA CallGoesOn ==
    ASSUME HeaderInv,
           Found(Loop) \/ RetuneLimit(Loop) \/ RetuneWindow(Loop) \/ Created(Loop)
    PROVE  /\ thread[Loop].pc \notin {"idle", "call"} /\ thread'[Loop].pc # "idle"
           /\ thread'[Loop].key = thread[Loop].key /\ thread'[Loop].config = thread[Loop].config
           /\ config' = config
<1>1. /\ Loop \in Threads /\ FacadeAssumption /\ MapInv
      /\ thread \in [Threads -> ThreadStates] /\ \A u \in Threads : Shaped(thread[u])
  BY LoopFacts, FacadeAssumption DEF HeaderInv, RetuneInv, MapInv, WellTyped
<1>2. CASE RetuneLimit(Loop) \/ RetuneWindow(Loop)
  <2>1. PICK place \in {"window", "call"} :
          thread' = [thread EXCEPT ![Loop] = [thread[Loop] EXCEPT !.pc = place]]
    BY <1>1, <1>2, RetuneLimitStep, RetuneWindowStep
  <2>2. thread[Loop].pc \in {"limit", "window"} /\ config' = config
    BY <1>2 DEF RetuneLimit, RetuneWindow
  <2>3. thread[Loop] \in ThreadStates /\ thread'[Loop] = [thread[Loop] EXCEPT !.pc = place]
    BY <1>1, <2>1
  <2>4. /\ thread'[Loop].pc = place /\ thread'[Loop].key = thread[Loop].key
        /\ thread'[Loop].config = thread[Loop].config
    BY <2>3 DEF ThreadStates
  <2> QED BY <2>2, <2>4
<1>3. ASSUME NEW o \in Objects, NEW place \in {"limit", "call"}, NEW b \in BOOLEAN,
             thread[Loop].pc = "lock", thread' = LookedUp(thread, Loop, o, place, b),
             config' = config
      PROVE  /\ thread[Loop].pc \notin {"idle", "call"} /\ thread'[Loop].pc # "idle"
             /\ thread'[Loop].key = thread[Loop].key
             /\ thread'[Loop].config = thread[Loop].config
             /\ config' = config
  <2> DEFINE n == LookedUp(thread, Loop, o, place, b)
  <2>1. n[Loop].pc = place /\ n[Loop].key = thread[Loop].key /\ n[Loop].config = thread[Loop].config
    BY <1>1, <1>3, LookedUpIs
  <2> HIDE DEF n
  <2>2. thread' = n
    BY <1>3 DEF n
  <2> QED BY <1>3, <2>1, <2>2
<1>4. CASE Found(Loop)
  <2>1. PICK p \in 1..Len(limiters), place \in {"limit", "call"} :
              /\ thread[Loop].pc = "lock" /\ limiters[p] \in Entries
              /\ thread' = LookedUp(thread, Loop, limiters[p].obj, place, FALSE)
              /\ config' = config
    BY <1>1, <1>4, FoundStep
  <2>2. limiters[p].obj \in Objects /\ FALSE \in BOOLEAN
    BY <2>1 DEF Entries
  <2> QED BY <1>3, <2>1, <2>2
<1>5. CASE Created(Loop)
  <2>1. PICK o \in Objects, b \in BOOLEAN :
              /\ thread[Loop].pc = "lock"
              /\ thread' = LookedUp(thread, Loop, o, "call", b)
              /\ config' = config
    BY <1>1, <1>5, CreatedStep
  <2> QED BY <1>3, <2>1
<1> QED BY <1>2, <1>4, <1>5

\* A call that ends leaves the loop without one.
LEMMA CallEnds ==
    ASSUME HeaderInv, Call(Loop)
    PROVE  thread[Loop].pc = "call" /\ thread'[Loop].pc = "idle" /\ config' = config
<1>1. Loop \in Threads /\ thread \in [Threads -> ThreadStates]
  BY LoopFacts DEF HeaderInv, RetuneInv, MapInv, WellTyped
<1> QED BY <1>1 DEF Call, Idle

\* The same, for a step that replaces the record of q by r.
LEMMA OneChanges ==
    ASSUME HeaderInv, RetuneInv', NEW q \in Requests, NEW r \in RequestStates,
           request[q].pc \in Synchronous \/ LoopFree,
           request' = [request EXCEPT ![q] = r],
           spent' \in [Keys -> Nat], cached' \in [Keys -> Nat \cup {NoAnswer}],
           backend' = backend, backend = "memory" => \A k \in Keys : cached'[k] = NoAnswer,
           r.pc \in Deciding => KeyIn(r) \in Keys,
           thread'[Loop].pc # "idle" => r.pc \in FacadeCalls /\ thread'[Loop].key = KeyIn(r),
           InHandTuned',
           Told(r, thread'[Loop], config', backend, spent'[KeyIn(r)], cached'[KeyIn(r)])
    PROVE  HeaderInv'
<1>1. request \in [Requests -> RequestStates]
  BY DEF HeaderInv, RequestsTyped
<1>2. /\ request'[q] = r /\ request' \in [Requests -> RequestStates]
      /\ \A p \in Requests \ {q} : request'[p] = request[p]
  BY <1>1
<1>3. \A p \in Requests : request'[p].pc \in Deciding => KeyIn(request'[p]) \in Keys
  BY <1>2 DEF HeaderInv, RequestsTyped
<1>4. RequestsTyped'
  BY <1>2, <1>3 DEF HeaderInv, RequestsTyped, KeyIn
<1> QED BY <1>2, <1>4, OneMoves

\* Before the decision, with no call of the facade, a request is told nothing.
LEMMA ToldNothing ==
    ASSUME NEW r, r.pc \notin {"limit", "remaining", "reset", "record"},
           NEW s, s.pc = "idle", NEW c, NEW b, NEW n, NEW a
    PROVE  Told(r, s, c, b, n, a)
BY DEF Told, InForce, LimitRead, FitsTogether, DecisionKept

(***************************************************************************)
(* The steps of a request that leave budgets, answers and the facade       *)
(* alone, or only end its call, and that are not part of the decision.     *)
(***************************************************************************)
LEMMA OneLeaves ==
    ASSUME HeaderInv, RetuneInv', NEW q \in Requests, NEW r \in RequestStates,
           request[q].pc \in Synchronous \/ LoopFree,
           request' = [request EXCEPT ![q] = r],
           r.pc \notin {"limit", "remaining", "reset", "record"},
           r.pc \in Deciding => KeyIn(r) \in Keys,
           spent' \in [Keys -> Nat], UNCHANGED <<cached, backend>>,
           thread'[Loop].pc = "idle"
    PROVE  HeaderInv'
<1>1. InHandTuned'
  BY DEF InHandTuned
<1>2. cached \in [Keys -> Nat \cup {NoAnswer}]
      /\ (backend = "memory" => \A k \in Keys : cached[k] = NoAnswer)
  BY DEF HeaderInv, RequestsTyped
<1>3. Told(r, thread'[Loop], config', backend, spent'[KeyIn(r)], cached'[KeyIn(r)])
  BY ToldNothing
<1> QED BY <1>1, <1>2, <1>3, OneChanges

\* What a request forgets when its decision and headers do not matter any more.
LEMMA SettledTyped ==
    ASSUME NEW r \in RequestStates, NEW pc \in Places
    PROVE  Settled(r, pc) \in RequestStates /\ Settled(r, pc).pc = pc
BY DEF Settled, Untouched, RequestStates

\* A request arrives.
LEMMA ArriveHolds ==
    ASSUME HeaderInv, RetuneInv', NEW q \in Requests, NEW path \in Paths, NEW client \in Clients,
           Arrive(q, path, client)
    PROVE  HeaderInv'
<1> DEFINE new == [Untouched EXCEPT !.path = path, !.client = client]
<1>1. PICK r : /\ request' = [request EXCEPT ![q] = r]
               /\ \/ r = [new EXCEPT !.pc = "app", !.reached = TRUE]
                  \/ /\ ShouldLimit(path)
                     /\ \E pc \in Identified : r = [new EXCEPT !.pc = pc]
  BY DEF Arrive
<1>2. Identified \subseteq {"allow", "refuse", "end"}
  BY DEF Identified
<1>3. /\ r \in RequestStates /\ r.path = path /\ r.client = client
      /\ r.pc \in {"app", "refuse", "end"} \/ (r.pc = "allow" /\ ShouldLimit(path))
  <2>1. new \in RequestStates /\ new.path = path /\ new.client = client
    BY DEF Untouched, RequestStates, Places
  <2> HIDE DEF new
  <2>2. CASE r = [new EXCEPT !.pc = "app", !.reached = TRUE]
    BY <2>1, <2>2 DEF RequestStates, Places
  <2>3. CASE ShouldLimit(path) /\ \E pc \in Identified : r = [new EXCEPT !.pc = pc]
    <3>1. PICK pc \in {"allow", "refuse", "end"} : r = [new EXCEPT !.pc = pc]
      BY <1>2, <2>3
    <3>2. pc \in Places
      BY DEF Places, Synchronous, Deciding, FacadeCalls
    <3>3. r \in RequestStates /\ r.path = path /\ r.client = client /\ r.pc = pc
      BY <2>1, <3>1, <3>2 DEF RequestStates
    <3> QED BY <2>3, <3>3
  <2> QED BY <1>1, <2>2, <2>3
<1>4. r.pc \in Deciding => KeyIn(r) \in Keys
  BY <1>3, MiddlewareAssumption DEF MiddlewareAssumption, KeyIn, Deciding, FacadeCalls
<1>5. LoopFree /\ UNCHANGED <<facadeVars, backend, spent, cached>>
  BY DEF Arrive
<1>6. thread'[Loop].pc = "idle" /\ spent' \in [Keys -> Nat]
  BY <1>5, LoopIdle DEF facadeVars, HeaderInv, RequestsTyped
<1> QED BY <1>1, <1>3, <1>4, <1>5, <1>6, OneLeaves

\* A decided request goes its way.
LEMMA AfterHolds ==
    ASSUME HeaderInv, RetuneInv', NEW q \in Requests,
           Record(q) \/ Respond(q) \/ AppStarts(q) \/ AppEnds(q) \/ Finally(q)
    PROVE  HeaderInv'
<1> DEFINE r == request[q]
<1>1. r \in RequestStates /\ request \in [Requests -> RequestStates] /\ spent \in [Keys -> Nat]
  BY DEF HeaderInv, RequestsTyped
<1>2. /\ UNCHANGED <<facadeVars, backend, spent, cached>>
      /\ LoopFree \/ r.pc \in {"record", "end"}
  BY DEF Record, Respond, AppStarts, AppEnds, Finally, At
<1>3. thread'[Loop].pc = "idle" /\ (r.pc \in Synchronous \/ LoopFree)
  BY <1>2, LoopIdle DEF facadeVars, Synchronous, Deciding, FacadeCalls
<1>4. \E s \in RequestStates :
        request' = [request EXCEPT ![q] = s] /\ s.pc \in {"app", "reject", "end", "stream", "done"}
  <2>1. CASE Record(q)
    <3> DEFINE s == [Settled(r, IF r.allowed THEN "app" ELSE "reject") EXCEPT !.reached = r.allowed]
    <3>1. request' = [request EXCEPT ![q] = s]
      BY <2>1 DEF Record
    <3>2. s \in RequestStates /\ s.pc \in {"app", "reject"}
      BY <1>1 DEF Settled, Untouched, RequestStates, Places
    <3> QED BY <3>1, <3>2
  <2>2. CASE Respond(q)
    <3> DEFINE s == [r EXCEPT !.pc = "end", !.status = IF At(q, "refuse") THEN "401" ELSE "429"]
    <3>1. request' = [request EXCEPT ![q] = s]
      BY <1>1, <2>2 DEF Respond
    <3>2. s \in RequestStates /\ s.pc = "end"
      BY <1>1 DEF RequestStates, Places, Synchronous, Statuses
    <3> QED BY <3>1, <3>2
  <2>3. CASE AppStarts(q) \/ AppEnds(q)
    <3>1. PICK pc \in {"stream", "end"}, st \in {"200", r.status} :
            request' = [request EXCEPT ![q] = [r EXCEPT !.pc = pc, !.status = st]]
      BY <1>1, <2>3 DEF AppStarts, AppEnds, Goto, RequestStates
    <3>2. /\ [r EXCEPT !.pc = pc, !.status = st] \in RequestStates
          /\ [r EXCEPT !.pc = pc, !.status = st].pc = pc
      BY <1>1 DEF RequestStates, Places, Synchronous, Statuses
    <3> QED BY <3>1, <3>2
  <2>4. CASE Finally(q)
    <3> DEFINE s == [Settled(r, "done") EXCEPT !.status = FinalStatus(r)]
    <3>1. request' = [request EXCEPT ![q] = s]
      BY <2>4 DEF Finally
    <3>2. FinalStatus(r) \in Statuses
      BY <1>1 DEF FinalStatus, RequestStates, Statuses
    <3>3. s \in RequestStates /\ s.pc = "done"
      BY <1>1, <3>2 DEF Settled, Untouched, RequestStates, Places
    <3> QED BY <3>1, <3>3
  <2> QED BY <2>1, <2>2, <2>3, <2>4
<1>5. PICK s \in RequestStates :
        request' = [request EXCEPT ![q] = s] /\ s.pc \in {"app", "reject", "end", "stream", "done"}
  BY <1>4
<1>6. s.pc \notin Deciding /\ s.pc \notin {"limit", "remaining", "reset", "record"}
  BY <1>5 DEF Deciding, FacadeCalls
<1> QED BY <1>1, <1>2, <1>3, <1>5, <1>6, OneLeaves

\* A call that resolves the policy in force, or ends, changes nothing that is known.
LEMMA StillTold ==
    ASSUME NEW r, NEW s, NEW c, NEW b, NEW n, NEW a, Told(r, s, c, b, n, a),
           NEW t, t.pc # "idle" /\ r.steady /\ r.pc \in Deciding => t.config = c
    PROVE  Told(r, t, c, b, n, a)
BY DEF Told, InForce

\* What is known of the request being decided.
LEMMA ToldOne ==
    ASSUME HeaderInv, NEW q \in Requests
    PROVE  /\ request[q] \in RequestStates /\ request \in [Requests -> RequestStates]
           /\ Told(request[q], thread[Loop], config, backend,
                   spent[KeyIn(request[q])], cached[KeyIn(request[q])])
           /\ spent \in [Keys -> Nat] /\ cached \in [Keys -> Nat \cup {NoAnswer}]
           /\ backend \in {"memory", "redis"}
           /\ backend = "memory" => \A k \in Keys : cached[k] = NoAnswer
           /\ request[q].pc \in Deciding => KeyIn(request[q]) \in Keys
BY DEF HeaderInv, RequestsTyped, ToldAll

\* The steps of _get_limiter: it resolves the policy in force,
LEMMA LookUpHolds ==
    ASSUME HeaderInv, RetuneInv', NEW q \in Requests, LookUp(q)
    PROVE  HeaderInv'
<1> DEFINE r == request[q]
<1>1. /\ r.pc \in FacadeCalls /\ Resolve(Loop, KeyIn(r))
      /\ UNCHANGED <<backend, request, spent, cached>>
  BY DEF LookUp, KeyOf, KeyIn
<1>2. Loop \in Threads /\ thread \in [Threads -> ThreadStates]
  BY LoopFacts DEF HeaderInv, RetuneInv, MapInv, WellTyped
<1>3. thread'[Loop] = [Idle EXCEPT !.pc = "lock", !.key = KeyIn(r), !.config = config]
      /\ config' = config
  BY <1>1, <1>2 DEF Resolve, RouteConfig
<1>4. /\ thread'[Loop].pc = "lock" /\ thread'[Loop].key = KeyIn(r)
      /\ thread'[Loop].config = config
  BY <1>3 DEF Idle
<1>5. InHandTuned' /\ r.pc \in Synchronous
  BY <1>1, <1>4 DEF InHandTuned, Synchronous, Deciding
<1>6. Told(r, thread'[Loop], config', backend, spent'[KeyIn(r)], cached'[KeyIn(r)])
  BY <1>1, <1>3, <1>4, ToldOne, StillTold
<1>7. request' = [request EXCEPT ![q] = r]
  BY <1>1, ToldOne
<1> QED BY <1>1, <1>4, <1>5, <1>6, <1>7, ToldOne, OneChanges

\* and what it hands out enforces this policy.
LEMMA GoesOnTuned ==
    ASSUME HeaderInv, [MiddlewareNext]_mwVars,
           Found(Loop) \/ RetuneLimit(Loop) \/ RetuneWindow(Loop) \/ Created(Loop)
    PROVE  InHandTuned'
<1>1. thread[Loop].pc # "call" /\ thread'[Loop].config = thread[Loop].config
  BY CallGoesOn
<1>2. ASSUME thread'[Loop].pc = "call"
      PROVE  heap'[thread'[Loop].obj].limit = thread'[Loop].config[1]
  BY <1>1, <1>2, MarksHold DEF HandedOut
<1> QED BY <1>2 DEF InHandTuned, HeldLimit

\* It is handed out for the request and the policy that it was looked up for.
LEMMA GoesOnTold ==
    ASSUME HeaderInv, NEW q \in Requests, request[q].pc \in FacadeCalls,
           Found(Loop) \/ RetuneLimit(Loop) \/ RetuneWindow(Loop) \/ Created(Loop)
    PROVE  /\ thread'[Loop].key = KeyIn(request[q]) /\ config' = config
           /\ request[q].pc \in Synchronous
           /\ Told(request[q], thread'[Loop], config, backend,
                   spent[KeyIn(request[q])], cached[KeyIn(request[q])])
<1> DEFINE r == request[q]
<1>1. /\ thread[Loop].pc # "idle" /\ thread'[Loop].key = thread[Loop].key
      /\ thread'[Loop].config = thread[Loop].config /\ config' = config
  BY CallGoesOn
<1>2. r.pc \in Synchronous
  BY DEF Synchronous, Deciding
<1>3. thread[Loop].key = KeyIn(r)
  BY <1>1, <1>2, CallIsOwn
<1>4. InForce(r, thread[Loop], config)
  BY ToldOne DEF Told
<1>5. thread'[Loop].pc # "idle" /\ r.steady /\ r.pc \in Deciding => thread'[Loop].config = config
  BY <1>1, <1>4 DEF InForce
<1>6. Told(r, thread'[Loop], config, backend, spent[KeyIn(r)], cached[KeyIn(r)])
  BY <1>5, ToldOne, StillTold
<1> QED BY <1>1, <1>2, <1>3, <1>6

\* A limiter object that is used again.
LEMMA ReuseHolds ==
    ASSUME HeaderInv, [MiddlewareNext]_mwVars, RetuneInv', NEW q \in Requests, Reuse(q)
    PROVE  HeaderInv'
<1> DEFINE r == request[q]
<1>1. /\ r.pc \in FacadeCalls /\ UNCHANGED <<backend, request, spent, cached>>
      /\ Found(Loop) \/ RetuneLimit(Loop) \/ RetuneWindow(Loop)
  BY DEF Reuse
<1>2. /\ thread'[Loop].key = KeyIn(r) /\ config' = config /\ r.pc \in Synchronous
      /\ Told(r, thread'[Loop], config, backend, spent[KeyIn(r)], cached[KeyIn(r)])
  BY <1>1, GoesOnTold
<1>3. InHandTuned'
  BY <1>1, GoesOnTuned
<1>4. request' = [request EXCEPT ![q] = r]
  BY <1>1, ToldOne
<1> QED BY <1>1, <1>2, <1>3, <1>4, ToldOne, OneChanges

\* A new limiter object: what it reports need not be what was decided on.
LEMMA MakeHolds ==
    ASSUME HeaderInv, [MiddlewareNext]_mwVars, RetuneInv', NEW q \in Requests, Make(q)
    PROVE  HeaderInv'
<1> DEFINE r == request[q]
           k == KeyIn(r)
           n == [r EXCEPT !.same = FALSE]
<1>1. /\ r.pc \in FacadeCalls /\ UNCHANGED backend /\ Created(Loop)
      /\ cached' = Afresh(cached, k, NoAnswer)
      /\ spent' = IF backend = "memory" THEN Afresh(spent, k, 0) ELSE spent
      /\ request' = [request EXCEPT ![q].same = FALSE]
  BY DEF Make, KeyOf, KeyIn
<1>2. /\ thread'[Loop].key = k /\ config' = config /\ r.pc \in Synchronous
      /\ Told(r, thread'[Loop], config, backend, spent[k], cached[k])
  BY <1>1, GoesOnTold
<1>3. InHandTuned'
  BY <1>1, GoesOnTuned
<1>4. /\ request' = [request EXCEPT ![q] = n] /\ n \in RequestStates
      /\ n.pc = r.pc /\ KeyIn(n) = k /\ n.steady = r.steady /\ ~n.same
      /\ n.limit = r.limit /\ n.remaining = r.remaining
  BY <1>1, ToldOne DEF RequestStates, KeyIn
<1>5. k \in Keys
  BY <1>1, ToldOne DEF Deciding
<1>6. cached' \in [Keys -> Nat \cup {NoAnswer}] /\ cached'[k] = NoAnswer
      /\ (backend = "memory" => \A x \in Keys : cached'[x] = NoAnswer)
  BY <1>1, <1>5, ToldOne DEF Afresh
<1>7. spent' \in [Keys -> Nat]
  BY <1>1, ToldOne DEF Afresh
<1> HIDE DEF n, k
<1>8. Told(n, thread'[Loop], config, backend, spent'[k], cached'[k])
  BY <1>2, <1>4, <1>6 DEF Told, InForce, LimitRead, FitsTogether, DecisionKept
<1> QED BY <1>1, <1>2, <1>3, <1>4, <1>5, <1>6, <1>7, <1>8, ToldOne, OneChanges

\* The limiter in hand has the limit that is in force, if the policy did not change.
LEMMA LimitInHand ==
    ASSUME HeaderInv, NEW q \in Requests, request[q].pc \in FacadeCalls, Call(Loop)
    PROVE  HeldLimit \in Nat /\ (request[q].steady => HeldLimit = config[1])
<1> DEFINE s == thread[Loop]
<1>1. s.pc = "call"
  BY CallEnds
<1>2. s.obj \in Objects
  BY <1>1, LoopFacts DEF HeaderInv, Shaped, Holding
<1>3. heap[s.obj] \in ObjectStates /\ \A c \in Configs : c[1] \in Nat
  BY <1>2, LoopFacts DEF HeaderInv, RetuneInv, MapInv, WellTyped
<1>4. HeldLimit \in Nat
  BY <1>3 DEF HeldLimit, ObjectStates, Limits
<1>5. HeldLimit = s.config[1]
  BY <1>1 DEF HeaderInv, InHandTuned
<1>6. request[q].steady => s.config = config
  BY <1>1, ToldOne DEF Told, InForce, Deciding
<1> QED BY <1>4, <1>5, <1>6

\* What is left of n after used is a number that does not exceed n.
LEMMA LeftOver ==
    ASSUME NEW n \in Nat, NEW used \in Nat
    PROVE  /\ Left(n, used) \in Nat /\ Left(n, used) <= n
           /\ used >= n => Left(n, used) = 0
           /\ used >= 1 /\ n >= 1 => Left(n, used) < n
BY DEF Left

\* The decision: the budget, or the cached answer, tells from then on what it was.
LEMMA DecideHolds ==
    ASSUME HeaderInv, RetuneInv', NEW q \in Requests, Decide(q)
    PROVE  HeaderInv'
<1> DEFINE r == request[q]
           k == KeyIn(r)
           n == [r EXCEPT !.pc = "limit", !.allowed = HasRoom(k), !.same = TRUE]
<1>1. /\ r.pc = "allow" /\ Call(Loop) /\ Charge(k) /\ UNCHANGED backend
      /\ cached' = IF backend = "redis"
                     THEN [cached EXCEPT ![k] = Reported(HeldLimit, spent[k])] ELSE cached
      /\ request' = [request EXCEPT ![q].pc = "limit", ![q].allowed = HasRoom(k), ![q].same = TRUE]
  BY DEF Decide, KeyOf, KeyIn, At
<1>2. thread'[Loop].pc = "idle" /\ config' = config
  BY <1>1, CallEnds
<1>3. /\ r.pc \in FacadeCalls /\ r.pc \in Synchronous /\ k \in Keys /\ spent[k] \in Nat
      /\ HeldLimit \in Nat /\ (r.steady => HeldLimit = config[1])
  <2>1. r.pc \in FacadeCalls /\ r.pc \in Deciding /\ r.pc \in Synchronous
    BY <1>1 DEF FacadeCalls, Deciding, Synchronous
  <2>2. k \in Keys
    BY <2>1, ToldOne
  <2> QED BY <1>1, <2>1, <2>2, ToldOne, LimitInHand
<1>4. HasRoom(k) \in BOOLEAN /\ (HasRoom(k) <=> spent[k] < HeldLimit)
  BY DEF HasRoom
<1>5. /\ request' = [request EXCEPT ![q] = n] /\ n \in RequestStates
      /\ n.pc = "limit" /\ KeyIn(n) = k /\ n.steady = r.steady /\ n.same
      /\ n.allowed = HasRoom(k)
  BY <1>1, <1>4, ToldOne DEF RequestStates, KeyIn, Places, Synchronous, Deciding
<1> HIDE DEF n
<1>6. spent' \in [Keys -> Nat] /\ spent'[k] = IF HasRoom(k) THEN spent[k] + 1 ELSE spent[k]
  BY <1>1, <1>3, ToldOne DEF Charge
<1>7. /\ Reported(HeldLimit, spent[k]) \in Nat
      /\ IF HasRoom(k) THEN Reported(HeldLimit, spent[k]) < HeldLimit
         ELSE Reported(HeldLimit, spent[k]) = 0
  <2>1. CASE HasRoom(k)
    <3>1. Reported(HeldLimit, spent[k]) = Left(HeldLimit, spent[k] + 1)
      BY <1>4, <2>1 DEF Reported
    <3> QED BY <1>3, <1>4, <2>1, <3>1, LeftOver
  <2>2. CASE ~HasRoom(k)
    <3>1. Reported(HeldLimit, spent[k]) = Left(HeldLimit, spent[k])
      BY <1>4, <2>2 DEF Reported
    <3> QED BY <1>3, <1>4, <2>2, <3>1, LeftOver
  <2> QED BY <2>1, <2>2
<1>8. cached' \in [Keys -> Nat \cup {NoAnswer}]
      /\ (backend = "memory" => \A x \in Keys : cached'[x] = NoAnswer)
      /\ (backend = "redis" => cached'[k] = Reported(HeldLimit, spent[k]))
  <2>1. CASE backend = "redis"
    BY <1>1, <1>3, <1>7, <2>1, ToldOne
  <2>2. CASE backend # "redis"
    BY <1>1, <2>2, ToldOne
  <2> QED BY <2>1, <2>2
<1> HIDE DEF k
<1>9. DecisionKept(n, config, backend, spent'[k], cached'[k])
  <2> SUFFICES ASSUME r.steady
               PROVE  IF backend = "memory" THEN Charged(n, config, spent'[k])
                      ELSE Answered(n, config, cached'[k])
    BY <1>5 DEF DecisionKept
  <2>1. HeldLimit = config[1]
    BY <1>3
  <2>2. Charged(n, config, spent'[k])
    BY <1>3, <1>4, <1>5, <1>6, <2>1 DEF Charged
  <2>3. backend # "memory" => Answered(n, config, cached'[k])
    BY <1>5, <1>7, <1>8, <2>1, ToldOne DEF Answered
  <2> QED BY <2>2, <2>3
<1>10. Told(n, thread'[Loop], config, backend, spent'[k], cached'[k])
  BY <1>2, <1>5, <1>9 DEF Told, InForce, LimitRead, FitsTogether
<1>11. n.pc \in Deciding => KeyIn(n) \in Keys
  BY <1>3, <1>5
<1>12. InHandTuned'
  BY <1>2 DEF InHandTuned
<1> QED BY <1>1, <1>2, <1>3, <1>5, <1>6, <1>8, <1>10, <1>11, <1>12, OneChanges

\* The header's own resolution reads the limit in force.
LEMMA HeaderLimitHolds ==
    ASSUME HeaderInv, RetuneInv', NEW q \in Requests, HeaderLimit(q)
    PROVE  HeaderInv'
<1> DEFINE r == request[q]
           k == KeyIn(r)
           n == [r EXCEPT !.pc = "remaining", !.limit = config[1]]
<1>1. /\ r.pc = "limit" /\ UNCHANGED <<facadeVars, backend, spent, cached>>
      /\ request' = [request EXCEPT ![q].pc = "remaining", ![q].limit = config[1]]
  BY DEF HeaderLimit, At, RouteConfig
<1>2. r.pc \in Deciding /\ r.pc \in Synchronous /\ r.pc \notin FacadeCalls
  BY <1>1 DEF FacadeCalls, Deciding, Synchronous
<1>3. thread[Loop].pc = "idle" /\ thread' = thread /\ config' = config
  BY <1>1, <1>2, LoopIdle DEF facadeVars
<1>4. k \in Keys /\ config[1] \in Nat
  BY <1>2, ToldOne, LoopFacts DEF HeaderInv
<1>5. /\ request' = [request EXCEPT ![q] = n] /\ n \in RequestStates
      /\ n.pc = "remaining" /\ KeyIn(n) = k /\ n.steady = r.steady /\ n.same = r.same
      /\ n.allowed = r.allowed /\ n.limit = config[1]
  BY <1>1, <1>4, ToldOne DEF RequestStates, KeyIn, Places, Synchronous, Deciding, FacadeCalls
<1> HIDE DEF n, k
<1>6. DecisionKept(r, config, backend, spent[k], cached[k])
  BY ToldOne DEF Told, k
<1>7. DecisionKept(n, config, backend, spent[k], cached[k])
  BY <1>1, <1>5, <1>6 DEF DecisionKept, Charged, Answered
<1>8. Told(n, thread[Loop], config, backend, spent[k], cached[k])
  BY <1>3, <1>5, <1>7 DEF Told, InForce, LimitRead, FitsTogether
<1>9. InHandTuned'
  BY <1>3 DEF InHandTuned
<1>10. /\ backend' = backend /\ spent' = spent /\ cached' = cached
       /\ spent \in [Keys -> Nat] /\ cached \in [Keys -> Nat \cup {NoAnswer}]
       /\ backend = "memory" => \A x \in Keys : cached[x] = NoAnswer
  BY <1>1, ToldOne
<1>11. Told(n, thread'[Loop], config', backend, spent'[KeyIn(n)], cached'[KeyIn(n)])
  BY <1>3, <1>5, <1>8, <1>10
<1> QED BY <1>2, <1>3, <1>4, <1>5, <1>9, <1>10, <1>11, OneChanges

\* What remains is read off the cached answer or the budget, and fits the limit read.
LEMMA HeaderRemainingHolds ==
    ASSUME HeaderInv, RetuneInv', NEW q \in Requests, HeaderRemaining(q)
    PROVE  HeaderInv'
<1> DEFINE r == request[q]
           k == KeyIn(r)
           m == RemainingOf(k)
           n == [r EXCEPT !.pc = "reset", !.remaining = m]
<1>1. /\ r.pc = "remaining" /\ Call(Loop) /\ UNCHANGED <<backend, spent, cached>>
      /\ request' = [request EXCEPT ![q].pc = "reset", ![q].remaining = m]
  BY DEF HeaderRemaining, At, KeyOf, KeyIn
<1>2. r.pc \in Deciding /\ r.pc \in Synchronous /\ r.pc \in FacadeCalls
  BY <1>1 DEF FacadeCalls, Deciding, Synchronous
<1>3. thread'[Loop].pc = "idle" /\ config' = config
  BY <1>1, CallEnds
<1>4. /\ k \in Keys /\ spent[k] \in Nat /\ cached[k] \in Nat \cup {NoAnswer}
      /\ backend \in {"memory", "redis"} /\ (backend = "memory" => cached[k] = NoAnswer)
  BY <1>2, ToldOne
<1>5. HeldLimit \in Nat /\ (r.steady => HeldLimit = config[1])
  BY <1>1, <1>2, LimitInHand
<1>6. m = (IF cached[k] # NoAnswer THEN cached[k] ELSE Left(HeldLimit, spent[k])) /\ m \in Nat
  <2>1. Left(HeldLimit, spent[k]) \in Nat
    BY <1>4, <1>5, LeftOver
  <2> QED BY <1>4, <2>1 DEF RemainingOf
<1>7. /\ request' = [request EXCEPT ![q] = n] /\ n \in RequestStates
      /\ n.pc = "reset" /\ KeyIn(n) = k /\ n.steady = r.steady /\ n.same = r.same
      /\ n.allowed = r.allowed /\ n.limit = r.limit /\ n.remaining = m
  BY <1>1, <1>6, ToldOne DEF RequestStates, KeyIn, Places, Synchronous, Deciding, FacadeCalls
<1>8. r.steady => r.limit = config[1] /\ DecisionKept(r, config, backend, spent[k], cached[k])
  BY <1>1, ToldOne DEF Told, LimitRead
<1> HIDE DEF n, m, k
<1>9. ASSUME r.steady
      PROVE  /\ m <= r.limit
             /\ r.same => IF r.allowed THEN m < r.limit ELSE m = 0
  <2>1. HeldLimit = r.limit /\ config[1] = r.limit /\ r.limit \in Nat
    BY <1>5, <1>8, <1>9
  <2>2. IF backend = "memory" THEN r.same => Charged(r, config, spent[k])
        ELSE IF r.same THEN Answered(r, config, cached[k]) ELSE cached[k] = NoAnswer
    BY <1>1, <1>8, <1>9 DEF DecisionKept
  <2>3. CASE backend = "memory"
    <3>1. m = Left(r.limit, spent[k])
      BY <1>4, <1>6, <2>1, <2>3
    <3>2. r.same => IF r.allowed THEN 1 <= spent[k] /\ 1 <= r.limit ELSE r.limit <= spent[k]
      BY <2>1, <2>2, <2>3 DEF Charged
    <3> QED BY <1>4, <2>1, <3>1, <3>2, LeftOver
  <2>4. CASE backend # "memory" /\ r.same
    <3>1. cached[k] \in Nat /\ (IF r.allowed THEN cached[k] < r.limit ELSE cached[k] = 0)
      BY <2>1, <2>2, <2>4 DEF Answered
    <3>2. m = cached[k]
      BY <1>6, <3>1 DEF NoAnswer
    <3> QED BY <2>1, <3>1, <3>2
  <2>5. CASE backend # "memory" /\ ~r.same
    <3>1. m = Left(r.limit, spent[k])
      BY <1>6, <2>1, <2>2, <2>5
    <3> QED BY <1>4, <2>1, <2>5, <3>1, LeftOver
  <2> QED BY <2>3, <2>4, <2>5
<1>10. Told(n, thread'[Loop], config', backend, spent'[KeyIn(n)], cached'[KeyIn(n)])
  BY <1>3, <1>7, <1>9 DEF Told, InForce, LimitRead, FitsTogether, DecisionKept
<1>11. InHandTuned'
  BY <1>3 DEF InHandTuned
<1>12. /\ spent' \in [Keys -> Nat] /\ cached' \in [Keys -> Nat \cup {NoAnswer}] /\ backend' = backend
       /\ backend = "memory" => \A x \in Keys : cached'[x] = NoAnswer
  BY <1>1, ToldOne
<1> QED BY <1>2, <1>3, <1>4, <1>7, <1>10, <1>11, <1>12, OneChanges

\* The last call leaves the headers as they are.
LEMMA HeaderResetHolds ==
    ASSUME HeaderInv, RetuneInv', NEW q \in Requests, HeaderReset(q)
    PROVE  HeaderInv'
<1> DEFINE r == request[q]
           n == [r EXCEPT !.pc = "record"]
<1>1. /\ r.pc = "reset" /\ Call(Loop) /\ UNCHANGED <<backend, spent, cached>>
      /\ request' = [request EXCEPT ![q].pc = "record"]
  BY DEF HeaderReset, At, Goto
<1>2. r.pc \in Synchronous
  BY <1>1 DEF FacadeCalls, Deciding, Synchronous
<1>3. thread'[Loop].pc = "idle"
  BY <1>1, CallEnds
<1>4. /\ request' = [request EXCEPT ![q] = n] /\ n \in RequestStates
      /\ n.pc = "record" /\ n.steady = r.steady /\ n.same = r.same
      /\ n.allowed = r.allowed /\ n.limit = r.limit /\ n.remaining = r.remaining
  BY <1>1, ToldOne DEF RequestStates, Places, Synchronous
<1> HIDE DEF n
<1>5. FitsTogether(r)
  BY ToldOne DEF Told
<1>6. Told(n, thread'[Loop], config', backend, spent'[KeyIn(n)], cached'[KeyIn(n)])
  BY <1>1, <1>3, <1>4, <1>5 DEF Told, InForce, LimitRead, FitsTogether, DecisionKept
<1>7. InHandTuned' /\ n.pc \notin Deciding
  BY <1>3, <1>4 DEF InHandTuned, Deciding, FacadeCalls
<1>8. /\ spent' \in [Keys -> Nat] /\ cached' \in [Keys -> Nat \cup {NoAnswer}] /\ backend' = backend
      /\ backend = "memory" => \A x \in Keys : cached'[x] = NoAnswer
  BY <1>1, ToldOne
<1> QED BY <1>2, <1>3, <1>4, <1>6, <1>7, <1>8, OneChanges

\* After a failure nothing is reported.
LEMMA FailureHolds ==
    ASSUME HeaderInv, RetuneInv', NEW q \in Requests, ResolutionFails(q) \/ ScriptFails(q)
    PROVE  HeaderInv'
<1> DEFINE r == request[q]
           n == Settled(r, "end")
<1>1. request' = [request EXCEPT ![q] = n] /\ UNCHANGED <<cached, backend>>
  BY DEF ResolutionFails, ScriptFails, AfterFailure
<1>2. n \in RequestStates /\ n.pc = "end"
  BY ToldOne, SettledTyped DEF Places, Synchronous
<1>3. CASE ResolutionFails(q)
  <2>1. /\ r.pc \in Deciding /\ thread[Loop].pc = "idle" /\ UNCHANGED <<facadeVars, spent>>
    BY <1>3 DEF ResolutionFails
  <2>2. r.pc \in Synchronous /\ thread'[Loop].pc = "idle" /\ spent' \in [Keys -> Nat]
    BY <2>1, ToldOne DEF Synchronous, facadeVars
  <2> QED BY <1>1, <1>2, <2>2, OneLeaves DEF Deciding, FacadeCalls
<1>4. CASE ScriptFails(q)
  <2>1. /\ r.pc \in FacadeCalls /\ Call(Loop)
        /\ UNCHANGED spent \/ Charge(KeyIn(r))
    BY <1>4 DEF ScriptFails, At, KeyOf, KeyIn, FacadeCalls
  <2>2. spent' \in [Keys -> Nat]
    <3>1. CASE UNCHANGED spent
      BY <3>1, ToldOne
    <3>2. CASE Charge(KeyIn(r))
      <4>1. KeyIn(r) \in Keys
        BY <2>1, ToldOne DEF Deciding
      <4> QED BY <3>2, <4>1, ToldOne DEF Charge
    <3> QED BY <2>1, <3>1, <3>2
  <2>3. r.pc \in Synchronous /\ thread'[Loop].pc = "idle"
    BY <2>1, CallEnds DEF Synchronous, Deciding
  <2> QED BY <1>1, <1>2, <2>2, <2>3, OneLeaves DEF Deciding, FacadeCalls
<1> QED BY <1>3, <1>4

(***************************************************************************)
(* What happens besides: no request moves, no call of the facade does.     *)
(***************************************************************************)
LEMMA NoneMoves ==
    ASSUME HeaderInv, RetuneInv', RequestsTyped',
           \A q \in Requests : /\ request'[q].pc = request[q].pc
                               /\ KeyIn(request'[q]) = KeyIn(request[q]),
           thread'[Loop].pc = thread[Loop].pc, thread'[Loop].key = thread[Loop].key,
           thread'[Loop].obj = thread[Loop].obj, thread'[Loop].config = thread[Loop].config,
           UNCHANGED heap,
           \A q \in Requests : Told(request'[q], thread'[Loop], config', backend',
                                    spent'[KeyIn(request'[q])], cached'[KeyIn(request'[q])])
    PROVE  HeaderInv'
<1>1. OneAtATime'
  BY DEF HeaderInv, OneAtATime
<1>2. OnBehalf'
  <2> SUFFICES ASSUME thread'[Loop].pc # "idle"
               PROVE  \E q \in Requests : /\ request'[q].pc \in FacadeCalls
                                          /\ thread'[Loop].key = KeyIn(request'[q])
    BY DEF OnBehalf, KeyIn
  <2>1. PICK q \in Requests : request[q].pc \in FacadeCalls /\ thread[Loop].key = KeyIn(request[q])
    BY DEF HeaderInv, OnBehalf
  <2> QED BY <2>1
<1>3. InHandTuned'
  BY DEF HeaderInv, InHandTuned, HeldLimit
<1>4. ToldAll'
  BY DEF ToldAll, KeyIn
<1> QED BY <1>1, <1>2, <1>3, <1>4 DEF HeaderInv

\* With another policy nothing is claimed of a request that is being decided.
LEMMA PolicyHolds ==
    ASSUME HeaderInv, RetuneInv', NEW c \in Configs, PolicyChanges(c)
    PROVE  HeaderInv'
<1>1. /\ UNCHANGED <<heap, thread, backend, spent, cached>>
      /\ request' = [q \in Requests |-> IF request[q].pc \in Deciding
                                          THEN [request[q] EXCEPT !.steady = FALSE] ELSE request[q]]
  BY DEF PolicyChanges, Disturbed, Reconfigure
<1>2. ASSUME NEW q \in Requests
      PROVE  /\ request'[q] \in RequestStates /\ request'[q].pc = request[q].pc
             /\ KeyIn(request'[q]) = KeyIn(request[q])
             /\ request[q].pc \in Deciding => ~request'[q].steady
             /\ request[q].pc \notin Deciding => request'[q] = request[q]
  <2>1. CASE request[q].pc \in Deciding
    BY <1>1, <2>1, ToldOne DEF RequestStates, KeyIn
  <2>2. CASE request[q].pc \notin Deciding
    BY <1>1, <2>2, ToldOne
  <2> QED BY <2>1, <2>2
<1>3. request' \in [Requests -> RequestStates]
  BY <1>1, <1>2
<1>4. RequestsTyped'
  BY <1>1, <1>2, <1>3 DEF HeaderInv, RequestsTyped, KeyIn
<1>5. ASSUME NEW q \in Requests, NEW a, NEW n
      PROVE  Told(request'[q], thread'[Loop], config', backend', n, a)
  <2>1. CASE request[q].pc \in Deciding
    BY <1>2, <2>1 DEF Told, InForce, LimitRead, FitsTogether, DecisionKept
  <2>2. CASE request[q].pc \notin Deciding
    BY <1>2, <2>2, ToldOne
       DEF Told, InForce, LimitRead, FitsTogether, DecisionKept, Deciding, FacadeCalls
  <2> QED BY <2>1, <2>2
<1> QED BY <1>1, <1>2, <1>4, <1>5, NoneMoves

\* Time gives budget back, and leaves the cached answers alone.
LEMMA TimeHolds ==
    ASSUME HeaderInv, RetuneInv', TimePasses
    PROVE  HeaderInv'
<1>1. /\ Tick /\ UNCHANGED <<backend, cached>>
      /\ request' = [q \in Requests |-> IF request[q].pc \in Deciding
                       THEN [request[q] EXCEPT !.same = @ /\ backend = "redis"] ELSE request[q]]
  BY DEF TimePasses, Disturbed
<1>2. spent' \in [Keys -> Nat]
  <2>1. PICK given \in [Keys -> BOOLEAN] :
          spent' = [k \in Keys |-> IF given[k] /\ spent[k] > 0 THEN spent[k] - 1 ELSE spent[k]]
    BY DEF TimePasses
  <2>2. spent \in [Keys -> Nat]
    BY DEF HeaderInv, RequestsTyped
  <2>3. \A k \in Keys : (IF given[k] /\ spent[k] > 0 THEN spent[k] - 1 ELSE spent[k]) \in Nat
    BY <2>2
  <2> QED BY <2>1, <2>3
<1>3. /\ thread'[Loop].pc = thread[Loop].pc /\ thread'[Loop].key = thread[Loop].key
      /\ thread'[Loop].obj = thread[Loop].obj /\ thread'[Loop].config = thread[Loop].config
      /\ config' = config /\ heap' = heap
  BY <1>1, TickStep, LoopFacts, FacadeAssumption DEF HeaderInv, RetuneInv, MapInv
<1>4. ASSUME NEW q \in Requests
      PROVE  /\ request'[q] \in RequestStates /\ request'[q].pc = request[q].pc
             /\ KeyIn(request'[q]) = KeyIn(request[q])
             /\ request'[q].steady = request[q].steady /\ request'[q].allowed = request[q].allowed
             /\ request'[q].limit = request[q].limit
             /\ request'[q].remaining = request[q].remaining
             /\ request'[q].same => request[q].same
             /\ request[q].pc \in Deciding =>
                   request'[q].same = (request[q].same /\ backend = "redis")
  <2>1. CASE request[q].pc \in Deciding
    BY <1>1, <2>1, ToldOne DEF RequestStates, KeyIn
  <2>2. CASE request[q].pc \notin Deciding
    BY <1>1, <2>2, ToldOne
  <2> QED BY <2>1, <2>2
<1>5. request' \in [Requests -> RequestStates]
  BY <1>1, <1>4
<1>6. RequestsTyped'
  BY <1>1, <1>2, <1>4, <1>5 DEF HeaderInv, RequestsTyped, KeyIn
<1>7. ASSUME NEW q \in Requests
      PROVE  Told(request'[q], thread'[Loop], config', backend',
                  spent'[KeyIn(request'[q])], cached'[KeyIn(request'[q])])
  <2> DEFINE r == request[q]
             n == request'[q]
             k == KeyIn(r)
  <2>1. InForce(r, thread[Loop], config) /\ LimitRead(r, config) /\ FitsTogether(r)
        /\ DecisionKept(r, config, backend, spent[k], cached[k])
    BY ToldOne DEF Told
  <2>2. KeyIn(n) = k /\ backend' = backend /\ cached' = cached
    BY <1>1, <1>4
  <2>3. InForce(n, thread'[Loop], config) /\ LimitRead(n, config) /\ FitsTogether(n)
    BY <1>3, <1>4, <2>1 DEF InForce, LimitRead, FitsTogether
  <2>4. DecisionKept(n, config, backend, spent'[k], cached[k])
    <3> SUFFICES ASSUME n.pc \in {"limit", "remaining"}, n.steady
                 PROVE  IF backend = "memory" THEN n.same => Charged(n, config, spent'[k])
                        ELSE IF n.same THEN Answered(n, config, cached[k]) ELSE cached[k] = NoAnswer
      BY DEF DecisionKept
    <3>1. r.pc \in Deciding /\ r.pc \in {"limit", "remaining"} /\ r.steady
      BY <1>4 DEF Deciding, FacadeCalls
    <3>2. CASE backend = "memory"
      BY <1>4, <3>1, <3>2
    <3>3. CASE backend = "redis"
      <4>1. n.same = r.same /\ n.allowed = r.allowed
        BY <1>4, <3>1, <3>3, ToldOne DEF RequestStates
      <4>2. IF r.same THEN Answered(r, config, cached[k]) ELSE cached[k] = NoAnswer
        BY <2>1, <3>1, <3>3 DEF DecisionKept
      <4> QED BY <3>3, <4>1, <4>2 DEF Answered
    <3> QED BY <3>2, <3>3, ToldOne
  <2> QED BY <1>3, <2>2, <2>3, <2>4 DEF Told
<1> QED BY <1>3, <1>4, <1>6, <1>7, NoneMoves

\* What other workers spend is not what the cached answer says.
LEMMA OtherWorkerHolds ==
    ASSUME HeaderInv, RetuneInv', NEW k \in Keys, OtherWorker(k)
    PROVE  HeaderInv'
<1>1. /\ backend = "redis" /\ UNCHANGED <<facadeVars, backend, request, cached>>
      /\ spent' = [spent EXCEPT ![k] = @ + 1]
  BY DEF OtherWorker
<1>2. RequestsTyped'
  BY <1>1 DEF HeaderInv, RequestsTyped, KeyIn
<1>3. thread' = thread /\ heap' = heap /\ config' = config
  BY <1>1 DEF facadeVars
<1>4. ASSUME NEW q \in Requests, NEW n
      PROVE  Told(request[q], thread[Loop], config, backend, n, cached[KeyIn(request[q])])
  BY <1>1, ToldOne DEF Told, DecisionKept
<1> QED BY <1>1, <1>2, <1>3, <1>4, NoneMoves

\* Every step preserves the invariant.
LEMMA HeaderStep ==
    ASSUME HeaderInv, [MiddlewareNext]_mwVars
    PROVE  HeaderInv'
<1>1. RetuneInv'
  BY MarksHold
<1>2. ASSUME NEW q \in Requests, HandleRequest(q) PROVE HeaderInv'
  <2>1. ASSUME NEW p \in Paths, NEW c \in Clients, Arrive(q, p, c) PROVE HeaderInv'
    BY <1>1, <2>1, ArriveHolds
  <2>2. CASE LookUp(q) \/ Reuse(q) \/ Make(q)
    BY <1>1, <2>2, LookUpHolds, ReuseHolds, MakeHolds
  <2>3. CASE Decide(q) \/ HeaderLimit(q) \/ HeaderRemaining(q) \/ HeaderReset(q)
    BY <1>1, <2>3, DecideHolds, HeaderLimitHolds, HeaderRemainingHolds, HeaderResetHolds
  <2>4. CASE ResolutionFails(q) \/ ScriptFails(q)
    BY <1>1, <2>4, FailureHolds
  <2>5. CASE Record(q) \/ Respond(q) \/ AppStarts(q) \/ AppEnds(q) \/ Finally(q)
    BY <1>1, <2>5, AfterHolds
  <2> QED BY <1>2, <2>1, <2>2, <2>3, <2>4, <2>5 DEF HandleRequest
<1>3. CASE UNCHANGED mwVars
  <2>1. /\ config' = config /\ heap' = heap /\ thread' = thread /\ backend' = backend
        /\ request' = request /\ spent' = spent /\ cached' = cached
    BY <1>3 DEF mwVars, facadeVars
  <2>2. RequestsTyped'
    BY <2>1 DEF HeaderInv, RequestsTyped, KeyIn
  <2> QED BY <1>1, <2>1, <2>2, ToldOne, NoneMoves
<1> QED BY <1>1, <1>2, <1>3, PolicyHolds, TimeHolds, OtherWorkerHolds DEF MiddlewareNext

\* No request has arrived at first.
LEMMA HeaderInit == MiddlewareInit => HeaderInv
<1> SUFFICES ASSUME MiddlewareInit PROVE HeaderInv
  OBVIOUS
<1>1. RetuneInv
  BY RetuneInit DEF MiddlewareInit
<1>2. Untouched \in RequestStates /\ Untouched.pc = "none"
  BY DEF Untouched, RequestStates, Places
<1>3. "none" \notin Synchronous /\ "none" \notin Deciding
  BY DEF Synchronous, Deciding, FacadeCalls
<1>4. \A q \in Requests : request[q] = Untouched
  BY DEF MiddlewareInit
<1>5. RequestsTyped
  BY <1>2, <1>3, MiddlewareAssumption DEF MiddlewareInit, RequestsTyped, MiddlewareAssumption
<1>6. OneAtATime
  BY <1>2, <1>3, <1>4 DEF OneAtATime
<1>7. thread[Loop].pc = "idle"
  BY <1>1, LoopFacts DEF MiddlewareInit, Init, Idle
<1>8. ToldAll
  BY <1>2, <1>3, <1>4, ToldLater DEF ToldAll
<1> QED BY <1>1, <1>5, <1>6, <1>7, <1>8 DEF HeaderInv, OnBehalf, InHandTuned

(***************************************************************************)
(* The headers of a response fit together, with either backend, any number *)
(* of requests, clients, policies and limiter objects, and whatever other  *)
(* workers, the clock and failures do between the reads: the budget that a *)
(* decision leaves behind, or the answer the limiter object keeps of it,   *)
(* still tells what was decided when Remaining is read.                    *)
(***************************************************************************)
THEOREM HeadersFitTogether == MiddlewareSpec => []HeadersFit
<1>1. HeaderInv => HeadersFit
  BY DEF HeaderInv, ToldAll, Told, FitsTogether, HeadersFit
<1>2. HeaderInv /\ [MiddlewareNext]_mwVars => HeaderInv'
  BY HeaderStep
<1> QED BY HeaderInit, <1>1, <1>2, PTL DEF MiddlewareSpec

(***************************************************************************)
(* The metrics.  What a request r counts as, and how many do.              *)
(***************************************************************************)
Rejecting(r) == r.pc = "reject" \/ (r.pc = "end" /\ r.status = "429")
Through(r) == Limited(r) /\ r.reached
Over(r, s) == r.pc = "done" /\ r.status = s
Failing(r) == ~r.reached /\ (r.status = "error" \/ (r.pc = "end" /\ r.status = None))

RejectingNow == {q \in Requests : Rejecting(request[q])}
ThroughNow == {q \in Requests : Through(request[q])}
OverNow(s) == {q \in Requests : Over(request[q], s)}
FailingNow == {q \in Requests : Failing(request[q])}
AllowedNow == {q \in Requests : request[q].allowed}

(***************************************************************************)
(* What the local variables of a request may be at each place: who has     *)
(* been answered, who has reached the application and who may be limited.  *)
(***************************************************************************)
Sound(r) ==
    /\ r.pc # "none" => r.path \in Paths
    /\ r.pc \in Deciding \cup {"record"} => Limited(r)
    /\ r.allowed => r.pc \in Deciding \cup {"record"}
    /\ r.pc \in Deciding \cup {"none", "record", "refuse", "reject"} =>
          r.status = None /\ ~r.reached
    /\ r.pc = "allow" => ~r.allowed
    /\ r.pc = "app" => r.status = None /\ r.reached
    /\ r.pc = "stream" => r.status = "200" /\ r.reached
    /\ r.pc = "end" => r.status # "error" /\ (r.status \in {"401", "429"} => ~r.reached)
    /\ r.pc \in {"end", "done"} /\ r.status = "200" => r.reached

Decisions == {"allowed", "rejected"}
TalliesTyped ==
    /\ decisions \in [Labels \X Decisions -> Nat] /\ http \in [Labels \X Statuses -> Nat]
    /\ charged \in Nat
    /\ \A x \in Decisions : IsFiniteSet(Units(decisions, x))
    /\ \A s \in Statuses : IsFiniteSet(Units(http, s))

(***************************************************************************)
(* The counters against the requests that are still under way: rejections  *)
(* counted and 429 not yet counted, admissions and requests let through,   *)
(* the charges of requests whose admission is not counted yet or that      *)
(* failed.                                                                 *)
(***************************************************************************)
Agree ==
    /\ Total(decisions, "rejected") = Total(http, "429") + Cardinality(RejectingNow)
    /\ Total(decisions, "allowed") = Cardinality(ThroughNow)
    /\ \A s \in Statuses : Total(http, s) = Cardinality(OverNow(s))
ChargesAgree ==
    LET admitted == Total(decisions, "allowed") + Cardinality(AllowedNow)
    IN  admitted <= charged /\ charged <= admitted + Cardinality(FailingNow)

MeterInv ==
    HeaderInv /\ TalliesTyped /\ (\A q \in Requests : Sound(request[q])) /\ Agree /\ ChargesAgree

Ind(b) == IF b THEN 1 ELSE 0

\* Sets that differ in q at most differ by one element at most.
LEMMA OneDiffers ==
    ASSUME NEW A, IsFiniteSet(A), NEW B, NEW q, A \ {q} = B \ {q}
    PROVE  /\ IsFiniteSet(B) /\ Cardinality(A) \in Nat /\ Cardinality(B) \in Nat
           /\ Cardinality(B) + Ind(q \in A) = Cardinality(A) + Ind(q \in B)
<1> DEFINE C == A \ {q}
<1>1. /\ IsFiniteSet(C) /\ Cardinality(A) \in Nat /\ Cardinality(C) \in Nat
      /\ Cardinality(C) = IF q \in A THEN Cardinality(A) - 1 ELSE Cardinality(A)
  BY FS_RemoveElement, FS_CardinalityType
<1>2. q \notin C /\ (B = C \/ B = C \cup {q}) /\ (q \in B <=> B = C \cup {q})
  OBVIOUS
<1> HIDE DEF C
<1>3. IsFiniteSet(C \cup {q}) /\ Cardinality(C \cup {q}) = Cardinality(C) + 1
  BY <1>1, <1>2, FS_AddElement
<1>4. Cardinality(C) + Ind(q \in A) = Cardinality(A)
  BY <1>1 DEF Ind
<1>5. CASE q \in B
  BY <1>1, <1>2, <1>3, <1>4, <1>5 DEF Ind
<1>6. CASE q \notin B
  BY <1>1, <1>2, <1>4, <1>6 DEF Ind
<1> QED BY <1>5, <1>6

\* Counting keeps the counters well typed.
LEMMA CountTyped ==
    ASSUME NEW S, NEW c \in [Labels \X S -> Nat], NEW l \in Labels, NEW x \in S
    PROVE  Count(c, <<l, x>>) \in [Labels \X S -> Nat]
BY DEF Count

\* Counting at <<l, x>> adds one to the total of x.
LEMMA CountsHere ==
    ASSUME NEW S, NEW c \in [Labels \X S -> Nat], NEW l \in Labels, NEW x \in S,
           IsFiniteSet(Units(c, x))
    PROVE  /\ IsFiniteSet(Units(Count(c, <<l, x>>), x))
           /\ Total(Count(c, <<l, x>>), x) = Total(c, x) + 1
<1> DEFINE d == Count(c, <<l, x>>)
           unit == <<l, c[<<l, x>>] + 1>>
<1>1. /\ d \in [Labels \X S -> Nat] /\ d[<<l, x>>] = c[<<l, x>>] + 1
      /\ \A m \in Labels : m # l => d[<<m, x>>] = c[<<m, x>>]
  BY DEF Count
<1>2. \A u : u \in Units(c, x) <=> \E m \in Labels : u \in {m} \X (1..c[<<m, x>>])
  BY DEF Units
<1>3. \A u : u \in Units(d, x) <=> \E m \in Labels : u \in {m} \X (1..d[<<m, x>>])
  BY DEF Units
<1>4. c[<<l, x>>] \in Nat
  OBVIOUS
<1> SUFFICES /\ IsFiniteSet(Units(d, x))
             /\ Cardinality(Units(d, x)) = Cardinality(Units(c, x)) + 1
  BY DEF Total
<1> HIDE DEF d
<1>5. unit \notin Units(c, x)
  <2>1. ASSUME NEW m \in Labels, unit \in {m} \X (1..c[<<m, x>>]) PROVE FALSE
    <3>1. m = l /\ c[<<l, x>>] + 1 \in 1..c[<<m, x>>]
      BY <2>1
    <3> QED BY <1>4, <3>1
  <2> QED BY <1>2, <2>1
<1>6. Units(d, x) = Units(c, x) \cup {unit}
  <2>1. \A m \in Labels : m # l => {m} \X (1..d[<<m, x>>]) = {m} \X (1..c[<<m, x>>])
    BY <1>1
  <2>2. {l} \X (1..d[<<l, x>>]) = ({l} \X (1..c[<<l, x>>])) \cup {unit}
    <3>1. 1..(c[<<l, x>>] + 1) = (1..c[<<l, x>>]) \cup {c[<<l, x>>] + 1}
      BY <1>4
    <3> QED BY <1>1, <3>1
  <2> HIDE DEF unit
  <2>3. ASSUME NEW u PROVE u \in Units(d, x) <=> u \in Units(c, x) \/ u = unit
    BY <1>2, <1>3, <2>1, <2>2
  <2> QED BY <2>3
<1> QED BY <1>5, <1>6, FS_AddElement, FS_CardinalityType

\* Counting at <<l, x>> leaves the other totals.
LEMMA CountsElsewhere ==
    ASSUME NEW S, NEW c \in [Labels \X S -> Nat], NEW l \in Labels, NEW x \in S, NEW y \in S,
           x # y
    PROVE  Units(Count(c, <<l, x>>), y) = Units(c, y)
<1>1. \A m \in Labels : Count(c, <<l, x>>)[<<m, y>>] = c[<<m, y>>]
  BY DEF Count
<1> QED BY <1>1 DEF Units

(***************************************************************************)
(* What a step that turns r into n has to count, for the counters to agree *)
(* after it: da admissions, dr rejections, a response of status f, and dc  *)
(* charges.                                                                *)
(***************************************************************************)
Balances(r, n, da, dr, f, dc) ==
    /\ Ind(Rejecting(n)) + Ind(f = "429") = Ind(Rejecting(r)) + dr
    /\ Ind(Through(n)) = Ind(Through(r)) + da
    /\ \A s \in Statuses : Ind(Over(n, s)) = Ind(Over(r, s)) + Ind(f = s)
    /\ da + Ind(n.allowed) <= dc + Ind(r.allowed)
    /\ dc + Ind(r.allowed) + Ind(Failing(r)) <= da + Ind(n.allowed) + Ind(Failing(n))
Counted(da, dr, f, dc) ==
    /\ Total(decisions', "allowed") = Total(decisions, "allowed") + da
    /\ Total(decisions', "rejected") = Total(decisions, "rejected") + dr
    /\ \A s \in Statuses : Total(http', s) = Total(http, s) + Ind(f = s)
    /\ charged' = charged + dc

\* The requests that are counted are finitely many.
LEMMA TotalsTyped ==
    ASSUME TalliesTyped
    PROVE  /\ \A x \in Decisions : Total(decisions, x) \in Nat
           /\ \A s \in Statuses : Total(http, s) \in Nat
BY FS_CardinalityType DEF TalliesTyped, Total

\* A step of one request that balances keeps the invariant.
LEMMA Moved ==
    ASSUME MeterInv, HeaderInv', TalliesTyped', NEW q \in Requests, NEW n,
           request' = [request EXCEPT ![q] = n], Sound(n),
           NEW da \in {0, 1}, NEW dr \in {0, 1}, NEW f, NEW dc \in {0, 1},
           Balances(request[q], n, da, dr, f, dc), Counted(da, dr, f, dc)
    PROVE  MeterInv'
<1> DEFINE r == request[q]
<1>1. request'[q] = n /\ \A p \in Requests \ {q} : request'[p] = request[p]
  BY ToldOne DEF MeterInv
<1>2. \A p \in Requests : Sound(request'[p])
  BY <1>1 DEF MeterInv
<1>3. /\ IsFiniteSet(RejectingNow) /\ IsFiniteSet(ThroughNow) /\ IsFiniteSet(FailingNow)
      /\ IsFiniteSet(AllowedNow) /\ \A s : IsFiniteSet(OverNow(s))
  BY MiddlewareAssumption, FS_Subset
     DEF MiddlewareAssumption, RejectingNow, ThroughNow, FailingNow, AllowedNow, OverNow
<1>4. /\ Cardinality(RejectingNow) \in Nat /\ Cardinality(RejectingNow') \in Nat
      /\ Cardinality(RejectingNow') + Ind(Rejecting(r)) = Cardinality(RejectingNow) + Ind(Rejecting(n))
  <2>1. RejectingNow \ {q} = RejectingNow' \ {q}
    BY <1>1 DEF RejectingNow
  <2>2. (q \in RejectingNow <=> Rejecting(r)) /\ (q \in RejectingNow' <=> Rejecting(n))
    BY <1>1 DEF RejectingNow
  <2> QED BY <1>3, <2>1, <2>2, OneDiffers DEF Ind
<1>5. /\ Cardinality(ThroughNow) \in Nat /\ Cardinality(ThroughNow') \in Nat
      /\ Cardinality(ThroughNow') + Ind(Through(r)) = Cardinality(ThroughNow) + Ind(Through(n))
  <2>1. ThroughNow \ {q} = ThroughNow' \ {q}
    BY <1>1 DEF ThroughNow
  <2>2. (q \in ThroughNow <=> Through(r)) /\ (q \in ThroughNow' <=> Through(n))
    BY <1>1 DEF ThroughNow
  <2> QED BY <1>3, <2>1, <2>2, OneDiffers DEF Ind
<1>6. /\ Cardinality(FailingNow) \in Nat /\ Cardinality(FailingNow') \in Nat
      /\ Cardinality(FailingNow') + Ind(Failing(r)) = Cardinality(FailingNow) + Ind(Failing(n))
  <2>1. FailingNow \ {q} = FailingNow' \ {q}
    BY <1>1 DEF FailingNow
  <2>2. (q \in FailingNow <=> Failing(r)) /\ (q \in FailingNow' <=> Failing(n))
    BY <1>1 DEF FailingNow
  <2> QED BY <1>3, <2>1, <2>2, OneDiffers DEF Ind
<1>7. /\ Cardinality(AllowedNow) \in Nat /\ Cardinality(AllowedNow') \in Nat
      /\ Cardinality(AllowedNow') + Ind(r.allowed) = Cardinality(AllowedNow) + Ind(n.allowed)
  <2>1. AllowedNow \ {q} = AllowedNow' \ {q}
    BY <1>1 DEF AllowedNow
  <2>2. (q \in AllowedNow <=> r.allowed) /\ (q \in AllowedNow' <=> n.allowed)
    BY <1>1 DEF AllowedNow
  <2> QED BY <1>3, <2>1, <2>2, OneDiffers DEF Ind
<1>8. ASSUME NEW s \in Statuses
      PROVE  /\ Cardinality(OverNow(s)) \in Nat /\ Cardinality(OverNow(s)') \in Nat
             /\ Cardinality(OverNow(s)') + Ind(Over(r, s)) = Cardinality(OverNow(s)) + Ind(Over(n, s))
  <2>1. OverNow(s) \ {q} = OverNow(s)' \ {q}
    BY <1>1 DEF OverNow
  <2>2. (q \in OverNow(s) <=> Over(r, s)) /\ (q \in OverNow(s)' <=> Over(n, s))
    BY <1>1 DEF OverNow
  <2> QED BY <1>3, <2>1, <2>2, OneDiffers DEF Ind
<1>9. \A b : Ind(b) \in 0..1
  BY DEF Ind
<1>10. /\ Total(decisions, "allowed") \in Nat /\ Total(decisions, "rejected") \in Nat
       /\ \A s \in Statuses : Total(http, s) \in Nat
       /\ "429" \in Statuses /\ charged \in Nat
  BY TotalsTyped DEF MeterInv, Decisions, Statuses, TalliesTyped
<1>11. Agree'
  <2>1. /\ Total(decisions, "rejected") = Total(http, "429") + Cardinality(RejectingNow)
        /\ Total(decisions, "allowed") = Cardinality(ThroughNow)
        /\ \A s \in Statuses : Total(http, s) = Cardinality(OverNow(s))
    BY DEF MeterInv, Agree
  <2>2. Total(decisions', "rejected") = Total(http', "429") + Cardinality(RejectingNow')
    BY <1>4, <1>9, <1>10, <2>1 DEF Balances, Counted
  <2>3. Total(decisions', "allowed") = Cardinality(ThroughNow')
    BY <1>5, <1>9, <1>10, <2>1 DEF Balances, Counted
  <2>4. ASSUME NEW s \in Statuses PROVE Total(http', s) = Cardinality(OverNow(s)')
    BY <1>8, <1>9, <1>10, <2>1 DEF Balances, Counted
  <2> QED BY <2>2, <2>3, <2>4 DEF Agree, Total
<1>12. ChargesAgree'
  <2>1. /\ Total(decisions, "allowed") + Cardinality(AllowedNow) <= charged
        /\ charged <= Total(decisions, "allowed") + Cardinality(AllowedNow) + Cardinality(FailingNow)
    BY DEF MeterInv, ChargesAgree
  <2>2. /\ Total(decisions', "allowed") = Total(decisions, "allowed") + da
        /\ charged' = charged + dc
        /\ da + Ind(n.allowed) <= dc + Ind(r.allowed)
        /\ dc + Ind(r.allowed) + Ind(Failing(r)) <= da + Ind(n.allowed) + Ind(Failing(n))
    BY DEF Balances, Counted
  <2>3. /\ Ind(n.allowed) \in 0..1 /\ Ind(r.allowed) \in 0..1
        /\ Ind(Failing(r)) \in 0..1 /\ Ind(Failing(n)) \in 0..1
    BY <1>9
  <2>4. /\ Total(decisions', "allowed") + Cardinality(AllowedNow') <= charged'
        /\ charged' <= Total(decisions', "allowed") + Cardinality(AllowedNow') + Cardinality(FailingNow')
    BY <1>6, <1>7, <1>10, <2>1, <2>2, <2>3
  <2> QED BY <2>4 DEF ChargesAgree, Total
<1> QED BY <1>2, <1>11, <1>12 DEF MeterInv

\* A step that counts nothing in the metrics, and dc charges.
LEMMA Uncounted ==
    ASSUME MeterInv, UNCHANGED metricVars, NEW dc \in {0, 1}, charged' = charged + dc
    PROVE  TalliesTyped' /\ Counted(0, 0, None, dc)
<1>1. decisions' = decisions /\ http' = http
  BY DEF metricVars
<1>2. charged' \in Nat
  BY DEF MeterInv, TalliesTyped
<1>3. TalliesTyped'
  BY <1>1, <1>2 DEF MeterInv, TalliesTyped, Units
<1>4. \A s \in Statuses : None # s
  BY DEF None, Statuses
<1>5. Counted(0, 0, None, dc)
  BY <1>1, <1>4, TotalsTyped DEF MeterInv, Counted, Ind, Decisions
<1> QED BY <1>3, <1>5

\* The record of a request, and that it is sound.
LEMMA SoundOne ==
    ASSUME MeterInv, NEW q \in Requests
    PROVE  /\ request \in [Requests -> RequestStates] /\ request[q] \in RequestStates
           /\ Sound(request[q])
BY ToldOne DEF MeterInv

\* A step that changes nothing that is counted.
Alike(r, n) ==
    /\ n.pc = r.pc /\ n.path = r.path /\ n.status = r.status
    /\ n.reached = r.reached /\ n.allowed = r.allowed
\* Such a step keeps the meters in agreement.
LEMMA Unmoved ==
    ASSUME MeterInv, HeaderInv', UNCHANGED <<metricVars, charged>>,
           \A q \in Requests : Alike(request[q], request'[q])
    PROVE  MeterInv'
<1>1. decisions' = decisions /\ http' = http /\ charged' = charged
  BY DEF metricVars
<1>2. \A q \in Requests : Sound(request'[q])
  BY DEF MeterInv, Sound, Alike, Limited
<1>3. /\ RejectingNow' = RejectingNow /\ ThroughNow' = ThroughNow
      /\ FailingNow' = FailingNow /\ AllowedNow' = AllowedNow
      /\ \A s \in Statuses : OverNow(s)' = OverNow(s)
  <2>1. RejectingNow' = RejectingNow
    BY DEF RejectingNow, Rejecting, Alike
  <2>2. ThroughNow' = ThroughNow
    BY DEF ThroughNow, Through, Alike, Limited
  <2>3. FailingNow' = FailingNow
    BY DEF FailingNow, Failing, Alike
  <2>4. AllowedNow' = AllowedNow
    BY DEF AllowedNow, Alike
  <2>5. ASSUME NEW s \in Statuses PROVE OverNow(s)' = OverNow(s)
    BY DEF OverNow, Over, Alike
  <2> QED BY <2>1, <2>2, <2>3, <2>4, <2>5
<1>4. TalliesTyped'
  BY <1>1 DEF MeterInv, TalliesTyped, Units
<1>5. Agree'
  <2>1. ASSUME NEW s \in Statuses PROVE (Total(http, s) = Cardinality(OverNow(s)))'
    <3>1. Total(http, s) = Cardinality(OverNow(s)) /\ OverNow(s)' = OverNow(s)
      BY <1>3 DEF MeterInv, Agree
    <3> QED BY <1>1, <3>1 DEF Total, Units
  <2>2. /\ (Total(decisions, "rejected") = Total(http, "429") + Cardinality(RejectingNow))'
        /\ (Total(decisions, "allowed") = Cardinality(ThroughNow))'
    BY <1>1, <1>3 DEF MeterInv, Agree, Total, Units
  <2> QED BY <2>1, <2>2 DEF Agree
<1>6. ChargesAgree'
  BY <1>1, <1>3 DEF MeterInv, ChargesAgree, Total, Units
<1> QED BY <1>2, <1>4, <1>5, <1>6 DEF MeterInv

\* A request arrives: it is limited, or goes to the application undecided.
LEMMA ArriveMetered ==
    ASSUME MeterInv, HeaderInv', NEW q \in Requests, NEW path \in Paths, NEW client \in Clients,
           Arrive(q, path, client)
    PROVE  MeterInv'
<1> DEFINE r == request[q]
           new == [Untouched EXCEPT !.path = path, !.client = client]
<1>1. PICK n : /\ request' = [request EXCEPT ![q] = n]
               /\ \/ ~ShouldLimit(path) /\ n = [new EXCEPT !.pc = "app", !.reached = TRUE]
                  \/ /\ ShouldLimit(path)
                     /\ \E pc \in Identified : n = [new EXCEPT !.pc = pc]
  BY DEF Arrive
<1>2. r.pc = "none" /\ UNCHANGED <<metricVars, charged>>
  BY DEF Arrive, At
<1>3. /\ n.path = path /\ n.status = None /\ ~n.allowed
      /\ \/ n.pc = "app" /\ n.reached /\ ~ShouldLimit(path)
         \/ n.pc \in {"allow", "refuse", "end"} /\ ~n.reached /\ ShouldLimit(path)
  BY <1>1 DEF Untouched, Identified
<1>4. Sound(n)
  BY <1>3 DEF Sound, Limited, Deciding, FacadeCalls, None
<1>5. Balances(r, n, 0, 0, None, 0)
  BY <1>2, <1>3, SoundOne DEF Balances, Ind, Rejecting, Through, Over, Failing, Sound, Limited,
     Deciding, FacadeCalls, None, Statuses
<1>6. charged' = charged + 0
  BY <1>2 DEF MeterInv, TalliesTyped
<1>7. TalliesTyped' /\ Counted(0, 0, None, 0)
  BY <1>2, <1>6, Uncounted
<1> QED BY <1>1, <1>4, <1>5, <1>7, Moved

\* A request goes on to the next place of the decision.
LEMMA GoesOn ==
    ASSUME MeterInv, HeaderInv', NEW q \in Requests, NEW n,
           request' = [request EXCEPT ![q] = n], UNCHANGED metricVars,
           NEW dc \in {0, 1}, charged' = charged + dc,
           request[q].pc \in Deciding, n.pc \in {"limit", "remaining", "reset", "record"},
           n.path = request[q].path, n.status = request[q].status,
           n.reached = request[q].reached, n.allowed \in BOOLEAN,
           Ind(n.allowed) = dc + Ind(request[q].allowed)
    PROVE  MeterInv'
<1>1. /\ Limited(request[q]) /\ request[q].status = None /\ ~request[q].reached
      /\ request[q].path \in Paths
  BY SoundOne DEF Sound, Limited
<1>2. Limited(n)
  BY <1>1 DEF Limited
<1>3. Sound(n)
  BY <1>1, <1>2 DEF Sound, Deciding, FacadeCalls, None
<1>4. Balances(request[q], n, 0, 0, None, dc)
  <2>1. ~Rejecting(n) /\ ~Rejecting(request[q]) /\ ~Failing(n) /\ ~Failing(request[q])
    BY <1>1 DEF Rejecting, Failing, Deciding, FacadeCalls, None
  <2>2. ~Through(n) /\ ~Through(request[q]) /\ \A s : ~Over(n, s) /\ ~Over(request[q], s)
    BY <1>1 DEF Through, Over, Deciding, FacadeCalls
  <2>3. \A s \in Statuses : None # s
    BY DEF None, Statuses
  <2>4. "429" \in Statuses /\ Ind(request[q].allowed) \in 0..1
    BY DEF Statuses, Ind
  <2>5. Ind(FALSE) = 0
    BY DEF Ind
  <2>6. 0 + Ind(n.allowed) <= dc + Ind(request[q].allowed)
    BY <2>4
  <2>7. dc + Ind(request[q].allowed) + Ind(Failing(request[q])) <= 0 + Ind(n.allowed) + Ind(Failing(n))
    BY <2>1, <2>4 DEF Ind
  <2> QED BY <2>1, <2>2, <2>3, <2>4, <2>6, <2>7 DEF Balances, Ind
<1>5. TalliesTyped' /\ Counted(0, 0, None, dc)
  BY Uncounted
<1> QED BY <1>3, <1>4, <1>5, Moved

\* The decision charges a request if and only if it admits it.
LEMMA DecideMetered ==
    ASSUME MeterInv, HeaderInv', NEW q \in Requests, Decide(q)
    PROVE  MeterInv'
<1> DEFINE r == request[q]
           room == HasRoom(KeyOf(q))
           n == [r EXCEPT !.pc = "limit", !.allowed = room, !.same = TRUE]
<1>1. /\ r.pc = "allow" /\ Charge(KeyOf(q)) /\ UNCHANGED metricVars
      /\ request' = [request EXCEPT ![q].pc = "limit", ![q].allowed = room, ![q].same = TRUE]
  BY DEF Decide, At
<1>2. room \in BOOLEAN /\ charged' = charged + Ind(room)
  BY <1>1 DEF Charge, HasRoom, Ind, MeterInv, TalliesTyped
<1> HIDE DEF room
<1>3. r \in RequestStates /\ request \in [Requests -> RequestStates] /\ ~r.allowed
  BY <1>1, SoundOne DEF Sound
<1>4. /\ request' = [request EXCEPT ![q] = n]
      /\ n.pc = "limit" /\ n.allowed = room /\ n.path = r.path /\ n.status = r.status
      /\ n.reached = r.reached
  BY <1>1, <1>2, <1>3 DEF RequestStates
<1> HIDE DEF n
<1>5. Ind(room) \in {0, 1} /\ Ind(n.allowed) = Ind(room) + Ind(r.allowed)
  BY <1>3, <1>4 DEF Ind
<1>6. r.pc \in Deciding
  BY <1>1 DEF Deciding, FacadeCalls
<1> QED BY <1>1, <1>2, <1>4, <1>5, <1>6, GoesOn

\* Reading the headers counts nothing.
LEMMA HeadersMetered ==
    ASSUME MeterInv, HeaderInv', NEW q \in Requests,
           HeaderLimit(q) \/ HeaderRemaining(q) \/ HeaderReset(q)
    PROVE  MeterInv'
<1> DEFINE r == request[q]
<1>1. UNCHANGED <<metricVars, charged>> /\ r.pc \in {"limit", "remaining", "reset"}
  BY DEF HeaderLimit, HeaderRemaining, HeaderReset, At, Call
<1>2. r \in RequestStates /\ request \in [Requests -> RequestStates]
  BY SoundOne
<1>3. PICK pc \in {"remaining", "reset", "record"} : \E limit, remaining :
        request' = [request EXCEPT ![q] =
                      [r EXCEPT !.pc = pc, !.limit = limit, !.remaining = remaining]]
  <2>1. CASE HeaderLimit(q)
    <3>1. request' = [request EXCEPT ![q] =
                        [r EXCEPT !.pc = "remaining", !.limit = RouteConfig[1], !.remaining = r.remaining]]
      BY <1>2, <2>1 DEF HeaderLimit, RequestStates
    <3> QED BY <3>1
  <2>2. CASE HeaderRemaining(q)
    <3>1. request' = [request EXCEPT ![q] =
                        [r EXCEPT !.pc = "reset", !.limit = r.limit, !.remaining = RemainingOf(KeyOf(q))]]
      BY <1>2, <2>2 DEF HeaderRemaining, RequestStates
    <3> QED BY <3>1
  <2>3. CASE HeaderReset(q)
    <3>1. request' = [request EXCEPT ![q] =
                        [r EXCEPT !.pc = "record", !.limit = r.limit, !.remaining = r.remaining]]
      BY <1>2, <2>3 DEF HeaderReset, Goto, RequestStates
    <3> QED BY <3>1
  <2> QED BY <2>1, <2>2, <2>3
<1>0. PICK limit, remaining :
        request' = [request EXCEPT ![q] =
                      [r EXCEPT !.pc = pc, !.limit = limit, !.remaining = remaining]]
  BY <1>3
<1> DEFINE n == [r EXCEPT !.pc = pc, !.limit = limit, !.remaining = remaining]
<1>4. /\ n.pc \in {"remaining", "reset", "record"}
      /\ n.path = r.path /\ n.status = r.status /\ n.reached = r.reached
      /\ n.allowed = r.allowed
  BY <1>2, <1>3 DEF RequestStates
<1>5. request' = [request EXCEPT ![q] = n]
  BY <1>0
<1> HIDE DEF n
<1>6. charged' = charged + 0 /\ n.allowed \in BOOLEAN /\ Ind(n.allowed) = 0 + Ind(r.allowed)
  BY <1>1, <1>2, <1>4 DEF MeterInv, TalliesTyped, Ind, RequestStates
<1>7. r.pc \in Deciding /\ UNCHANGED metricVars
  BY <1>1 DEF Deciding, FacadeCalls
<1> QED BY <1>4, <1>5, <1>6, <1>7, GoesOn

\* A failure forgets the decision: what was charged for it has no admission.
LEMMA FailureMetered ==
    ASSUME MeterInv, HeaderInv', NEW q \in Requests, ResolutionFails(q) \/ ScriptFails(q)
    PROVE  MeterInv'
<1> DEFINE r == request[q]
           n == Settled(r, "end")
<1>1. /\ request' = [request EXCEPT ![q] = n] /\ r.pc \in Deciding
      /\ UNCHANGED metricVars
  BY DEF ResolutionFails, ScriptFails, AfterFailure, At, Deciding, FacadeCalls
<1>2. PICK dc \in {0, 1} : charged' = charged + dc /\ (dc = 1 => ~r.allowed)
  <2>1. CASE UNCHANGED charged
    <3>1. charged' = charged + 0
      BY <2>1 DEF MeterInv, TalliesTyped
    <3> QED BY <3>1
  <2>2. CASE At(q, "allow") /\ Charge(KeyOf(q))
    <3>1. ~r.allowed
      BY <2>2, SoundOne DEF At, Sound
    <3>2. charged' = charged + 0 \/ charged' = charged + 1
      BY <2>2 DEF Charge, MeterInv, TalliesTyped
    <3> QED BY <3>1, <3>2
  <2> QED BY <2>1, <2>2 DEF ResolutionFails, ScriptFails
<1>3. /\ n.pc = "end" /\ n.path = r.path /\ n.status = r.status /\ n.reached = r.reached /\ ~n.allowed
  BY DEF Settled, Untouched
<1> HIDE DEF n
<1>4. Limited(r) /\ r.status = None /\ ~r.reached /\ r.path \in Paths
  BY <1>1, SoundOne DEF Sound, Limited
<1>5. Sound(n)
  BY <1>3, <1>4 DEF Sound, Deciding, FacadeCalls, None
<1>6. Balances(r, n, 0, 0, None, dc)
  <2>1. ~Rejecting(n) /\ ~Rejecting(r) /\ Failing(n) /\ ~Failing(r) /\ ~Through(n) /\ ~Through(r)
    BY <1>1, <1>3, <1>4 DEF Rejecting, Failing, Through, Deciding, FacadeCalls, None
  <2>2. \A s : ~Over(n, s) /\ ~Over(r, s)
    BY <1>1, <1>3 DEF Over, Deciding, FacadeCalls
  <2>3. (\A s \in Statuses : None # s) /\ "429" \in Statuses
    BY DEF None, Statuses
  <2>4. r.allowed \in BOOLEAN
    BY SoundOne DEF RequestStates
  <2>5. Ind(r.allowed) \in 0..1 /\ dc + Ind(r.allowed) <= 1 /\ Ind(n.allowed) = 0
    BY <1>2, <1>3, <2>4 DEF Ind
  <2>6. Ind(Failing(n)) = 1 /\ Ind(Failing(r)) = 0
    BY <2>1 DEF Ind
  <2>7. 0 + Ind(n.allowed) <= dc + Ind(r.allowed)
    BY <2>5
  <2>8. dc + Ind(r.allowed) + Ind(Failing(r)) <= 0 + Ind(n.allowed) + Ind(Failing(n))
    BY <2>5, <2>6
  <2> QED BY <2>1, <2>2, <2>3, <2>7, <2>8 DEF Balances, Ind
<1>7. TalliesTyped' /\ Counted(0, 0, None, dc)
  BY <1>1, <1>2, Uncounted
<1> QED BY <1>1, <1>2, <1>5, <1>6, <1>7, Moved

\* A decision is counted when the request leaves for the application or for a 429.
LEMMA RecordMetered ==
    ASSUME MeterInv, HeaderInv', NEW q \in Requests, Record(q)
    PROVE  MeterInv'
<1> DEFINE r == request[q]
           x == IF r.allowed THEN "allowed" ELSE "rejected"
           cell == <<Label(r.path), x>>
           n == [Settled(r, IF r.allowed THEN "app" ELSE "reject") EXCEPT !.reached = r.allowed]
<1>1. /\ r.pc = "record" /\ request' = [request EXCEPT ![q] = n]
      /\ decisions' = Count(decisions, cell) /\ UNCHANGED <<http, charged>>
  BY DEF Record, At
<1>2. r \in RequestStates /\ Limited(r) /\ r.path \in Paths /\ r.status = None /\ ~r.reached
  BY <1>1, SoundOne DEF Sound
<1>3. /\ n.pc = IF r.allowed THEN "app" ELSE "reject"
      /\ n.path = r.path /\ n.status = None /\ n.reached = r.allowed /\ n.allowed = FALSE
  BY <1>2 DEF Settled, Untouched
<1>4. Label(r.path) \in Labels /\ x \in Decisions /\ r.allowed \in BOOLEAN
  BY <1>2 DEF Labels, Decisions, RequestStates
<1> HIDE DEF n
<1>5. Limited(n) /\ Sound(n)
  BY <1>2, <1>3, <1>4 DEF Limited, Sound, Deciding, FacadeCalls, None
<1>6. /\ decisions \in [Labels \X Decisions -> Nat] /\ charged \in Nat
      /\ \A y \in Decisions : IsFiniteSet(Units(decisions, y))
  BY DEF MeterInv, TalliesTyped
<1>7. \A y \in Decisions :
         /\ decisions' \in [Labels \X Decisions -> Nat]
         /\ IsFiniteSet(Units(decisions', y))
         /\ Total(decisions', y) = Total(decisions, y) + Ind(x = y)
  <2> SUFFICES ASSUME NEW y \in Decisions
               PROVE  /\ Count(decisions, cell) \in [Labels \X Decisions -> Nat]
                      /\ IsFiniteSet(Units(Count(decisions, cell), y))
                      /\ Total(Count(decisions, cell), y) = Total(decisions, y) + Ind(x = y)
    BY <1>1
  <2>1. /\ decisions \in [Labels \X Decisions -> Nat] /\ Label(r.path) \in Labels
        /\ x \in Decisions /\ IsFiniteSet(Units(decisions, y))
    BY <1>4, <1>6
  <2> HIDE DEF x, r
  <2>2. Count(decisions, cell) \in [Labels \X Decisions -> Nat] /\ Total(decisions, y) \in Nat
    BY <1>1, <2>1, CountTyped, TotalsTyped DEF MeterInv
  <2>3. CASE x = y
    <3>1. /\ IsFiniteSet(Units(Count(decisions, cell), x))
          /\ Total(Count(decisions, cell), x) = Total(decisions, x) + 1
      BY <2>1, <2>3, CountsHere
    <3> QED BY <2>2, <2>3, <3>1 DEF Ind
  <2>4. CASE x # y
    <3>1. Units(Count(decisions, cell), y) = Units(decisions, y)
      BY <2>1, <2>4, CountsElsewhere
    <3> QED BY <2>1, <2>2, <2>4, <3>1 DEF Ind, Total
  <2> QED BY <2>3, <2>4
<1>8. TalliesTyped'
  <2>1. (\A y \in Decisions : IsFiniteSet(Units(decisions, y)))'
    BY <1>7 DEF Units
  <2>2. decisions' \in [Labels \X Decisions -> Nat]
    BY <1>4, <1>7
  <2>3. (\A s \in Statuses : IsFiniteSet(Units(http, s)))'
    BY <1>1 DEF MeterInv, TalliesTyped, Units
  <2> QED BY <1>1, <2>1, <2>2, <2>3 DEF MeterInv, TalliesTyped
<1>9. \A s \in Statuses : None # s /\ Total(http', s) = Total(http, s) + Ind(None = s)
  BY <1>1, TotalsTyped DEF MeterInv, Ind, None, Statuses
<1>10. CASE r.allowed
  <2>1. Counted(1, 0, None, 0)
    BY <1>1, <1>6, <1>7, <1>9, <1>10, TotalsTyped DEF MeterInv, Counted, Decisions, Ind
  <2>2. Balances(r, n, 1, 0, None, 0)
    BY <1>1, <1>2, <1>3, <1>5, <1>9, <1>10
       DEF Balances, Rejecting, Through, Over, Failing, Ind, None, Statuses
  <2> QED BY <1>1, <1>5, <1>8, <2>1, <2>2, Moved
<1>11. CASE ~r.allowed
  <2>1. Counted(0, 1, None, 0)
    BY <1>1, <1>6, <1>7, <1>9, <1>11, TotalsTyped DEF MeterInv, Counted, Decisions, Ind
  <2>2. Balances(r, n, 0, 1, None, 0)
    BY <1>1, <1>2, <1>3, <1>5, <1>9, <1>11
       DEF Balances, Rejecting, Through, Over, Failing, Ind, None, Statuses
  <2> QED BY <1>1, <1>5, <1>8, <2>1, <2>2, Moved
<1> QED BY <1>10, <1>11

\* Until it ends, a response that is sent is not counted, and its request stays what it is.
LEMMA SendsMetered ==
    ASSUME MeterInv, HeaderInv', NEW q \in Requests, Respond(q) \/ AppStarts(q) \/ AppEnds(q)
    PROVE  MeterInv'
<1> DEFINE r == request[q]
<1>1. UNCHANGED <<metricVars, charged>>
  BY DEF Respond, AppStarts, AppEnds
<1>2. r \in RequestStates /\ request \in [Requests -> RequestStates] /\ Sound(r)
  BY SoundOne
<1>3. PICK pc \in {"stream", "end"}, st \in {"200", "401", "429", None} :
        /\ request' = [request EXCEPT ![q] = [r EXCEPT !.pc = pc, !.status = st]]
        /\ \/ r.pc = "refuse" /\ pc = "end" /\ st = "401"
           \/ r.pc = "reject" /\ pc = "end" /\ st = "429"
           \/ r.pc = "app" /\ pc = "stream" /\ st = "200"
           \/ r.pc = "app" /\ pc = "end" /\ st = None
           \/ r.pc = "stream" /\ pc = "end" /\ st = "200"
  <2>1. CASE Respond(q)
    <3>1. CASE r.pc = "refuse"
      <4>1. request' = [request EXCEPT ![q] = [r EXCEPT !.pc = "end", !.status = "401"]]
        BY <1>2, <2>1, <3>1 DEF Respond, At
      <4> QED BY <3>1, <4>1
    <3>2. CASE r.pc = "reject"
      <4>1. request' = [request EXCEPT ![q] = [r EXCEPT !.pc = "end", !.status = "429"]]
        BY <1>2, <2>1, <3>2 DEF Respond, At
      <4> QED BY <3>2, <4>1
    <3> QED BY <2>1, <3>1, <3>2 DEF Respond
  <2>2. CASE AppStarts(q)
    <3>1. r.pc = "app" /\ r.status = None
      BY <1>2, <2>2 DEF AppStarts, At, Sound
    <3>2. CASE request' = [request EXCEPT ![q].pc = "stream", ![q].status = "200"]
      <4>1. request' = [request EXCEPT ![q] = [r EXCEPT !.pc = "stream", !.status = "200"]]
        BY <1>2, <3>2
      <4> QED BY <3>1, <4>1
    <3>3. CASE Goto(q, "end")
      <4>1. request' = [request EXCEPT ![q] = [r EXCEPT !.pc = "end", !.status = r.status]]
        BY <1>2, <3>3 DEF Goto, RequestStates
      <4> QED BY <3>1, <4>1
    <3> QED BY <2>2, <3>2, <3>3 DEF AppStarts
  <2>3. CASE AppEnds(q)
    <3>1. r.pc = "stream" /\ r.status = "200"
      BY <1>2, <2>3 DEF AppEnds, At, Sound
    <3>2. request' = [request EXCEPT ![q] = [r EXCEPT !.pc = "end", !.status = r.status]]
      BY <1>2, <2>3 DEF AppEnds, Goto, RequestStates
    <3> QED BY <3>1, <3>2
  <2> QED BY <2>1, <2>2, <2>3
<1> DEFINE n == [r EXCEPT !.pc = pc, !.status = st]
<1>4. /\ request' = [request EXCEPT ![q] = n] /\ n.pc = pc /\ n.status = st
      /\ n.path = r.path /\ n.reached = r.reached /\ n.allowed = r.allowed
  BY <1>2, <1>3 DEF RequestStates
<1> HIDE DEF n
<1>5. Sound(n)
  BY <1>2, <1>3, <1>4 DEF Sound, Limited, Deciding, FacadeCalls, None
<1>6. Balances(r, n, 0, 0, None, 0)
  <2>1. Through(n) <=> Through(r)
    BY <1>4 DEF Through, Limited
  <2>2. ~r.allowed /\ ~n.allowed /\ \A s : ~Over(n, s) /\ ~Over(r, s)
    BY <1>2, <1>3, <1>4 DEF Over, Sound, Deciding, FacadeCalls
  <2>3. (Rejecting(n) <=> Rejecting(r)) /\ ~Failing(n) /\ ~Failing(r)
    BY <1>2, <1>3, <1>4 DEF Rejecting, Failing, Sound, None
  <2>4. (\A s \in Statuses : None # s) /\ None # "429"
    BY DEF None, Statuses
  <2> QED BY <2>1, <2>2, <2>3, <2>4 DEF Balances, Ind
<1>7. charged' = charged + 0
  BY <1>1 DEF MeterInv, TalliesTyped
<1>8. TalliesTyped' /\ Counted(0, 0, None, 0)
  BY <1>1, <1>7, Uncounted
<1> QED BY <1>4, <1>5, <1>6, <1>8, Moved

\* The finally clause counts the response once, an unanswered request as an error.
LEMMA FinallyMetered ==
    ASSUME MeterInv, HeaderInv', NEW q \in Requests, Finally(q)
    PROVE  MeterInv'
<1> DEFINE r == request[q]
           f == FinalStatus(r)
           n == [Settled(r, "done") EXCEPT !.status = f]
<1>1. /\ r.pc = "end" /\ request' = [request EXCEPT ![q] = n]
      /\ http' = Count(http, <<Label(r.path), f>>) /\ UNCHANGED <<decisions, charged>>
  BY DEF Finally, At
<1>2. /\ r \in RequestStates /\ r.path \in Paths /\ r.status # "error" /\ Sound(r) /\ ~r.allowed
      /\ r.status = "200" => r.reached
  BY <1>1, SoundOne DEF Sound, Deciding, FacadeCalls
<1>3. f \in Statuses /\ f = (IF r.status = None THEN "error" ELSE r.status)
  BY <1>2 DEF FinalStatus, RequestStates, Statuses
<1>4. n.pc = "done" /\ n.path = r.path /\ n.status = f /\ n.reached = r.reached /\ n.allowed = FALSE
  BY DEF Settled, Untouched
<1>5. Label(r.path) \in Labels
  BY <1>2 DEF Labels
<1> HIDE DEF n, f
<1>6. Sound(n)
  BY <1>2, <1>3, <1>4 DEF Limited, Sound, Deciding, FacadeCalls, None
<1>7. /\ http \in [Labels \X Statuses -> Nat] /\ charged \in Nat
      /\ \A s \in Statuses : IsFiniteSet(Units(http, s))
  BY DEF MeterInv, TalliesTyped
<1>8. \A s \in Statuses :
         /\ http' \in [Labels \X Statuses -> Nat]
         /\ IsFiniteSet(Units(http', s))
         /\ Total(http', s) = Total(http, s) + Ind(f = s)
  <2> DEFINE cell == <<Label(r.path), f>>
  <2> SUFFICES ASSUME NEW s \in Statuses
               PROVE  /\ Count(http, cell) \in [Labels \X Statuses -> Nat]
                      /\ IsFiniteSet(Units(Count(http, cell), s))
                      /\ Total(Count(http, cell), s) = Total(http, s) + Ind(f = s)
    BY <1>1
  <2>1. /\ http \in [Labels \X Statuses -> Nat] /\ Label(r.path) \in Labels
        /\ f \in Statuses /\ IsFiniteSet(Units(http, s))
    BY <1>3, <1>5, <1>7
  <2> HIDE DEF r
  <2>2. Count(http, cell) \in [Labels \X Statuses -> Nat] /\ Total(http, s) \in Nat
    BY <1>1, <2>1, CountTyped, TotalsTyped DEF MeterInv
  <2>3. CASE f = s
    <3>1. /\ IsFiniteSet(Units(Count(http, cell), f))
          /\ Total(Count(http, cell), f) = Total(http, f) + 1
      BY <2>1, <2>3, CountsHere
    <3> QED BY <2>2, <2>3, <3>1 DEF Ind
  <2>4. CASE f # s
    <3>1. Units(Count(http, cell), s) = Units(http, s)
      BY <2>1, <2>4, CountsElsewhere
    <3> QED BY <2>1, <2>2, <2>4, <3>1 DEF Ind, Total
  <2> QED BY <2>3, <2>4
<1>9. TalliesTyped'
  <2>1. (\A s \in Statuses : IsFiniteSet(Units(http, s)))'
    BY <1>8 DEF Units
  <2>2. http' \in [Labels \X Statuses -> Nat]
    BY <1>3, <1>8
  <2>3. (\A y \in Decisions : IsFiniteSet(Units(decisions, y)))'
    BY <1>1 DEF MeterInv, TalliesTyped, Units
  <2> QED BY <1>1, <2>1, <2>2, <2>3 DEF MeterInv, TalliesTyped
<1>10. Counted(0, 0, f, 0)
  BY <1>1, <1>7, <1>8, TotalsTyped DEF MeterInv, Counted, Decisions
<1>11. Balances(r, n, 0, 0, f, 0)
  <2>1. Through(n) <=> Through(r)
    BY <1>4 DEF Through, Limited
  <2>2. \A s : ~Over(r, s) /\ (Over(n, s) <=> f = s)
    BY <1>1, <1>4 DEF Over
  <2>3. ~Rejecting(n) /\ (Rejecting(r) <=> f = "429")
    BY <1>1, <1>3, <1>4 DEF Rejecting, None
  <2>4. Failing(n) <=> Failing(r)
    BY <1>1, <1>2, <1>3, <1>4 DEF Failing, None
  <2> QED BY <1>2, <1>4, <2>1, <2>2, <2>3, <2>4 DEF Balances, Ind
<1> QED BY <1>1, <1>6, <1>9, <1>10, <1>11, Moved

\* What changes nothing that is counted: the facade, the clock, the policy, other workers.
LEMMA QuietMetered ==
    ASSUME MeterInv, HeaderInv',
           \/ \E q \in Requests : LookUp(q) \/ Reuse(q) \/ Make(q)
           \/ \E c \in Configs : PolicyChanges(c)
           \/ TimePasses
           \/ \E k \in Keys : OtherWorker(k)
           \/ UNCHANGED mwVars
    PROVE  MeterInv'
<1>1. request \in [Requests -> RequestStates]
  BY DEF MeterInv, HeaderInv, RequestsTyped
<1>2. UNCHANGED <<metricVars, charged>>
  BY DEF LookUp, Reuse, Make, PolicyChanges, TimePasses, OtherWorker, mwVars
<1>3. CASE \/ \E q \in Requests : LookUp(q) \/ Reuse(q)
           \/ \E k \in Keys : OtherWorker(k)
           \/ UNCHANGED mwVars
  <2>1. request' = request
    BY <1>3 DEF LookUp, Reuse, OtherWorker, mwVars
  <2> QED BY <1>2, <2>1, Unmoved DEF Alike
<1>4. ASSUME NEW q \in Requests, Make(q) PROVE MeterInv'
  <2>1. request' = [request EXCEPT ![q].same = FALSE]
    BY <1>4 DEF Make
  <2>2. \A p \in Requests : Alike(request[p], request'[p])
    BY <1>1, <2>1 DEF Alike, RequestStates
  <2> QED BY <1>2, <2>2, Unmoved
<1>5. ASSUME NEW c \in Configs, PolicyChanges(c) PROVE MeterInv'
  <2>1. request' = [q \in Requests |-> IF request[q].pc \in Deciding
                                          THEN [request[q] EXCEPT !.steady = FALSE] ELSE request[q]]
    BY <1>5 DEF PolicyChanges, Disturbed
  <2>2. \A p \in Requests : Alike(request[p], request'[p])
    BY <1>1, <2>1 DEF Alike, RequestStates
  <2> QED BY <1>2, <2>2, Unmoved
<1>6. CASE TimePasses
  <2>1. request' = [q \in Requests |-> IF request[q].pc \in Deciding
                       THEN [request[q] EXCEPT !.same = @ /\ backend = "redis"] ELSE request[q]]
    BY <1>6 DEF TimePasses, Disturbed
  <2>2. \A p \in Requests : Alike(request[p], request'[p])
    BY <1>1, <2>1 DEF Alike, RequestStates
  <2> QED BY <1>2, <2>2, Unmoved
<1> QED BY <1>3, <1>4, <1>5, <1>6

\* Every step preserves the invariant.
LEMMA MeterStep ==
    ASSUME MeterInv, [MiddlewareNext]_mwVars
    PROVE  MeterInv'
<1>1. HeaderInv'
  BY HeaderStep DEF MeterInv
<1>2. ASSUME NEW q \in Requests, HandleRequest(q) PROVE MeterInv'
  <2>1. ASSUME NEW p \in Paths, NEW c \in Clients, Arrive(q, p, c) PROVE MeterInv'
    BY <1>1, <2>1, ArriveMetered
  <2>2. CASE LookUp(q) \/ Reuse(q) \/ Make(q)
    BY <1>1, <2>2, QuietMetered
  <2>3. CASE Decide(q) \/ HeaderLimit(q) \/ HeaderRemaining(q) \/ HeaderReset(q)
    BY <1>1, <2>3, DecideMetered, HeadersMetered
  <2>4. CASE ResolutionFails(q) \/ ScriptFails(q)
    BY <1>1, <2>4, FailureMetered
  <2>5. CASE Record(q) \/ Respond(q) \/ AppStarts(q) \/ AppEnds(q) \/ Finally(q)
    BY <1>1, <2>5, RecordMetered, SendsMetered, FinallyMetered
  <2> QED BY <1>2, <2>1, <2>2, <2>3, <2>4, <2>5 DEF HandleRequest
<1> QED BY <1>1, <1>2, QuietMetered DEF MiddlewareNext

\* At first nothing is counted and nobody has arrived.
LEMMA MeterInit == MiddlewareInit => MeterInv
<1> SUFFICES ASSUME MiddlewareInit PROVE MeterInv
  OBVIOUS
<1>1. /\ \A q \in Requests : request[q] = Untouched
      /\ decisions = [x \in Labels \X Decisions |-> 0] /\ http = [x \in Labels \X Statuses |-> 0]
      /\ charged = 0
  BY DEF MiddlewareInit, Decisions
<1>2. /\ Untouched.pc = "none" /\ ~Untouched.allowed /\ ~Untouched.reached /\ Untouched.status = None
  BY DEF Untouched
<1>3. \A q \in Requests : Sound(request[q])
  BY <1>1, <1>2 DEF Sound, Deciding, FacadeCalls, None
<1>4. /\ RejectingNow = {} /\ ThroughNow = {} /\ FailingNow = {} /\ AllowedNow = {}
      /\ \A s \in Statuses : OverNow(s) = {}
  BY <1>1, <1>2 DEF RejectingNow, ThroughNow, FailingNow, AllowedNow, OverNow,
     Rejecting, Through, Failing, Over, None
<1>5. ASSUME NEW S, NEW c, c = [x \in Labels \X S |-> 0], NEW x \in S
      PROVE  Units(c, x) = {}
  <2>1. \A l \in Labels : 1..c[<<l, x>>] = {}
    BY <1>5
  <2> QED BY <2>1 DEF Units
<1>6. /\ \A x \in Decisions : Units(decisions, x) = {}
      /\ \A s \in Statuses : Units(http, s) = {}
  BY <1>1, <1>5
<1>7. TalliesTyped
  BY <1>1, <1>6, FS_EmptySet DEF TalliesTyped
<1>8. Agree /\ ChargesAgree
  <2>1. /\ Total(decisions, "allowed") = 0 /\ Total(decisions, "rejected") = 0
        /\ \A s \in Statuses : Total(http, s) = 0
    BY <1>6, FS_EmptySet DEF Total, Decisions
  <2>2. /\ Cardinality(RejectingNow) = 0 /\ Cardinality(ThroughNow) = 0
        /\ Cardinality(FailingNow) = 0 /\ Cardinality(AllowedNow) = 0
        /\ \A s \in Statuses : Cardinality(OverNow(s)) = 0
    BY <1>4, FS_EmptySet
  <2>3. "429" \in Statuses
    BY DEF Statuses
  <2> QED BY <1>1, <2>1, <2>2, <2>3 DEF Agree, ChargesAgree
<1> QED BY <1>3, <1>7, <1>8, HeaderInit DEF MeterInv

(***************************************************************************)
(* For any number of requests, paths and labels, on both backends and      *)
(* whatever fails: the two counters agree with each other and with what    *)
(* happened to the requests, and nobody reaches a limited route without a  *)
(* decision.                                                               *)
(***************************************************************************)
THEOREM MetersAgree == MiddlewareSpec => []Metered
<1>1. MeterInv => Metered
  <2> SUFFICES ASSUME MeterInv PROVE Metered
    OBVIOUS
  <2>1. /\ NumberOf(LAMBDA r : r.pc = "reject" \/ (r.pc = "end" /\ r.status = "429"))
              = Cardinality(RejectingNow)
        /\ NumberOf(LAMBDA r : Limited(r) /\ r.reached) = Cardinality(ThroughNow)
        /\ \A s : NumberOf(LAMBDA r : r.pc = "done" /\ r.status = s) = Cardinality(OverNow(s))
    BY DEF NumberOf, RejectingNow, ThroughNow, OverNow, Rejecting, Through, Over
  <2>2. Total(http, "200") <= NumberOf(LAMBDA r : r.reached)
    <3> DEFINE R == {q \in Requests : request[q].reached}
    <3>1. OverNow("200") \subseteq R
      BY DEF MeterInv, OverNow, Over, Sound
    <3>2. IsFiniteSet(R)
      BY MiddlewareAssumption, FS_Subset DEF MiddlewareAssumption
    <3>3. Cardinality(OverNow("200")) <= Cardinality(R)
      BY <3>1, <3>2, FS_Subset
    <3>4. Total(http, "200") = Cardinality(OverNow("200"))
      BY DEF MeterInv, Agree, Statuses
    <3> QED BY <3>3, <3>4 DEF NumberOf
  <2> QED BY <2>1, <2>2 DEF MeterInv, Agree, Metered
<1>2. MeterInv /\ [MiddlewareNext]_mwVars => MeterInv'
  BY MeterStep
<1> QED BY MeterInit, <1>1, <1>2, PTL DEF MiddlewareSpec

(***************************************************************************)
(* No admission goes uncharged, and what was charged without an admission  *)
(* is no more than the requests that failed, through retunes, evictions,   *)
(* expiries and Redis failures.                                            *)
(***************************************************************************)
THEOREM BudgetIsAccounted == MiddlewareSpec => []BudgetAccounted
<1>1. MeterInv => BudgetAccounted
  <2> SUFFICES ASSUME MeterInv PROVE BudgetAccounted
    OBVIOUS
  <2>1. Admitted = Total(decisions, "allowed") + Cardinality(AllowedNow)
    BY DEF Admitted, NumberOf, AllowedNow
  <2>2. Failed = Cardinality(FailingNow)
    BY DEF Failed, NumberOf, FailingNow, Failing
  <2> QED BY <2>1, <2>2 DEF MeterInv, ChargesAgree, BudgetAccounted
<1>2. MeterInv /\ [MiddlewareNext]_mwVars => MeterInv'
  BY MeterStep
<1> QED BY MeterInit, <1>1, <1>2, PTL DEF MiddlewareSpec
=============================================================================
