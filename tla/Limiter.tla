------------------------------ MODULE Limiter ------------------------------
(***************************************************************************)
(* What the four in-process algorithms of app/algorithms have in common:   *)
(* the three calls of the RateLimiter interface (allow_request,            *)
(* remaining_requests, reset_time), the (limit, window) pair that          *)
(* RateLimiter._retune rewrites while the limiter lives, and the clock.    *)
(*                                                                         *)
(* Time is counted in ticks, SEC of them to a second, so that int()        *)
(* truncation to whole seconds is visible.  Every call of a limiter runs   *)
(* under its own lock, so one call is one action; a call that reads the    *)
(* monotonic clock twice may see it advance by up to MaxLag ticks.         *)
(***************************************************************************)
EXTENDS Integers, Sequences

CONSTANTS
    Limits,     \* the limits a policy may set
    Windows,    \* the window lengths a policy may set, in seconds
    MaxLimit,   \* an upper bound of Limits
    MinPeriod,  \* a lower bound of the windows, in ticks
    SEC,        \* ticks per second
    MaxLag,     \* ticks the clock may advance inside one call
    MaxTime     \* the clock stops here (bound of the model)

(***************************************************************************)
(* Startup validation and RoutePolicy admit only limits and windows >= 1.  *)
(***************************************************************************)
ASSUME LimiterAssumption ==
    /\ Limits \subseteq Nat \ {0} /\ Windows \subseteq Nat \ {0}
    /\ SEC \in Nat \ {0} /\ MaxLag \in Nat /\ MaxTime \in Nat
    /\ MaxLimit \in Nat /\ \A l \in Limits : l <= MaxLimit
    /\ MinPeriod \in Nat /\ \A w \in Windows : w * SEC \in Nat /\ MinPeriod <= w * SEC

VARIABLES
    now,     \* time.monotonic(), in ticks
    limit,   \* limiter.limit, or limiter.capacity of a bucket
    window,  \* limiter.window in seconds; the rate of a bucket is limit/window
    log,     \* history: the times at which requests were admitted
    reply    \* the answer of the call that led to this state

common == <<now, limit, window, log, reply>>

Period == window * SEC

\* max(0, int(t)) of a duration of t ticks, in seconds
IntSeconds(t) == IF t > 0 THEN t \div SEC ELSE 0

\* max(0, limit - n): what is left of the limit when n are in use
LeftUnclamped(n) == limit - n
Left(n) == IF limit > n THEN limit - n ELSE 0

Replies == [op : {"none", "allow", "remaining", "reset"}, ok : BOOLEAN, val : Nat]
NoReply == [op |-> "none", ok |-> FALSE, val |-> 0]
Allow(b) == [op |-> "allow", ok |-> b, val |-> 0]
Answer(op, n) == [op |-> op, ok |-> TRUE, val |-> n]

Admitted == reply.op = "allow" /\ reply.ok
Rejected == reply.op = "allow" /\ ~reply.ok

CommonTypeOK ==
    /\ now \in 0..MaxTime
    /\ limit \in Limits
    /\ window \in Windows
    /\ log \in Seq(Nat)
    /\ reply \in Replies

CommonInit ==
    /\ now = 0
    /\ limit \in Limits
    /\ window \in Windows
    /\ log = <<>>
    /\ reply = NoReply

\* The clock moves on by itself, between calls
Tick ==
    /\ now < MaxTime
    /\ now' = now + 1
    /\ reply' = NoReply
    /\ UNCHANGED <<limit, window, log>>

\* The clock moves on by d between two readings inside one call
Lag(d) ==
    /\ now + d <= MaxTime
    /\ now' = now + d

\* RateLimiter._retune: the new policy is written into the live limiter,
\* whose recorded state is left as it is
Retune(l, w) ==
    /\ <<l, w>> # <<limit, window>>
    /\ limit' = l
    /\ window' = w
    /\ reply' = NoReply
    /\ UNCHANGED <<now, log>>

\* Admissions are recorded in the order of the clock
LogOrdered ==
    /\ \A i \in 1..Len(log) : log[i] <= now
    /\ \A i, k \in 1..Len(log) : i <= k => log[i] <= log[k]

(***************************************************************************)
(* At most n admissions in any interval of p ticks: of any n + 1           *)
(* consecutive admissions the last is at least p ticks after the first.    *)
(***************************************************************************)
Spaced(n, p) == \A i \in 1..(Len(log) - n) : log[i] + p <= log[i + n]

(***************************************************************************)
(* At least n requests were admitted in the last p ticks.                  *)
(***************************************************************************)
Spent(n, p) == Len(log) >= n /\ (n > 0 => log[Len(log) - n + 1] > now - p)
=============================================================================
