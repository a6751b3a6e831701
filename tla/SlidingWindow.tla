--------------------------- MODULE SlidingWindow ---------------------------
(***************************************************************************)
(* app/algorithms/sliding_window.py: the default algorithm.  The deque     *)
(* holds the time stamps of the admitted requests that are still inside    *)
(* the window; every call first pops the expired ones from its left end.   *)
(***************************************************************************)
EXTENDS Limiter

VARIABLE requests  \* self.requests, oldest first

SlidingVars == <<now, limit, window, log, reply, requests>>

ExpiredPrefixOffByOne(s, j, cutoff) ==
    /\ \A i \in 1..j : s[i] <= cutoff + 1
    /\ j < Len(s) => s[j + 1] > cutoff + 1

ExpiredPrefixKeepsOne(s, j, cutoff) ==
    /\ j < Len(s) \/ j = 0
    /\ \A i \in 1..j : s[i] <= cutoff
    /\ j + 1 < Len(s) => s[j + 1] > cutoff

(***************************************************************************)
(* The pop loop of _remove_expired_requests stops at the first time stamp  *)
(* that is later than the cutoff: it pops exactly the first j of s.        *)
(***************************************************************************)
ExpiredPrefix(s, j, cutoff) ==
    /\ \A i \in 1..j : s[i] <= cutoff
    /\ j < Len(s) => s[j + 1] > cutoff

\* The deque after j pops
Popped(j) == SubSeq(requests, j + 1, Len(requests))

\* allow_request goes through when fewer than limit requests are recorded
HasRoomInclusive(n) == n <= limit
HasRoom(n) == n < limit

SlidingTypeOK ==
    /\ CommonTypeOK
    /\ requests \in Seq(Nat)

SlidingInit ==
    /\ CommonInit
    /\ requests = <<>>

AllowRequest ==
    \E j \in 0..Len(requests) :
        /\ ExpiredPrefix(requests, j, now - Period)
        /\ \/ /\ HasRoom(Len(requests) - j)
              /\ \E d \in 0..MaxLag : Lag(d)
              /\ requests' = Append(Popped(j), now')
              /\ log' = Append(log, now')
              /\ reply' = Allow(TRUE)
           \/ /\ ~HasRoom(Len(requests) - j)
              /\ requests' = Popped(j)
              /\ reply' = Allow(FALSE)
              /\ UNCHANGED <<now, log>>
        /\ UNCHANGED <<limit, window>>

RemainingRequests ==
    \E j \in 0..Len(requests) :
        /\ ExpiredPrefix(requests, j, now - Period)
        /\ requests' = Popped(j)
        /\ reply' = Answer("remaining", Left(Len(requests) - j))
        /\ UNCHANGED <<now, limit, window, log>>

\* The second clock reading of reset_time is compared with the oldest stamp
SecondsLeftNoWindow(s, t) == IF s = <<>> THEN 0 ELSE IntSeconds(s[1] - t)
SecondsLeft(s, t) == IF s = <<>> THEN 0 ELSE IntSeconds(s[1] + Period - t)

ResetTime ==
    \E j \in 0..Len(requests) :
        /\ ExpiredPrefix(requests, j, now - Period)
        /\ \E d \in 0..MaxLag : Lag(d)
        /\ requests' = Popped(j)
        /\ reply' = Answer("reset", SecondsLeft(Popped(j), now'))
        /\ UNCHANGED <<limit, window, log>>

SlidingNext ==
    \/ AllowRequest
    \/ RemainingRequests
    \/ ResetTime
    \/ Tick /\ UNCHANGED requests
    \/ \E l \in Limits, w \in Windows : Retune(l, w) /\ UNCHANGED requests

SlidingSpec == SlidingInit /\ [][SlidingNext]_SlidingVars

----------------------------------------------------------------------------
(***************************************************************************)
(* However policies are changed while the limiter lives, no interval of    *)
(* the shortest window ever sees more admissions than the highest limit.   *)
(* (README: "No edge bursts".)                                             *)
(***************************************************************************)
WindowBound == Spaced(MaxLimit, MinPeriod)

(***************************************************************************)
(* A rejection is never wrong: at the moment of a 429 the client has had   *)
(* limit requests admitted within the window in force, whatever policy     *)
(* changes and read-only calls came in between.                            *)
(***************************************************************************)
RejectedOnlyWhenSpent == Rejected => Spent(limit, Period)

(***************************************************************************)
(* The deque is exactly the recent end of the admission history, and       *)
(* everything _remove_expired_requests has ever forgotten, under whatever  *)
(* policy was in force then, is older than the shortest window.  This is   *)
(* the fact the window bound rests on.                                     *)
(***************************************************************************)
Forgotten == Len(log) - Len(requests)
Accounted ==
    /\ Forgotten >= 0
    /\ \A i \in 1..Len(requests) : requests[i] = log[Forgotten + i]
    /\ \A i \in 1..Forgotten : log[i] + MinPeriod <= now

\* Would a request at time t be admitted, were nothing to happen until then?
AdmitsAt(t) ==
    \E j \in 0..Len(requests) :
        /\ ExpiredPrefix(requests, j, t - Period)
        /\ HasRoom(Len(requests) - j)

(***************************************************************************)
(* The Retry-After of a full window errs by less than a second: one second *)
(* after it the client is admitted.  The value itself is rounded down, so  *)
(* a client that waits exactly that long may be early.  (After a           *)
(* tightening the deque may hold more than limit stamps; then the oldest   *)
(* one does not decide.)                                                   *)
(***************************************************************************)
RetryAfterWithinASecond ==
    reply.op = "reset" /\ Len(requests) = limit => AdmitsAt(now + (reply.val + 1) * SEC)
=============================================================================
