---------------------------- MODULE FixedWindow ----------------------------
(***************************************************************************)
(* app/algorithms/fixed_window.py: one counter and the start of the window *)
(* it counts.  A call that finds the window over starts a new one at the   *)
(* time of the call, so windows are not aligned to the clock.              *)
(* Names that SlidingWindow also has carry Fixed, so that a module can     *)
(* extend both.                                                            *)
(***************************************************************************)
EXTENDS Limiter

VARIABLES
    request_count,  \* self.request_count
    window_start    \* self.window_start

FixedVars == <<now, limit, window, log, reply, request_count, window_start>>

\* _reset_if_needed: the window that started at s is over at time t
OverLate(s, t) == t - s > Period
Over(s, t) == t - s >= Period

CountAt(t) == IF Over(window_start, t) THEN 0 ELSE request_count
StartAt(t) == IF Over(window_start, t) THEN t ELSE window_start

ResetIfNeeded(c) ==
    /\ request_count' = c
    /\ window_start' = StartAt(now)

FixedHasRoomInclusive(n) == n <= limit
FixedHasRoom(n) == n < limit

FixedTypeOK ==
    /\ CommonTypeOK
    /\ request_count \in Nat
    /\ window_start \in Nat

FixedInit ==
    /\ CommonInit
    /\ request_count = 0
    /\ window_start = now

FixedAllowRequest ==
    /\ \/ /\ FixedHasRoom(CountAt(now))
          /\ ResetIfNeeded(CountAt(now) + 1)
          /\ log' = Append(log, now)
          /\ reply' = Allow(TRUE)
       \/ /\ ~FixedHasRoom(CountAt(now))
          /\ ResetIfNeeded(CountAt(now))
          /\ reply' = Allow(FALSE)
          /\ UNCHANGED log
    /\ UNCHANGED <<now, limit, window>>

FixedRemainingRequests ==
    /\ ResetIfNeeded(CountAt(now))
    /\ reply' = Answer("remaining", Left(CountAt(now)))
    /\ UNCHANGED <<now, limit, window, log>>

\* The end of the window is compared with a second clock reading
FixedSecondsLeftNoWindow(s, t) == IntSeconds(s - t)
FixedSecondsLeft(s, t) == IntSeconds(s + Period - t)

FixedResetTime ==
    /\ ResetIfNeeded(CountAt(now))
    /\ \E d \in 0..MaxLag : Lag(d)
    /\ reply' = Answer("reset", FixedSecondsLeft(StartAt(now), now'))
    /\ UNCHANGED <<limit, window, log>>

FixedNext ==
    \/ FixedAllowRequest
    \/ FixedRemainingRequests
    \/ FixedResetTime
    \/ Tick /\ UNCHANGED <<request_count, window_start>>
    \/ \E l \in Limits, w \in Windows :
          Retune(l, w) /\ UNCHANGED <<request_count, window_start>>

FixedSpec == FixedInit /\ [][FixedNext]_FixedVars

----------------------------------------------------------------------------
(***************************************************************************)
(* A burst at the edge of a window admits at most twice the limit, under   *)
(* every sequence of policy changes: no interval of the shortest window    *)
(* sees more than 2 * MaxLimit admissions.  (README: "burst at window      *)
(* edges can admit up to 2x limit".)                                       *)
(***************************************************************************)
FixedWindowBound == Spaced(2 * MaxLimit, MinPeriod)

(***************************************************************************)
(* The counter counts the admissions since window_start and no others, the *)
(* window before held at most MaxLimit, and everything before that is a    *)
(* whole window older than window_start.                                   *)
(***************************************************************************)
Earlier == Len(log) - request_count
FixedAccounted ==
    /\ request_count <= MaxLimit
    /\ Earlier >= 0
    /\ window_start <= now
    /\ \A i \in 1..Len(log) : i <= Earlier => log[i] <= window_start
    /\ \A i \in 1..Len(log) : i > Earlier => log[i] >= window_start
    /\ \A i \in 1..(Earlier - MaxLimit) : log[i] + MinPeriod <= window_start

(***************************************************************************)
(* A rejection is never wrong: limit requests were admitted within the     *)
(* window in force, whatever policy changes came in between.               *)
(***************************************************************************)
FixedRejectedOnlyWhenSpent == Rejected => Spent(limit, Period)

(***************************************************************************)
(* One second after the advertised reset time the client is admitted,      *)
(* also when the limit was tightened below what is already counted.        *)
(***************************************************************************)
FixedAdmitsAt(t) == Over(window_start, t) \/ FixedHasRoom(request_count)
FixedRetryAfterWithinASecond ==
    reply.op = "reset" => FixedAdmitsAt(now + (reply.val + 1) * SEC)
=============================================================================
