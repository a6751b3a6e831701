---------------------------- MODULE LeakyBucket ----------------------------
(***************************************************************************)
(* app/algorithms/leaky_bucket.py: a queue of admitted requests that       *)
(* drains at leak_rate.  The time stamps in the deque are never read, so   *)
(* the queue is its length.  A call first removes the whole requests that  *)
(* have leaked since last_leak_time.                                       *)
(* Names that TokenBucket also has carry Leaky, so that a module can       *)
(* extend both.                                                            *)
(***************************************************************************)
EXTENDS Bucket

VARIABLES
    queue,           \* len(self.queue)
    last_leak_time   \* self.last_leak_time

LeakyVars == <<now, limit, window, log, reply, rate, queue, last_leak_time>>

\* int(elapsed_time * leak_rate)
Leaked(t) == ((t - last_leak_time) * rate) \div Unit

\* _leak: the queue and last_leak_time it leaves behind at time t
QueueAt(t) == IF Leaked(t) < queue THEN queue - Leaked(t) ELSE 0
LeakTimeAlways(t) == t
LeakTimeNever(t) == last_leak_time
LeakTimeAt(t) == IF Leaked(t) > 0 THEN t ELSE last_leak_time

Leak(added) ==
    /\ queue' = QueueAt(now) + added
    /\ last_leak_time' = LeakTimeAt(now)

LeakyTypeOK ==
    /\ CommonTypeOK
    /\ rate \in Rates
    /\ queue \in 0..MaxLimit
    /\ last_leak_time \in Nat

LeakyInit ==
    /\ BucketInit
    /\ queue = 0
    /\ last_leak_time = now

HasSlot(n) == n < limit

LeakyAllowRequest ==
    /\ \/ /\ HasSlot(QueueAt(now))
          /\ Leak(1)
          /\ log' = Append(log, now)
          /\ reply' = Allow(TRUE)
       \/ /\ ~HasSlot(QueueAt(now))
          /\ Leak(0)
          /\ reply' = Allow(FALSE)
          /\ UNCHANGED log
    /\ UNCHANGED <<now, limit, window, rate>>

LeakyRemainingRequests ==
    /\ Leak(0)
    /\ reply' = Answer("remaining", Left(QueueAt(now)))
    /\ UNCHANGED <<now, limit, window, log, rate>>

\* int((len(queue) - capacity + 1) / leak_rate), 0 when there is a slot
SecondsToSlotFromFull(n) == IF n < limit THEN 0 ELSE Unit \div (rate * SEC)
SecondsToSlot(n) == IF n < limit THEN 0 ELSE ((n - limit + 1) * Unit) \div (rate * SEC)

LeakyResetTime ==
    /\ Leak(0)
    /\ reply' = Answer("reset", SecondsToSlot(QueueAt(now)))
    /\ UNCHANGED <<now, limit, window, log, rate>>

LeakyNext ==
    \/ LeakyAllowRequest
    \/ LeakyRemainingRequests
    \/ LeakyResetTime
    \/ /\ \/ Tick /\ UNCHANGED rate
          \/ \E l \in Limits, w \in Windows : RetuneCapacity(l, w)
          \/ RetuneRate
       /\ UNCHANGED <<queue, last_leak_time>>

LeakySpec == LeakyInit /\ [][LeakyNext]_LeakyVars

----------------------------------------------------------------------------
\* What one leak of the slowest policy may have pending when the fastest takes over
Slack == MaxRate * ((Unit + MinRate - 1) \div MinRate)

(***************************************************************************)
(* Between any two admissions no more requests pass than a full queue, the *)
(* drain of the fastest policy in the time between them and the pending    *)
(* slack, however policies change meanwhile.                               *)
(***************************************************************************)
LeakyBurstBound ==
    \A i, k \in 1..Len(log) :
        i <= k => (k - i + 1) * Unit
                     <= MaxLimit * Unit + MaxRate * (log[k] - log[i]) + Slack

(***************************************************************************)
(* _leak throws the fraction of a request away whenever it removes whole   *)
(* ones.  What this costs is bounded: a request is rejected only if the    *)
(* client is over what a queue of the strictest policy that drains at half *)
(* the rate would hold.                                                    *)
(***************************************************************************)
RejectedOnlyAboveHalfRate ==
    Rejected => \E i \in 1..Len(log) :
        2 * (Len(log) - i + 1) * Unit + Unit
           > 2 * MinLimit * Unit + MinRate * (now - log[i])

(***************************************************************************)
(* One second after the advertised reset time there is a slot, also when   *)
(* the capacity was cut below the length of the queue.                     *)
(***************************************************************************)
LeakyRetryAfterWithinASecond ==
    reply.op = "reset" => HasSlot(QueueAt(now + (reply.val + 1) * SEC))

=============================================================================
