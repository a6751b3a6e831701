------------------------------- MODULE Bucket -------------------------------
(***************************************************************************)
(* What the two bucket algorithms share: a capacity (the variable limit)   *)
(* and a rate, limit/window per second.  Quantities that the code keeps as *)
(* floats are whole numbers of 1/Unit of a request; Unit is a multiple of  *)
(* every window, so rates are whole numbers of these parts per tick and    *)
(* the arithmetic is exact (float rounding is left out).                   *)
(*                                                                         *)
(* _retune runs under the facade's lock, not under the limiter's, and      *)
(* writes capacity before rate: calls of other threads may see the new     *)
(* capacity with the old rate.                                             *)
(***************************************************************************)
EXTENDS Limiter

CONSTANTS
    Unit,      \* parts of one request
    MinLimit,  \* a lower bound of Limits
    MinRate,   \* bounds of the rates, in parts per tick
    MaxRate

\* factory.py and _retune: limit / window, in parts per tick
Rate(l, w) == l * (Unit \div (w * SEC))

ASSUME BucketAssumption ==
    /\ Unit \in Nat \ {0} /\ MinLimit \in Nat \ {0}
    /\ MinRate \in Nat \ {0} /\ MaxRate \in Nat
    /\ \A l \in Limits : MinLimit <= l
    /\ \A l \in Limits, w \in Windows :
          /\ Rate(l, w) \in Nat
          /\ MinRate <= Rate(l, w)
          /\ Rate(l, w) <= MaxRate

VARIABLE rate  \* limiter.refill_rate or limiter.leak_rate

Rates == {Rate(l, w) : l \in Limits, w \in Windows}

BucketInit == CommonInit /\ rate = Rate(limit, window)

Tuned == rate = Rate(limit, window)

\* The two assignments of _retune for a bucket
RetuneCapacity(l, w) == Tuned /\ Retune(l, w) /\ UNCHANGED rate
RetuneRate ==
    /\ ~Tuned
    /\ rate' = Rate(limit, window)
    /\ reply' = NoReply
    /\ UNCHANGED <<now, limit, window, log>>
=============================================================================
