----------------------------- MODULE TokenMeter -----------------------------
(***************************************************************************)
(* What a token bucket is to the service it protects, independent of how   *)
(* it is kept: a budget that grows by the rate at every tick of the clock, *)
(* up to the capacity, and of which every admitted request takes one.      *)
(* Looking at it changes nothing, and only an empty one refuses.  What a   *)
(* change of the policy does to the budget is left open, but for its       *)
(* bounds: a cut of the capacity or a raise of it takes no token that fits *)
(* in, and a changed rate may count for time that has already passed.      *)
(***************************************************************************)
EXTENDS Naturals

CONSTANT Unit  \* parts of one request

VARIABLES clock, capacity, rate, budget, answer

vars == <<clock, capacity, rate, budget, answer>>

Full == capacity * Unit
AtMost(n, most) == IF n < most THEN n ELSE most

Init == budget = Full /\ answer = "none"

Elapse ==
    /\ clock' = clock + 1
    /\ budget' = AtMost(budget + rate, Full)
    /\ answer' = "none"
    /\ UNCHANGED <<capacity, rate>>

Admit ==
    /\ budget >= Unit
    /\ budget' = budget - Unit
    /\ answer' = "admitted"
    /\ UNCHANGED <<clock, capacity, rate>>

Refuse ==
    /\ budget < Unit
    /\ answer' = "refused"
    /\ UNCHANGED <<clock, capacity, rate, budget>>

Look == answer' = "none" /\ UNCHANGED <<clock, capacity, rate, budget>>

ChangeCapacity ==
    /\ capacity' # capacity
    /\ AtMost(budget, Full') <= budget' /\ budget' <= Full'
    /\ answer' = "none"
    /\ UNCHANGED <<clock, rate>>

ChangeRate ==
    /\ rate' # rate
    /\ budget' <= Full
    /\ answer' = "none"
    /\ UNCHANGED <<clock, capacity>>

Next == Elapse \/ Admit \/ Refuse \/ Look \/ ChangeCapacity \/ ChangeRate

Spec == Init /\ [][Next]_vars
=============================================================================
