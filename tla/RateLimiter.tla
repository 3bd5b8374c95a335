----------------------------- MODULE RateLimiter -----------------------------
(***************************************************************************)
(* What a slice's bandwidth enforcement promises: a reservoir of credit    *)
(* that fills at the current rate, second by second, up to its depth.  A   *)
(* packet passes exactly when the credit covers it.                        *)
(*                                                                         *)
(* A change of rate may re-evaluate the credit of the time since the last  *)
(* packet; it never grants more than a full reservoir of the new depth,    *)
(* and never takes back the credit that had been counted.                  *)
(***************************************************************************)
EXTENDS Integers

CONSTANTS
    Rates,          \* the rates a slice can be given, in bytes per second
    InitialRate,
    BurstFactor,    \* seconds of traffic the reservoir holds
    Sizes           \* packet sizes in bytes

VARIABLES
    rate,
    depth,      \* how much credit the reservoir can hold
    level,      \* the credit in it
    verdict     \* whether the last packet passed

lvars == <<rate, depth, level, verdict>>

LInit ==
    /\ rate = InitialRate
    /\ depth = BurstFactor * InitialRate
    /\ level = depth
    /\ verdict = TRUE

Second ==
    /\ level' = IF level + rate <= depth THEN level + rate ELSE depth
    /\ UNCHANGED <<rate, depth, verdict>>

Pass(n) ==
    /\ n <= level
    /\ level' = level - n
    /\ verdict' = TRUE
    /\ UNCHANGED <<rate, depth>>

Refuse(n) ==
    /\ n > level
    /\ verdict' = FALSE
    /\ UNCHANGED <<rate, depth, level>>

ChangeRate(r) ==
    \E counted \in 0 .. level :
        /\ rate' = r
        /\ depth' = IF counted <= BurstFactor * r THEN BurstFactor * r ELSE counted
        /\ level' \in counted .. depth'
        /\ UNCHANGED verdict

LNext ==
    \/ Second
    \/ \E n \in Sizes : Pass(n) \/ Refuse(n)
    \/ \E r \in Rates : ChangeRate(r)

LSpec == LInit /\ [][LNext]_lvars

=============================================================================
