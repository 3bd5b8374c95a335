----------------------------- MODULE TokenBucket -----------------------------
(***************************************************************************)
(* AsyncTokenBucket, the bandwidth enforcement of one slice.  Tokens are   *)
(* bytes and time is counted in whole seconds, so that every product is a  *)
(* whole number.  The bucket refills only when a packet asks for tokens;   *)
(* update_rate changes the rate without settling the seconds since then.   *)
(*                                                                         *)
(* The lock is never held across a suspension: consume and update_rate are *)
(* atomic.  served and mark are history variables.                         *)
(***************************************************************************)
EXTENDS Integers

CONSTANTS
    Rates,          \* bytes per second: bandwidth_mbps * 125000
    InitialRate,
    BurstFactor,    \* burst_factor
    Sizes,          \* size_bytes of the packets
    MaxTime         \* bound: the last second of a run

ASSUME BucketAssumption ==
    /\ Rates \subseteq Nat
    /\ InitialRate \in Rates
    /\ BurstFactor \in Nat \ {0}
    /\ Sizes \subseteq Nat
    /\ MaxTime \in Nat

VARIABLES
    rate,       \* _rate
    capacity,   \* _capacity
    tokens,     \* _tokens
    last,       \* _last
    now,        \* time.monotonic()
    verdict,    \* what the last consume returned
    served,     \* bytes let through since the start
    mark        \* served, tokens and last when the rate was set

vars == <<rate, capacity, tokens, last, now, verdict, served, mark>>

Lesser(a, b) == IF a <= b THEN a ELSE b
Greater(a, b) == IF a >= b THEN a ELSE b

Init ==
    /\ rate = InitialRate
    /\ capacity = BurstFactor * InitialRate
    /\ tokens = capacity
    /\ last = 0
    /\ now = 0
    /\ verdict = TRUE
    /\ served = 0
    /\ mark = [served |-> 0, tokens |-> tokens, last |-> 0]

(* Faulty variant: the refill is not capped. *)
RefilledUncapped == tokens + (now - last) * rate

(* What the bucket holds once the seconds since _last are counted. *)
Refilled == Lesser(capacity, tokens + (now - last) * rate)

(* Faulty variant: the time of the refill is not recorded when the packet is
   refused. *)
ConsumeForgetful(n) ==
    /\ last' = IF Refilled >= n THEN now ELSE last
    /\ verdict' = (Refilled >= n)
    /\ tokens' = IF Refilled >= n THEN Refilled - n ELSE Refilled
    /\ served' = IF Refilled >= n THEN served + n ELSE served
    /\ UNCHANGED <<rate, capacity, now, mark>>

Consume(n) ==
    /\ last' = now
    /\ verdict' = (Refilled >= n)
    /\ tokens' = IF Refilled >= n THEN Refilled - n ELSE Refilled
    /\ served' = IF Refilled >= n THEN served + n ELSE served
    /\ UNCHANGED <<rate, capacity, now, mark>>

(* Faulty variant: the capacity only ever follows the tokens. *)
UpdateRateShrinking(r) ==
    /\ rate' = r
    /\ capacity' = Lesser(BurstFactor * r, tokens)
    /\ mark' = [served |-> served, tokens |-> tokens, last |-> last]
    /\ UNCHANGED <<tokens, last, now, verdict, served>>

(* Faulty variant: a new rate comes with a full bucket. *)
UpdateRateRefills(r) ==
    /\ rate' = r
    /\ capacity' = BurstFactor * r
    /\ tokens' = capacity'
    /\ mark' = [served |-> served, tokens |-> tokens, last |-> last]
    /\ UNCHANGED <<last, now, verdict, served>>

(* update_rate: the tokens stay, and the capacity makes room for them. *)
UpdateRate(r) ==
    /\ rate' = r
    /\ capacity' = Greater(BurstFactor * r, tokens)
    /\ mark' = [served |-> served, tokens |-> tokens, last |-> last]
    /\ UNCHANGED <<tokens, last, now, verdict, served>>

Elapse ==
    /\ now < MaxTime
    /\ now' = now + 1
    /\ UNCHANGED <<rate, capacity, tokens, last, verdict, served, mark>>

Next ==
    \/ \E n \in Sizes : Consume(n)
    \/ \E r \in Rates : UpdateRate(r)
    \/ Elapse

Spec == Init /\ [][Next]_vars

-----------------------------------------------------------------------------
Marks == [served : Nat, tokens : Nat, last : Nat]

TypeOK ==
    /\ rate \in Rates
    /\ capacity \in Nat
    /\ tokens \in 0 .. capacity
    /\ now \in 0 .. MaxTime
    /\ last \in 0 .. now
    /\ verdict \in BOOLEAN
    /\ served \in Nat
    /\ mark \in Marks
    /\ mark.served <= served
    /\ mark.last <= last

(* Since the rate was set, a slice has let through no more than the tokens it
   had then and what the rate adds since its last refill before that: the
   seconds since that refill are priced at the new rate, whichever way it
   changed. *)
ServiceSinceRateChange ==
    served - mark.served <= mark.tokens + rate * (now - mark.last)

(* Over a whole run, with any sequence of reallocations, a slice lets through
   no more than a burst at its highest rate and that rate ever since. *)
ServiceWithin(top) == served <= BurstFactor * top + top * now
TopRate == CHOOSE top \in Rates : \A r \in Rates : r <= top
ServiceBounded == ServiceWithin(TopRate)

(* After BurstFactor seconds without a packet a full burst at the current
   rate passes, however often and far the rate was changed meanwhile. *)
PauseRestoresBurst ==
    now - last >= BurstFactor => Refilled >= BurstFactor * rate

(* The bucket that refills lazily behaves like the one that fills with time. *)
Limiter == INSTANCE RateLimiter WITH depth <- capacity, level <- Refilled
ImplementsLimiter == Limiter!LSpec

=============================================================================
