----------------------------- MODULE Bandwidth -----------------------------
(***************************************************************************)
(* The arithmetic of the control plane: how bandwidth is clamped to a      *)
(* slice's limits, how a congestion decision moves it towards CRITICAL,    *)
(* and how a clear decision moves it back to the startup allocation.       *)
(*                                                                         *)
(* The code computes in floating point Mbit/s.  Here an amount is a whole  *)
(* number of units, Mbps units to one Mbit/s, and every product rounds     *)
(* down to a unit, so each operation is within one unit of the code's.      *)
(***************************************************************************)
EXTENDS Integers

CONSTANTS
    Mbps,               \* units per Mbit/s: the resolution of the model
    TotalBudget,        \* SystemConfig.total_bandwidth_mbps
    InitialBandwidth,   \* SliceConfig.bandwidth_mbps at startup
    MinBandwidth,       \* SliceConfig.min_bandwidth_mbps
    MaxBandwidth        \* SliceConfig.max_bandwidth_mbps

Slices == {"CRITICAL", "STANDARD", "BACKGROUND"}

ASSUME ResolutionAssumption == Mbps \in Nat \ {0} /\ TotalBudget \in Nat \ {0}

ASSUME LimitsAssumption ==
    /\ InitialBandwidth \in [Slices -> Nat]
    /\ MinBandwidth \in [Slices -> Nat]
    /\ MaxBandwidth \in [Slices -> Nat]
    /\ \A s \in Slices : /\ MinBandwidth[s] <= InitialBandwidth[s]
                         /\ InitialBandwidth[s] <= MaxBandwidth[s]

Lesser(a, b) == IF a <= b THEN a ELSE b
Greater(a, b) == IF a >= b THEN a ELSE b

Total(a) == a["CRITICAL"] + a["STANDARD"] + a["BACKGROUND"]

WithinLimits(a) ==
    \A s \in Slices : MinBandwidth[s] <= a[s] /\ a[s] <= MaxBandwidth[s]

-----------------------------------------------------------------------------
(* NetworkSlicer.adjust_bandwidth: the slices named in adj take the value
   asked for, clamped to their limits; the others keep theirs. *)

(* Faulty variant: only the maximum is enforced. *)
ClampAbove(s, bw) == Lesser(MaxBandwidth[s], bw)

Clamp(s, bw) == Greater(MinBandwidth[s], Lesser(MaxBandwidth[s], bw))

Adjusted(alloc, adj) ==
    [s \in Slices |-> IF s \in DOMAIN adj THEN Clamp(s, adj[s]) ELSE alloc[s]]

-----------------------------------------------------------------------------
(* DecisionEngine._act_congested: take up to 10 Mbit/s from BACKGROUND and
   5 from STANDARD, give CRITICAL 70% of it, and scale the result down when
   it exceeds the budget. *)

Headroom(alloc, s, cap) == Lesser(cap * Mbps, alloc[s] - MinBandwidth[s])

Transfer(alloc) ==
    Headroom(alloc, "BACKGROUND", 10) + Headroom(alloc, "STANDARD", 5)

Percent(p, x) == (p * x) \div 100

(* Faulty variant: the shares of CRITICAL and BACKGROUND are swapped. *)
ShiftedSwapped(alloc) ==
    LET t == Transfer(alloc)
    IN  [s \in Slices |->
           CASE s = "CRITICAL" ->
                  Greater(MinBandwidth[s], alloc[s] - Percent(40, t))
             [] s = "STANDARD" ->
                  Greater(MinBandwidth[s], alloc[s] - Percent(30, t))
             [] s = "BACKGROUND" ->
                  Lesser(MaxBandwidth[s], alloc[s] + Percent(70, t))]

Shifted(alloc) ==
    LET t == Transfer(alloc)
    IN  [s \in Slices |->
           CASE s = "CRITICAL" ->
                  Lesser(MaxBandwidth[s], alloc[s] + Percent(70, t))
             [] s = "STANDARD" ->
                  Greater(MinBandwidth[s], alloc[s] - Percent(30, t))
             [] s = "BACKGROUND" ->
                  Greater(MinBandwidth[s], alloc[s] - Percent(40, t))]

(* Faulty variant: nothing is scaled. *)
NotNormalized(a) == a

Normalized(a) ==
    IF Total(a) > TotalBudget
    THEN [s \in Slices |-> (a[s] * TotalBudget) \div Total(a)]
    ELSE a

CongestedTarget(alloc) == Normalized(Shifted(alloc))

(* Faulty variant: rebalance to the values of the moment. *)
NormalStuck(alloc) == alloc

(* DecisionEngine._act_normal: every slice moves halfway to its startup value. *)
NormalTarget(alloc) ==
    [s \in Slices |-> alloc[s] + ((InitialBandwidth[s] - alloc[s]) \div 2)]

=============================================================================
