--------------------------- MODULE DecisionEngine ---------------------------
(***************************************************************************)
(* The closed loop of the control plane: the decision engine, the slicer's *)
(* allocation it rewrites, and the REST override that rewrites it too.     *)
(*                                                                         *)
(* Everything runs on one event loop, and neither adjust_bandwidth nor the *)
(* token bucket's lock ever suspends its caller, so the body of the loop   *)
(* after its sleep is one atomic step: a tick.  A tick is given            *)
(*   r    how the score compares with the adaptive threshold: at or above  *)
(*        it ("high"), at or below 70% of it ("low"), in between ("dead"), *)
(*   d    the seconds since the previous tick (the loop sleeps one second  *)
(*        and may be late),                                                *)
(*   lat  the mean CRITICAL latency the telemetry reports.                 *)
(* Before the first telemetry snapshot a tick does nothing: it is a        *)
(* stuttering step here.                                                   *)
(***************************************************************************)
EXTENDS Bandwidth, Sequences, FiniteSets

CONSTANTS
    Cooldown,           \* decision_cooldown_s
    HysteresisCount,    \* hysteresis_count
    RollbackWindow,     \* rollback_window_s
    LogCapacity,        \* maxlen of the actions deque
    MaxSleep,           \* bound: the longest time between two ticks
    Latencies,          \* bound: the CRITICAL latencies that can be reported
    OverrideRequests    \* bound: the bodies POST /api/bandwidth can carry

ASSUME TimingAssumption ==
    /\ Cooldown \in Nat \ {0}
    /\ HysteresisCount \in Nat \ {0}
    /\ RollbackWindow \in Nat \ {0}
    /\ LogCapacity \in Nat \ {0}
    /\ MaxSleep \in Nat \ {0}
    /\ Latencies \subseteq Nat

ASSUME OverrideAssumption ==
    \A req \in OverrideRequests :
        /\ DOMAIN req \subseteq Slices
        /\ \A s \in DOMAIN req : req[s] \in Int

Readings == {"high", "dead", "low"}
Sleeps == 1 .. MaxSleep

VARIABLES
    alloc,      \* bandwidth_mbps of every slice
    high,       \* _high_count
    low,        \* _low_count
    age,        \* seconds since _last_action_time, counted up to Cooldown
    pending,    \* _pending_rollback, or NoRollback
    log         \* actions, newest first

vars == <<alloc, high, low, age, pending, log>>

-----------------------------------------------------------------------------
(* The records the engine keeps. *)

Triggers == {"congestion_spike", "congestion_clear", "rollback"}

Action(t) == [trigger |-> t, rolledBack |-> FALSE]

Actions == [trigger : Triggers, rolledBack : BOOLEAN]

(* The snapshot a congestion decision leaves behind: the allocation before
   it, the CRITICAL latency before it, the seconds until the rollback check,
   and where in the log the decision is now (0 for no snapshot). *)
Snapshot(a, lat) ==
    [alloc |-> a, baseline |-> lat, due |-> RollbackWindow, pos |-> 1]

NoRollback == [alloc |-> InitialBandwidth, baseline |-> 0, due |-> 0, pos |-> 0]

IsPending == pending.pos # 0

(* Faulty variant: a deque without a maxlen. *)
PrependUnbounded(act, g) == <<act>> \o g

(* appendleft on a deque with a maxlen: the oldest entry falls off. *)
Prepend(act, g) ==
    [i \in 1 .. Lesser(Len(g) + 1, LogCapacity) |->
        IF i = 1 THEN act ELSE g[i - 1]]

(* Faulty variant: the pending rollback remembers an index. *)
ShiftNever(p) == p

(* The pending rollback holds a reference to its action, not an index. *)
Shift(p) == IF p.pos = 0 THEN p ELSE [p EXCEPT !.pos = @ + 1]

FlagRolledBack(g, pos) ==
    [i \in DOMAIN g |->
        IF i = pos THEN [g[i] EXCEPT !.rolledBack = TRUE] ELSE g[i]]

-----------------------------------------------------------------------------
Init ==
    /\ alloc = InitialBandwidth
    /\ high = 0
    /\ low = 0
    /\ age = Cooldown       \* _last_action_time is 0.0, long ago
    /\ pending = NoRollback
    /\ log = << >>

(* _maybe_rollback.  It is called when the window of the pending rollback is
   over; it reverts the allocation when CRITICAL latency is at least 1.1
   times its baseline.  It takes no account of the cooldown. *)

Judged(d) == IsPending /\ pending.due <= d

Reverts(d, lat) == Judged(d) /\ 10 * lat >= 11 * pending.baseline

AllocJudged(d, lat) ==
    IF Reverts(d, lat) THEN Adjusted(alloc, pending.alloc) ELSE alloc

LogJudged(d, lat) ==
    IF Reverts(d, lat)
    THEN Prepend(Action("rollback"), FlagRolledBack(log, pending.pos))
    ELSE log

(* Faulty variant: the judged rollback is not forgotten. *)
PendingKept(d) ==
    IF IsPending THEN [pending EXCEPT !.due = Greater(0, @ - d)] ELSE NoRollback

PendingJudged(d) ==
    IF IsPending /\ ~Judged(d) THEN [pending EXCEPT !.due = @ - d]
                               ELSE NoRollback

(* The hysteresis counters: a reading in the dead band resets neither. *)
HighAfter(r) ==
    CASE r = "high" -> high + 1 [] r = "low" -> 0 [] r = "dead" -> high

(* Faulty variant: a high reading does not reset the count of low ones. *)
LowSticky(r) == IF r = "low" THEN low + 1 ELSE low

LowAfter(r) ==
    CASE r = "high" -> 0 [] r = "low" -> low + 1 [] r = "dead" -> low

Cooled(d) == age + d >= Cooldown

Congested(r, d) == Cooled(d) /\ HighAfter(r) >= HysteresisCount
Cleared(r, d) == Cooled(d) /\ LowAfter(r) >= HysteresisCount

(* A tick that ends in _act_congested.  The snapshot replaces whatever
   rollback was still pending. *)
TickCongested(r, d, lat) ==
    LET before == AllocJudged(d, lat)
    IN  /\ Congested(r, d)
        /\ alloc' = Adjusted(before, CongestedTarget(before))
        /\ high' = 0
        /\ low' = LowAfter(r)
        /\ age' = 0
        /\ pending' = Snapshot(before, lat)
        /\ log' = Prepend(Action("congestion_spike"), LogJudged(d, lat))

(* A tick that ends in _act_normal: the pending rollback stays. *)
TickNormal(r, d, lat) ==
    LET before == AllocJudged(d, lat)
    IN  /\ ~Congested(r, d)
        /\ Cleared(r, d)
        /\ alloc' = Adjusted(before, NormalTarget(before))
        /\ high' = HighAfter(r)
        /\ low' = 0
        /\ age' = 0
        /\ pending' = Shift(PendingJudged(d))
        /\ log' = Prepend(Action("congestion_clear"), LogJudged(d, lat))

(* A tick that takes no decision; it may still roll one back. *)
TickQuiet(r, d, lat) ==
    /\ ~Congested(r, d)
    /\ ~Cleared(r, d)
    /\ alloc' = AllocJudged(d, lat)
    /\ high' = HighAfter(r)
    /\ low' = LowAfter(r)
    /\ age' = Lesser(Cooldown, age + d)
    /\ pending' = PendingJudged(d)
    /\ log' = LogJudged(d, lat)

Tick(r) ==
    \E d \in Sleeps, lat \in Latencies :
        \/ TickCongested(r, d, lat)
        \/ TickNormal(r, d, lat)
        \/ TickQuiet(r, d, lat)

(* POST /api/bandwidth.  A body whose k-th value is not a number fails after
   the slices before it were adjusted, which is the request for those alone. *)
Override(req) ==
    /\ alloc' = Adjusted(alloc, req)
    /\ UNCHANGED <<high, low, age, pending, log>>

Next ==
    \/ \E r \in Readings : Tick(r)
    \/ \E req \in OverrideRequests : Override(req)

(* The loop is never blocked, so it keeps ticking. *)
Spec == Init /\ [][Next]_vars /\ WF_vars(\E r \in Readings : Tick(r))

-----------------------------------------------------------------------------
Snapshots ==
    [alloc : [Slices -> Nat], baseline : Nat,
     due : 0 .. RollbackWindow, pos : Nat]

TypeOK ==
    /\ alloc \in [Slices -> Nat]
    /\ high \in Nat
    /\ low \in Nat
    /\ age \in 0 .. Cooldown
    /\ pending \in Snapshots
    /\ log \in Seq(Actions)
    /\ Len(log) <= LogCapacity

(* Starvation prevention: whatever mix of decisions, rollbacks and operator
   overrides ran, no slice is below its minimum or above its maximum, and the
   snapshot a rollback would restore is not either. *)
AllocWithinLimits == WithinLimits(alloc) /\ WithinLimits(pending.alloc)

Spikes(g) == {i \in 1 .. Len(g) : g[i].trigger = "congestion_spike"}
Rollbacks(g) == {i \in 1 .. Len(g) : g[i].trigger = "rollback"}

(* The decision at pos is the newest congestion decision of the log, not
   judged yet, and no rollback is newer. *)
Unjudged(g, pos) ==
    /\ pos <= Len(g) => pos \in Spikes(g) /\ ~g[pos].rolledBack
    /\ \A i \in Spikes(g) \cup Rollbacks(g) : pos <= i

(* A congestion decision is flagged exactly when a rollback record follows it
   with no congestion decision in between. *)
FlagsMatch(g) ==
    \A i \in Spikes(g) :
        g[i].rolledBack <=>
            \E j \in Rollbacks(g) :
                j < i /\ \A k \in Spikes(g) : ~(j < k /\ k < i)

(* There is a congestion decision between any two rollbacks. *)
Alternates(g) ==
    \A i, j \in Rollbacks(g) : i < j => \E k \in Spikes(g) : i < k /\ k < j

(* The action a pending rollback refers to is the newest congestion decision
   of the log (unless the log is so short that it fell off), still unflagged:
   so a rollback flags the decision it undoes and no other. *)
PendingIsLatestSpike == IsPending => Unjudged(log, pending.pos)

(* No congestion decision is undone twice, none is undone silently, and none
   is reported as undone that was not. *)
RollbacksMatchSpikes == FlagsMatch(log) /\ Alternates(log)

(* The cooldown is no longer than the count of readings a decision needs, as in
   config.py (3 s, 3 readings; the loop sleeps a second between two of them), so
   it never holds a trigger back: no count is ever left full.  Each decision is
   then taken on the reading that completes its count, never on an old one or on
   one from the dead band, however many of those came before. *)
TriggersAreFresh ==
    Cooldown <= HysteresisCount =>
        high < HysteresisCount /\ low < HysteresisCount

(* A step that took a congestion decision: pending'.alloc is then the
   allocation it started from, after any rollback of the same tick. *)
SpikeTaken ==
    /\ age' = 0
    /\ 1 \in Spikes(log')
    /\ <<high, low, age, pending, log>>' # <<high, low, age, pending, log>>

(* What is left of the code's "total doesn't exceed budget": a congestion
   decision brings the total back to the budget however far operators had pushed
   it over, up to what clamping BACKGROUND to its minimum adds after the scaling,
   which is less than 1.3 Mbit/s. *)
CongestionKeepsBudget ==
    [][SpikeTaken => 10 * (Total(alloc') - TotalBudget) <= 13 * Mbps]_vars

(* From an allocation that is within the budget, or over it by at most one
   Mbit/s, a congestion decision never lowers CRITICAL and never raises
   BACKGROUND. *)
CongestionFavoursCritical ==
    [][SpikeTaken /\ Total(pending'.alloc) <= TotalBudget + Mbps =>
         /\ pending'.alloc["CRITICAL"] <= alloc'["CRITICAL"]
         /\ alloc'["BACKGROUND"] <= pending'.alloc["BACKGROUND"]]_vars

(* What GET /metrics exports as counters: the decisions in the log, and those
   that are flagged as rolled back. *)
DecisionsTotal(g) == Len(g)
RollbacksTotal(g) == Cardinality({i \in DOMAIN g : g[i].rolledBack})

(* Once every reading is low and operators stay away, the allocation comes
   back to the startup one (up to a unit) and stays there. *)
Restored == \A s \in Slices :
    alloc[s] \in InitialBandwidth[s] - 1 .. InitialBandwidth[s]

Rebalances == <>[][Tick("low")]_vars => <>[]Restored

(* engine.py's design guarantee "Rollback: if metrics don't improve within the
   rollback window, revert": every pending rollback is judged some day. *)
RollbackJudged == IsPending ~> ~IsPending

=============================================================================
