------------------------------ MODULE Telemetry ------------------------------
(***************************************************************************)
(* What the control loop knows of the network: the rolling windows of one  *)
(* slice (RollingStats), the snapshot the collector rebuilds at every tick *)
(* (_update_state), the score the inference loop computes in another       *)
(* thread from the window of ticks and writes into whatever snapshot is    *)
(* current then, and what the decision engine does to the snapshot before  *)
(* it decides (DecisionEngine models the decision).                        *)
(*                                                                         *)
(* The three loops sleep 0.1, 0.5 and 1 seconds; here they run in any      *)
(* order.  A tick stands for its feature vector, and a score for the last  *)
(* tick it was computed from.  past, all results ever recorded, is a       *)
(* history variable.                                                       *)
(***************************************************************************)
EXTENDS Samples, SequencesExt

CONSTANTS
    Window,         \* _WINDOW: samples in a rolling window
    MlWindow,       \* ml_window_size
    MinWindow,      \* ticks before the first inference
    Budget,         \* latency_budget_ms
    Latencies,      \* bound: the latencies of delivered packets
    Depths,         \* bound: the queue depths the engine can inject
    MaxResults,     \* bound: results recorded
    MaxTime,        \* bound: the last instant
    MaxWait,        \* bound: how long a result waits in the results queue
    MaxTicks,       \* bound: telemetry ticks
    MaxChecks       \* bound: breaches counted

ASSUME TelemetryAssumption ==
    /\ Window \in Nat \ {0} /\ MlWindow \in Nat \ {0}
    /\ MinWindow \in 1 .. MlWindow
    /\ Budget \in Nat /\ Latencies \subseteq Nat /\ Depths \subseteq Nat
    /\ MaxResults \in Nat /\ MaxTime \in Nat /\ MaxWait \in Nat
    /\ MaxTicks \in Nat /\ MaxChecks \in Nat

VARIABLES
    latencies,  \* RollingStats._latencies: of delivered packets
    sizes,      \* RollingStats._sizes: of delivered packets
    lost,       \* RollingStats._dropped: 1 for a dropped packet
    stamps,     \* RollingStats._timestamps
    past,
    now,
    state,      \* the current NetworkState: none or one
    ticks,      \* snapshots taken so far
    window,     \* _ml_window
    lastScore,  \* _last_congestion_score
    inference,  \* the window the inference thread works on: none or one
    breaches,   \* _sla_breach_counts
    logged      \* SLA events

stats == <<latencies, sizes, lost, stamps, past, now>>
vars == <<stats, state, ticks, window, lastScore, inference, breaches, logged>>

(* Faulty variant: a deque without a maxlen. *)
PushUnbounded(d, x, maxlen) == Append(d, x)

(* append on a deque with a maxlen. *)
Push(d, x, maxlen) ==
    IF Len(d) < maxlen THEN Append(d, x) ELSE Append(Tail(d), x)

Bytes == 1      \* every packet has the same size

Init ==
    /\ latencies = <<>> /\ sizes = <<>> /\ lost = <<>> /\ stamps = <<>>
    /\ past = <<>>
    /\ now = 0
    /\ state = <<>>
    /\ ticks = 0
    /\ window = <<>>
    /\ lastScore = 0
    /\ inference = <<>>
    /\ breaches = 0
    /\ logged = 0

-----------------------------------------------------------------------------
(* RollingStats.record, called by TelemetryCollector._consume.  A result
   carries the time it was made at, and may have waited since. *)
Stamps == {at \in 0 .. now : at + MaxWait >= now}

(* Faulty variant: a dropped packet has a size too. *)
RecordSizesAll(isLost, latency, at) ==
    /\ Len(past) < MaxResults
    /\ past' = Append(past, [at |-> at, lost |-> isLost, latency |-> latency])
    /\ stamps' = Push(stamps, at, Window)
    /\ lost' = Push(lost, IF isLost THEN 1 ELSE 0, Window)
    /\ latencies' = IF isLost THEN latencies ELSE Push(latencies, latency, Window)
    /\ sizes' = Push(sizes, Bytes, Window)
    /\ UNCHANGED <<now, state, ticks, window, lastScore, inference, breaches, logged>>

Record(isLost, latency, at) ==
    /\ Len(past) < MaxResults
    /\ past' = Append(past, [at |-> at, lost |-> isLost, latency |-> latency])
    /\ stamps' = Push(stamps, at, Window)
    /\ lost' = Push(lost, IF isLost THEN 1 ELSE 0, Window)
    /\ IF isLost
       THEN UNCHANGED <<latencies, sizes>>
       ELSE /\ latencies' = Push(latencies, latency, Window)
            /\ sizes' = Push(sizes, Bytes, Window)
    /\ UNCHANGED <<now, state, ticks, window, lastScore, inference, breaches, logged>>

Elapse ==
    /\ now < MaxTime
    /\ now' = now + 1
    /\ UNCHANGED <<latencies, sizes, lost, stamps, past, state, ticks, window,
                   lastScore, inference, breaches, logged>>

(* Faulty variant: a window without a packet is over budget. *)
OverBudgetOrEqual == SumOf(latencies) >= Budget * Len(latencies)

(* latency_ms, the mean of the window, is over the slice's budget. *)
OverBudget == SumOf(latencies) > Budget * Len(latencies)

-----------------------------------------------------------------------------
(* _update_state: a new snapshot with the last score, and a new tick in the
   window of the model. *)
Snapshot(score, depth) ==
    [tick |-> ticks', over |-> OverBudget, score |-> score, depth |-> depth]

(* Faulty variant: a new snapshot starts without a score. *)
TickForgetful ==
    /\ ticks < MaxTicks
    /\ ticks' = ticks + 1
    /\ state' = <<Snapshot(0, 0)>>
    /\ window' = Push(window, ticks', MlWindow)
    /\ UNCHANGED <<stats, lastScore, inference, breaches, logged>>

TelemetryTick ==
    /\ ticks < MaxTicks
    /\ ticks' = ticks + 1
    /\ state' = <<Snapshot(lastScore, 0)>>
    /\ window' = Push(window, ticks', MlWindow)
    /\ UNCHANGED <<stats, lastScore, inference, breaches, logged>>

(* ml_inference_loop wakes up: a copy of the window goes to the executor. *)
InferenceStarts ==
    /\ inference = <<>>
    /\ Len(window) >= MinWindow
    /\ inference' = <<window>>
    /\ UNCHANGED <<stats, state, ticks, window, lastScore, breaches, logged>>

(* _infer_sync: the padded or truncated window goes through the model. *)
ScoreOf(w) == Last(w)

(* Faulty variant: the first tick of the window is taken for the last. *)
InferenceEndsAtHead ==
    /\ inference # <<>>
    /\ inference' = <<>>
    /\ lastScore' = Head(inference[1])
    /\ state' = IF state = <<>> THEN state
                ELSE <<[state[1] EXCEPT !.score = lastScore']>>
    /\ UNCHANGED <<stats, ticks, window, breaches, logged>>

(* Faulty variant: a failed inference clears the score. *)
InferenceClears ==
    /\ inference # <<>>
    /\ inference' = <<>>
    /\ lastScore' \in {0, ScoreOf(inference[1])}
    /\ state' = IF state = <<>> THEN state
                ELSE <<[state[1] EXCEPT !.score = lastScore']>>
    /\ UNCHANGED <<stats, ticks, window, breaches, logged>>

(* The result is back on the event loop: update_congestion_score. *)
InferenceEnds ==
    /\ inference # <<>>
    /\ inference' = <<>>
    /\ lastScore' = ScoreOf(inference[1])
    /\ state' = IF state = <<>> THEN state
                ELSE <<[state[1] EXCEPT !.score = lastScore']>>
    /\ UNCHANGED <<stats, ticks, window, breaches, logged>>

(* DecisionEngine.run up to its rollback check: the queue depth is written
   into the snapshot and a breach of the latency budget is counted; every
   fifth one, from the first, is logged. *)
EngineChecks(depth) ==
    /\ state # <<>>
    /\ breaches < MaxChecks
    /\ state' = <<[state[1] EXCEPT !.depth = depth]>>
    /\ IF state[1].over
       THEN /\ breaches' = breaches + 1
            /\ logged' = IF breaches' % 5 = 1 THEN logged + 1 ELSE logged
       ELSE UNCHANGED <<breaches, logged>>
    /\ UNCHANGED <<stats, ticks, window, lastScore, inference>>

Next ==
    \/ \E l \in Latencies, at \in Stamps : Record(FALSE, l, at)
    \/ \E at \in Stamps : Record(TRUE, 0, at)
    \/ Elapse
    \/ TelemetryTick
    \/ InferenceStarts \/ InferenceEnds
    \/ \E d \in Depths : EngineChecks(d)

(* The inference loop keeps running and every inference ends. *)
Spec == Init /\ [][Next]_vars /\ WF_vars(InferenceStarts) /\ WF_vars(InferenceEnds)

-----------------------------------------------------------------------------
TypeOK ==
    /\ latencies \in Seq(Latencies) /\ Len(latencies) <= Window
    /\ sizes \in Seq({Bytes}) /\ Len(sizes) <= Window
    /\ lost \in Seq({0, 1}) /\ Len(lost) <= Window
    /\ stamps \in Seq(0 .. MaxTime) /\ Len(stamps) <= Window
    /\ now \in 0 .. MaxTime
    /\ Len(state) <= 1
    /\ ticks \in 0 .. MaxTicks
    /\ window \in Seq(1 .. MaxTicks) /\ Len(window) <= MlWindow
    /\ lastScore \in 0 .. MaxTicks
    /\ Len(inference) <= 1
    /\ breaches \in 0 .. MaxChecks
    /\ logged \in 0 .. breaches

LastOf(s, n) == IF Len(s) <= n THEN s ELSE SubSeq(s, Len(s) - n + 1, Len(s))

(* The results of s that were not lost, in order. *)
Delivered(s) ==
    LET of[i \in 0 .. Len(s)] ==
            IF i = 0 THEN <<>>
            ELSE IF s[i].lost THEN of[i - 1] ELSE Append(of[i - 1], s[i])
    IN  of[Len(s)]

(* The loss window holds the latest results, and the latency and size windows
   the latest delivered packets: they stay matched to each other packet by
   packet, and reach further back than the loss window as packets are lost. *)
WindowsMatch ==
    /\ [i \in DOMAIN lost |-> <<stamps[i], lost[i] = 1>>]
         = [i \in DOMAIN LastOf(past, Window) |->
              <<LastOf(past, Window)[i].at, LastOf(past, Window)[i].lost>>]
    /\ latencies = [i \in DOMAIN LastOf(Delivered(past), Window) |->
                      LastOf(Delivered(past), Window)[i].latency]
    /\ Len(sizes) = Len(latencies)

(* A tick never resets the score: what the engine and the exporter read in the
   current snapshot is the latest score, whichever loop wrote last. *)
ScoreKept == state # <<>> => state[1].score = lastScore

(* The engine counts no breach of the budget unless some packet did exceed it,
   and logs the first breach and every fifth after it. *)
BreachesExplained ==
    /\ breaches > 0 => \E i \in DOMAIN past : past[i].latency > Budget
    /\ 5 * (logged - 1) < breaches /\ breaches <= 5 * logged

(* A score is never replaced by one computed from older ticks, although the
   window moves on while the thread computes. *)
ScoreNeverGoesBack == [][lastScore <= lastScore']_vars

(* Every tick is taken into account in the end, once the window is long
   enough: the engine does not decide on old scores for ever. *)
ScoresCatchUp ==
    \A t \in MinWindow .. MaxTicks : ticks = t ~> lastScore >= t

=============================================================================
