# EDGE-NET-X: specification and verification

TLA+ modules, TLC configurations and TLAPS proofs for the EDGE-NET-X program
in `src/`. The program is a single Python process: a traffic generator sends
real frames over TCP and UDP to a server in the same process, a slicer serves
them in three slices with a token bucket each, telemetry measures what comes
out, an LSTM turns the measurements into a congestion score, and a decision
engine moves bandwidth between the slices. An operator can overrule the engine
and inject faults through a REST API.

    flows (client.py) --frames--> server.py --dispatch--> slice queues (scheduler.py)
        ^                            |                         | workers
        +------acknowledgements------+                         v
                                              results queue (bounded, shared)
                                                               |
    decision engine <--snapshot-- telemetry collector <--------+
        |    ^                         |        ^
        |    +--score-- inference <--window     |
        +--adjust_bandwidth--> allocation       |
    REST API --override--> allocation      fault dictionary --> workers
             --inject/clear--> fault injector --^

Almost everything runs on one asyncio event loop; only the LSTM runs in a thread.
A task is therefore atomic from one suspension to the next, and the modules take
their steps at exactly the suspensions that can really suspend. That matters: an
`async with` on a lock that nobody holds across an `await`, or a put on a
queue that has room, does not suspend.

## 1. Inventory

| Component | State | Operations | Must be right |
|---|---|---|---|
| Decision engine (`decision/engine.py`) | hysteresis counters, time of the last action, pending rollback, log of 100 actions, adaptive threshold, SLA breach counts | one loop body per second: breach count, rollback check, counters, congestion or clear decision | no slice starved; a rollback undoes the decision it belongs to, once; the budget is kept; the allocation comes home |
| Allocation (`slicing/scheduler.py`, `config.py`) | `bandwidth_mbps` of every slice | `adjust_bandwidth` by the engine and by the REST API | clamped whoever writes |
| Token bucket (`scheduler.py`) | rate, capacity, tokens, last refill | `consume`, `update_rate` | lazy refill and rate changes mint no tokens |
| Slice queues and workers (`scheduler.py`) | a bounded queue per slice, one worker per slice, counters, one bounded results queue | `enqueue`, `run`, `dispatch` | every packet reported once, in order, however full the queues are |
| Traffic server (`network/server.py`, `protocol.py`) | a buffer and a task per frame for every connection | frame reassembly, `_handle`, acknowledgement | every frame found whole, once, and answered truthfully |
| Traffic generator (`network/client.py`) | the clients, their tasks, the RTT queue all flows share | `run`, `stop` | nothing outlives what starts and stops it |
| TCP flow (`client.py`) | sequence number, table of outstanding frames, connection | `run`, `_send_loop`, `_burst_send_loop`, `_recv_loop` | a frame measured once; none outstanding for ever; clean reconnect |
| UDP flow (`client.py`) | the same table, no connection | `run`, `_send_loop`, `datagram_received` | every datagram measured once, as answered or as lost |
| Telemetry (`telemetry/collector.py`) | four windows per slice, the snapshot, the ML window, the last score | `_consume`, `_update_state`, `inject_queue_depths` | windows match, the snapshot is not set back |
| Inference loop (`main.py`, `ml/inference.py`) | one inference at a time, in a thread | `ml_inference_loop`, `infer_single` | the score follows the ticks |
| Fault injector (`simulation/fault.py`) | shared dictionary, active fault, a timer task per timed fault | `inject`, `clear`, `_auto_clear` | dictionary and controller agree; faults end |
| Demo (`simulation/demo.py`), `--inject` (`main.py`), REST API (`api/server.py`) | none of their own | call the injector, overwrite the allocation | the system heals |
| Prometheus exporter (`metrics/prometheus.py`) | two counters taken from the action log | render | counters count (they do not: section 4) |
| Dashboard | none | render | - |
| LSTM model, `traffic.py`, `benchmark.py` | - | training, unused or stand-alone code | - |

What is hard in it: tasks suspended on full queues whose counters, reports and
acknowledgements must still fit together; a snapshot and a log entry that a
rollback uses seconds after other decisions and overrides; windows, timers and
cooldowns of different lengths over each other; timers that are never
cancelled; answers that arrive after their frame was given up, or on a
connection that is gone; a thread whose result is written into whatever
snapshot is current; lazy accounting of time in a bucket whose rate changes.
`PROJECT.json` lists these hazards at their lines.

## 2. Modules

| Module | Models | Notes |
|---|---|---|
| `Bandwidth` | clamping, the shift towards CRITICAL, scaling to the budget, the way back | pure operators; fixed point, `Mbps` units per Mbit/s, products round down |
| `StartupConfig` | the values of `config.py` | |
| `DecisionEngine` | the engine's loop body as `Tick`, and `Override` of the REST API | EXTENDS `Bandwidth`; a tick may be given any reading |
| `Samples` | the sum of a window of samples | a recursive function; used by `AdaptiveThreshold` and `Telemetry` |
| `AdaptiveThreshold` | the threshold that turns a score into a reading | pure operators; scores in 1/200 |
| `ScoredEngine` | the engine with the scores it reads | EXTENDS `DecisionEngine` and `AdaptiveThreshold` |
| `RateLimiter` | abstract: a reservoir that fills with time | what a token bucket promises |
| `TokenBucket` | `AsyncTokenBucket` | refines `RateLimiter` |
| `TcpSession` | the server's end of one connection: buffer, frames, handlers, close | in front of `SlicePipeline` |
| `PacketLedger` | abstract: every packet gets one outcome, in the order of its slice's line, and telemetry is told | what the slicer promises |
| `SlicePipeline` | handlers, slice queues, workers, results queue, the collector's consumer | refines `PacketLedger` |
| `FaultInjector` | the injector and its timers | component without a scenario |
| `FaultScenario` | operator, `--inject` and demo over one injector | EXTENDS `FaultInjector` |
| `FlowTable` | what both kinds of flow have in common: profile, table of outstanding frames, RTT queue | declares the state of a flow |
| `TcpFlow` | a flow with its two loops, and reconnects | EXTENDS `FlowTable` |
| `UdpFlow` | a flow with one loop, a callback and a task for each measurement | EXTENDS `FlowTable` |
| `TrafficGenerator` | start and stop of a flow of either kind, next to others on the RTT queue | composes `TcpFlow` and `UdpFlow` |
| `Telemetry` | the windows of a slice, the tick, the inference thread, the engine's writes into the snapshot | |
| `MCEngine`, `MCScored`, `MCPipeline`, `MCFaults`, `MCFlows` | TLC instances | |
| `EngineProofs`, `TokenBucketProofs`, `TcpSessionProofs`, `PipelineProofs`, `FaultProofs`, `FlowProofs`, `TelemetryProofs` | theorems | one module per component; `EngineProofs` has those about `Bandwidth`, `DecisionEngine` and `ScoredEngine` |
| `Induction` | lemmas: every nonempty set of numbers has a least one; what sums of windows are | used by the proofs about engine, sessions and telemetry |

An operator marked "Faulty variant" is a plausible bug of the operator after it;
the specification does not use it. Each property is known to fail when
its variant is put in place of the original (`mutants` in `PROJECT.json`).

### State and actions against the code

*DecisionEngine.* `alloc` is `bandwidth_mbps` of the slices, `high`/`low` are
`_high_count`/`_low_count`, `age` the seconds since `_last_action_time` (counted up
to the cooldown), `pending` is `_pending_rollback` with the time left and the
place of its action in the log, `log` is `actions`. The code keeps a reference
to the action; `Shift` moves the place as entries are put in front of it. A
`Tick` is the whole loop body: rollback check, counters, then at most one of the two
decisions. `adjust_bandwidth` awaits only locks that are free, so nothing
comes in between. `Override` applies a body of `POST /api/bandwidth`; a body
that fails half way is the request with the slices before the failure.
`DecisionsTotal` and `RollbacksTotal` are the two values the exporter computes from
the log each time it is asked and declares to be counters; no run is about them, a
theorem is.

*ScoredEngine.* A `ScoredTick` takes the score into `scores` (`_history`), moves
`threshold`, and hands the engine the reading the moved threshold makes of the
score: the order of the code. Standard deviations are whole roots of whole
variances. `beat` is the parity of the ticks. A tick may leave every other
variable as it was, and without `beat` such a tick would not be a step, so
fairness and "the score no longer changes" could not be said of it.

*TokenBucket.* One action per method, and time. `served` and `mark` are history
variables. The bandwidth the engine sets is a `Rates` value here.

*TcpSession.* Bytes are positions in the stream and `announces[p]` the size a
header read at position `p` would announce. `DataReceived(n)` is
`data_received` with the whole of `_drain_buffer`: `Drained` walks the frames from
the front of the buffer as the loop does. `Handle` is `_handle` after the dispatch,
which may take any time and lets handlers overtake each other. A session that
refused a header still runs the handlers it had.

*SlicePipeline.* `stage` is where a worker is: idle, having taken a packet, in the
simulated delay, or suspended in the put that reports a delivered ("late") or
dropped ("lost") packet; `hand` is the packet its local variable holds. `blocked`
are the handlers suspended in the put that reports a full slice queue. The
token bucket and the loss fault are one nondeterministic verdict. A closing connection
drops the acknowledgement and nothing else.

*FaultInjector.* `timers` counts the `_auto_clear` tasks that wake up at each second;
they are never cancelled, as in the code. The REST API takes any number as a duration:
zero stands for none, and a negative one ends the fault in the same second. `due` and
`owner` are history variables.

*Flows.* `pending` is `_pending` with the time of each entry, `inflight` what the
server may still answer, `sender` and `reader` the loops, "stuck" when suspended in
a put on the full RTT queue: there is no action that takes from that queue, because
no code does. `waiting` are the measurements of puts that are suspended. A TCP flow
prunes its table after each frame it noted, unless it is in burst mode; when
the queue fills while it reports the stale frames, the frames after the one it hangs
on stay in the table. A UDP flow keeps its table when it reopens its endpoint, and
does not close the one before: `stray` is what that one may still receive. Its
measurements are put by tasks (`puts`), which run in the order of their creation. The
code provides for a `sendto` that raises, although it never does for these
arguments; `SendDatagramFails` and `BurstFails` are those branches. A `stop` in the
half second before the clients start changes nothing: `run` of each client sets
the flag again.

*Telemetry.* `latencies`, `sizes`, `lost`, `stamps` are the deques of one
slice, `past` the history of all results. A result carries the time at which it was
made, up to `MaxWait` earlier. `state` is the snapshot; a tick stands for its feature
vector and a score for the last tick it was computed from.

## 3. Runs

Passing runs check the whole reachable state space of their instance.

| Run | Question | Instance and why it is enough |
|---|---|---|
| `engine_control` | Do overrides, rollbacks, late ticks and a full log break the allocation or the bookkeeping? | The real limits, cooldown 3, window 5 and hysteresis 3, one unit per Mbit/s. A log of 4 overflows within a pending window. Two latencies, so that a decision can turn out to have helped or not. Overrides ask for 200, 41 and 0 Mbit/s: clamped to 80, 41 and 5, from where scaling takes BACKGROUND below its minimum and clamping lifts the total above the budget again. Ticks 1 or 2 seconds apart. |
| `adaptive` | What does a score that no longer changes lead to? | The real base and reach; a history of 3, of which 2 move the threshold; scores below, between and above where it settles. Hysteresis, cooldown and window are short: the property is about the limit, not the delay. |
| `rollback_superseded` | Is every decision judged? | As `engine_control`, without operator. **Violated.** |
| `token_bucket` | Can reallocations mint bandwidth? | Three rates, packets smaller and larger than every bucket step, five seconds: several fillings and both directions of change. |
| `framing` | Does it matter how TCP cuts the stream? | Headers of 2 bytes and payloads of 0, 1 and one too many, in 8 bytes, cut in every way, with every content: cuts inside a header, several frames in one piece, empty frames, a refusal behind whole frames. |
| `pipeline` | Is a packet lost, doubled, reordered or forgotten when everything is full? | Two slices, a TCP flow of 3 frames, two UDP flows, slice queues of 2, results queue of 1: slice queue full, results queue full, worker and handlers suspended together. |
| `ack_status` | Does an acknowledgement tell of a drop? | The same instance. **Violated.** |
| `fault_control` | Do operator, `--inject` and demo leave dictionary and controller consistent, and does the system heal? | The script's real times; three requests at any second, with a duration, without and with a negative one, one of an unknown type: enough for a fault to be replaced and cleared below two timers. |
| `fault_cut_short` | Does a fault get its duration? | Two requests of 3 seconds. **Violated.** |
| `flows` | Late, lost and doubled answers, lost connections, reopened endpoints, a queue that fills? | Four frames, four instants, steady and bursty flows of both protocols; patience 1 for TCP and 0 for UDP, so that frames grow stale alone and together; bursts of 2; a queue of 2 that other flows may fill at any moment. |
| `rtt_queue_full` | Are measurements consumed? | Queue of 2. **Violated.** |
| `telemetry` | Is a score lost or set back; do windows match? | Windows of 2 over 4 results, ticks before, during and after an inference, breaches up to the second logged one. |

`CHECK_DEADLOCK FALSE` stands where an instance ends when its bound (frames,
bytes, seconds, requests) is used up, and in `adaptive`, which need not ask again
what `engine_control` checks.

### What the properties say

- `DecisionEngine`: `AllocWithinLimits`, also of the snapshot a rollback would
  restore; `PendingIsLatestSpike`; `RollbacksMatchSpikes` (flags and rollback
  records pair up in the log); `TriggersAreFresh`: with a cooldown no longer than the
  hysteresis count, as configured, no count is ever left full, so each decision is
  taken on the reading that completes its count, never on an old one or on one
  between the thresholds. It does not say that the readings of a count are consecutive:
  they need not be (section 4). With a longer cooldown it would not hold: a count that
  is full when the cooldown ends fires on whatever comes next.
  `CongestionKeepsBudget`, up to the 1.3 Mbit/s that clamping to the minima can add
  after scaling. The code means to keep the budget and does not (section 4): with the limits
  of `config.py` the excess can come as near to 1.25 Mbit/s as rounding allows. In the
  run it reaches one unit of 1 Mbit/s, which a bound of 0.9 would refuse.
  `CongestionFavoursCritical`; `Rebalances`.
- `ScoredEngine`: `SteadyScoreDecides` divides the scores in three. From 0.625 on a
  steady score is congestion, below the configured 0.70, since the threshold settles
  at 0.625 when scores do not vary; up to 70% of that the allocation comes home; in
  between nothing is decided any more, and the allocation stays wherever it is.
- `TokenBucket`: `ServiceSinceRateChange`, `ServiceBounded`, `PauseRestoresBurst`,
  `ImplementsLimiter`. The bound since a change counts the
  seconds since the last refill *before* it at the new rate: the code does not settle
  them, and the property says so rather than hide it.
- `TcpSession`: `CutsAreInvisible` (the frames handled are the whole frames of what
  arrived, from the first byte on, nothing between them, and the connection closes
  exactly at a header that announces too much); `BufferBounded` (the buffer of an open
  connection never holds a frame of the largest size, whatever a header announces);
  `FramesAnswered`.
- `SlicePipeline`: `OnePlace`, `CountersMatchReports`, `DeliveredInOrder`,
  `EveryPacketAccounted`, `ImplementsLedger`.
- `FaultScenario`: `StateAgrees`, `TimedFaultsEnd`, `SystemHeals`.
- `TrafficGenerator`: `TypeOK`, which includes that no frame is measured that was not
  sent; `MeasuredOnce` (over the queue, the tasks and the suspended
  puts), `PendingInFlight`, `DatagramsAccounted` (a UDP flow forgets no datagram,
  through failed sends and reopened endpoints), `EveryFrameResolved` (as long as the
  RTT queue has room).
- `Telemetry`: `TypeOK`, which includes that no more breaches are logged than counted;
  `WindowsMatch`, `ScoreKept`, `BreachesExplained`,
  `ScoreNeverGoesBack`, `ScoresCatchUp`.

### Fairness

Weak fairness only, and only of what the event loop does by itself. The engine ticks
(`asyncio.sleep` ends, and the body never blocks). Workers, suspended handlers and
the consumer run when they can: asyncio wakes those who wait on a queue. A handler
of `TcpSession` ends, which is what `EveryPacketAccounted` shows of the slicer. The
tasks of the fault scenario run when due and time passes. In `TrafficGenerator` the
server answers the frames of a live connection, both loops notice a lost one, and the
server accepts a connection in the end; nothing is assumed of the UDP flow, whose
only guarantee is safety. In `Telemetry` the inference loop runs and
inferences end. No fairness is assumed of operators, of packets arriving, of
telemetry ticks, or of anybody's choice between outcomes.

## 4. Where the code and its documentation disagree

Shown by a run:

1. `rollback_superseded`: `_act_congested` replaces a rollback that is pending
   and restarts its window; with a cooldown of 3 s and a window of 5 s, lasting
   congestion means that nothing is ever judged (`engine.py:10` promises a
   rollback).
2. `ack_status`: the acknowledgement of a dropped packet says OK (`protocol.py:11`).
3. `fault_cut_short`: the timer of a replaced fault ends its successor
   (`api/server.py:11` offers a duration).
4. `rtt_queue_full`: nothing consumes the RTT queue; when its 50 000 places are
   used, every TCP flow waits for ever (`collector.py:4` names a consumer).

Met while reading the code, without a run:

- Readings between the thresholds reset no counter (`engine.py:123`), so a trigger is
  not on N consecutive readings (`engine.py:8`).
- A comment says "Normalize so total doesn't exceed budget" (`engine.py:159`), but
  `adjust_bandwidth` clamps to the minima after the scaling, so that the slices may share
  up to 1.25 Mbit/s more than the link has. It takes an operator's override to get
  there. `CongestionKeepsBudget` states the bound that does hold, for every
  resolution as a theorem.
- A decision is rolled back "if metrics don't improve" (`engine.py:10`), which
  `README.md:85` and the text at `engine.py:229` repeat, but an unchanged latency keeps
  it: the code rolls back when the latency is at least 10% worse (`engine.py:225`).
- `prometheus.py:116` takes the decisions and rollbacks from the log of the last 100
  actions and declares both counters (lines 119 and 122). The first stands
  still once the log is full; the second goes down when a flagged action falls off
  it. The theorem `CountersUntilFull` says how far they count, and that the first
  stands still from then on.
- After losses the window of sizes reaches further back than the window of
  timestamps its sum is divided by (`collector.py:59`), so throughput is not the rate
  it is taken for; `WindowsMatch` states how the windows stand to each other.
- The text of a decision quotes the configured threshold (`engine.py:176`) while the
  adaptive one decides.
- The threshold is limited to 0.55 from below, but a history without any variation
  leaves it at 0.625: the lower limit is never reached (`Settled` in `STypeOK`).
- The exported SLA counter counts the scrapes that find a breach
  (`prometheus.py:60`), not the breaches.

## 5. Proofs

TLC checks the instances above; the theorems hold for every value of the
constants that satisfies the named `ASSUME`s of the modules (among them: limits with
minimum <= startup value <= maximum, positive windows and capacities, requests that
name slices with integer values; rates and sizes natural numbers).

*Decision engine* (`EngineProofs`). `Spec => []` of `TypeOK`, `AllocWithinLimits`,
`PendingIsLatestSpike`, `RollbacksMatchSpikes` and `TriggersAreFresh`. Their
conjunction with the agreement of log and pending rollback (`LogOK`) and with what ties
the counts to the age of the last action (`CountersOK`: a full count needs a cooldown
that is still running) is inductive (`IInv`). None of the log properties is inductive on
its own: that a new rollback keeps flags and records paired needs that the pending decision is the newest and
unflagged; that it is needs that no rollback record is newer. The lemmas follow the
code: what clamping returns, what prepending to a bounded log does to positions, then
one lemma for each record kind (`LogSpike`, `LogClear`, `LogRollback`), one for what the
rollback check leaves (`JudgedProperties`), and one for each action. The theorem for
`AllocWithinLimits` is the guarantee "starvation prevention" for every budget, limit
and request.

`CountersUntilFull` is about the values `GET /metrics` exports as counters: until the log is
full they count, and from then on the decision counter stands still. It needs one
fact more, `PendingInLog`: the decision that is still to be judged has fallen off the log
only if the log is full. Flagging it then adds one to the flags while the rollback
record adds one to the records; `DecisionMovesCounters` counts both through a `Prepend`
that may drop the oldest record.

`CongestionKeepsBudget` and `CongestionFavoursCritical` are about one decision, and
about numbers: they assume the link and the limits of `config.py` (`StartupLimits`), at any
resolution, but no particular startup allocation and no particular requests of
operators. `ShareProperties` says what a rounded share of the link is without the
division, `CongestionArithmetic` follows an allocation through shift, scaling and
clamping. Both properties need `AllocWithinLimits` of the allocation the decision starts
from, which is why they are theorems of `Spec` and not of `Bandwidth` alone.

`ClearsBringHome` is the part of `Rebalances` that needs no fairness: a clear decision
takes every slice half of its way home, never past it, whatever the limits; clamping
does not get in its way.

*Engine with scores* (also `EngineProofs`). Whatever the threshold does, `ReadingOf` is a
reading, so a behaviour of `ScoredEngine` is one of `DecisionEngine`
(`ScoredEngineIsEngine`), and the invariants carry over. `STypeOK` bounds the threshold,
for any scores: `DistancesNatural` shows that the sum of the squared distances from
any number is not negative, `VarianceBounded` that n times the sum of the squares is at least
the square of the sum, so that the variance has a root at all, and `RootExists` that
the root of a variance is no larger than the largest score. `SteadyScoresSettle`
is the part of `SteadyScoreDecides` that needs no fairness: a history of equal scores, high or
low, leaves the threshold 0.075 below its base.

*Token bucket* (`TokenBucketProofs`). `TypeOK`, `ServiceSinceRateChange`,
`ServiceBounded` and `PauseRestoresBurst`, and `Spec => ImplementsLimiter`: the
bucket that refills lazily implements the one that fills with time, under the
refinement mapping level = what a refill would leave now. `ServiceBounded`
(assuming that some rate is the highest) follows from the stronger `RunAccount`,
which also counts the tokens that are still there and dates the bound at the last
refill; `ServiceSinceRateChange` from the like `EpochAccount`; `PauseRestoresBurst`
from `BurstFits`: the capacity is never below a burst at the current rate.

*Sessions* (`TcpSessionProofs`). `CutsAreInvisible` and `BufferBounded`, for any sizes of header
and payload and any content. The loop of `_drain_buffer` is a recursive function;
`DrainsWell` proves, for every buffer, that what it returns is a chain of whole
frames from the front of the buffer up to the first position where none is whole,
with the verdict that belongs to that position (`IsDrainage`). The invariant
(`FramingInv`) says that what was handed over so far is such a chain from the
first byte of the stream, and that the buffer is what arrived after it. New bytes
leave a whole frame whole (`WholeStays`), and two chains of which the second begins
where the first ends are one (`ChainsConnect`): that is why no cut can be seen. The
bound of the buffer is the verdict "wait for more" read backwards.

*Slicer* (`PipelineProofs`). `TypeOK`, `OnePlace`, `CountersMatchReports`,
`DeliveredInOrder`, and that the pipeline implements `PacketLedger`, for any slices,
flows and queue sizes. The places of a packet are counted in a queue, a hand, the
suspended handlers, the results and the record, so the module begins with what
appending, removing the head and moving from one sequence to another do to a count.
`TypeInv` adds to the types that a queue and a worker only hold packets of their
own slice. `OnePlace` is inductive with it, one lemma per action. The counters are
told to telemetry exactly when a report is put, which gives
`CountersMatchReports` from the reports still in hands. `DeliveredInOrder` needs the
order also where packets still are: a queue is in order (`QueueInOrder`), what a
worker holds is before all of its queue (`HandFirst`), and all that is reported is before
both (`JournalFirst`). The refinement maps a packet's outcome to where `OnePlace`
says it is; a step that moves a packet without deciding about it is a stutter.

*Faults* (`FaultProofs`). `TypeOK`, `StateAgrees` and `TimedFaultsEnd`, which are inductive
together: an injection sets a timer for its own end, an earlier timer can only end
the fault sooner, and the clock does not pass a timer that is due. One lemma for each
operation of the injector, whoever calls it.

*Flows* (`FlowProofs`). `TypeOK`, `MeasuredOnce`, `DatagramsAccounted` and
`PendingInFlight`, for any profile, patience, burst and queue. `FramesApart` is the
heart: the frames in the RTT queue, in tasks, in suspended puts and in the table are
disjoint, each is there once, and all are below the next number. What a step can do
to these four places is stated of values, not of variables (`ApartSend`,
`ApartForget`, `ApartQueued`, `ApartTasks`, `ApartWaits`, `ApartTaskRuns`,
`ApartElsewhere`); each action is then one or two of them, and the pruning of a table into a
queue that fills up under it is `ApartQueued` for the frames that fit and
`ApartWaits` for the one the loop hangs on. `Accounted` says that no number is
missing; it is an invariant of a UDP flow only, as a TCP flow forgets its table on a
reconnect. `PendingInFlight` holds with `UdpHasNoConnection` alone.

*Telemetry* (`TelemetryProofs`). `TypeOK`, `ScoreKept`, `ScoreNeverGoesBack`,
`BreachesExplained` and `WindowsMatch`. `ScoreNeverGoesBack` needs to know that the ML window
ends with the newest tick and that the window in the inference thread ends with a tick at
least as new as the current score's: there is one inference at a time. `TypeOK` needs that
an inference never works on an empty window and that no more events are logged than
breaches counted. `BreachesExplained` needs what makes a snapshot say "over budget"
(`OverExplained`): each latency of the window is that of a result (`LatenciesOfPast`), and
latencies that add up to more than the budget allows include one above it
(`OneOverBudget`). `WindowsMatch` follows from `MirrorInv`: each window is the end of a
sequence that can be read off the whole history, and what `Push` does to the end of a
sequence is what appending does to the sequence.

*Induction over data* (`Induction`). The library's induction theorems take an operator as
a parameter, which the provers cannot instantiate. `LeastNumber` (every nonempty set of
numbers has a least one) can be cited like any other fact: for a statement about
every number, take the set of numbers it fails for and refute its least member.
`TotalsExist`, `DrainsExist` and their like show in this way that a recursive
function over the prefixes of a sequence exists, and `TotalsSteps`, `SumBounded`,
`DistancesNatural` and `DrainsWell` what it returns. It is why `SumOf`, `Drained` and
`Delivered` are written as recursive functions.

Left to TLC: liveness, which rests on fairness (`Rebalances`, `SteadyScoreDecides`,
`EveryPacketAccounted`, `FramesAnswered`, `SystemHeals`, `EveryFrameResolved`,
`ScoresCatchUp`). The prover does not reason about ENABLED. Every other property of a passing
run is a theorem. No module with a proof uses a RECURSIVE operator, with which the
prover cannot work.

## 6. Not modelled

- The LSTM, its training and the padding of its window: numerical, no shared state.
- Jitter, the set of active flows, the entries of the feature vector: they are
  computed from the windows and read by the model and the displays only.
- HTTP parsing and the endpoints that only read; the terminal dashboard; the event
  timeline; the exporter but for its two counters taken from the log.
- The shutdown of slicer, server and collector: `stop` of each ends its loop or is never
  called, and the program exits.
- `simulation/traffic.py` (used by nothing) and `benchmark.py` (stands alone).
- Floating point: amounts are units and rounding is downward; the bounds
  that depend on it say so.

## 7. State of the plan

Everything that keeps state and can be interleaved is modelled: the engine and its
threshold, allocation and buckets, sessions, slicer, faults, both kinds of flow,
telemetry and inference. Every safety invariant, action property and refinement of the
runs is proved. What could be added:

1. `Telemetry` composed with `ScoredEngine`, so that the score a decision reads and the
   latency a rollback judges by come from the same windows.
2. A consumer of the RTT queue, once the program has one: the table of stale
   frames is computed before a put that could then be resumed (`client.py:162`), and
   the properties of `TrafficGenerator` would have to hold through it.
3. The parts of the other liveness properties that need no fairness, as `ClearsBringHome`
   is for `Rebalances` and `SteadyScoresSettle` for `SteadyScoreDecides`: that a suspended
   put, a timer or a handler that may run brings its packet, fault or frame nearer to the end.
