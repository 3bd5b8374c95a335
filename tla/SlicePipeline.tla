---------------------------- MODULE SlicePipeline ----------------------------
(***************************************************************************)
(* A packet's way through the server: the handler of its frame puts it in  *)
(* the bounded queue of its slice and acknowledges it, the worker of the   *)
(* slice takes it, asks the token bucket (and the loss fault) whether it   *)
(* passes, sleeps for its simulated delay and reports the outcome on the   *)
(* one bounded queue that every slice shares and telemetry drains.         *)
(*                                                                         *)
(* Handlers, workers and the consumer are asyncio tasks: a step runs from  *)
(* one suspension to the next.  A put on a full results queue suspends     *)
(* until there is room, and whoever comes first takes it.  The bucket and  *)
(* the fault are one nondeterministic verdict here (TokenBucket and        *)
(* FaultInjector model them); recorded, what telemetry has been given, is  *)
(* kept whole.                                                             *)
(***************************************************************************)
EXTENDS Integers, Sequences, FiniteSets

CONSTANTS
    Slices,
    TcpFlows,       \* flows that own a connection
    UdpFlows,
    SliceOf,        \* the slice of each flow
    Sends,          \* bound: how many frames each flow sends
    QueueSize,      \* maxsize of a slice's queue
    ResultsSize     \* maxsize of the results queue

Flows == TcpFlows \union UdpFlows

(* A packet is named by its flow and its sequence number. *)
Packets == UNION {{f} \X (1 .. Sends[f]) : f \in Flows}
FlowOf(p) == p[1]
SliceFor == [p \in Packets |-> SliceOf[FlowOf(p)]]

ASSUME PipelineAssumption ==
    /\ TcpFlows \intersect UdpFlows = {}
    /\ SliceOf \in [Flows -> Slices]
    /\ Sends \in [Flows -> Nat]
    /\ QueueSize \in Nat \ {0}
    /\ ResultsSize \in Nat \ {0}

VARIABLES
    next,       \* of every flow: the frame its next handler has
    queue,      \* SliceQueue._queue
    stage,      \* where SliceQueue.run is, of every slice
    hand,       \* the packet it holds: a sequence of none or one
    results,    \* NetworkSlicer._results_queue
    blocked,    \* packets whose handler waits to report a full slice queue
    delivered,  \* SliceQueue.delivered
    dropped,    \* SliceQueue.dropped
    recorded,   \* the results TelemetryCollector._consume has recorded
    acks,       \* the acknowledgements written: packets and their status
    closed      \* connections that are closing

vars == <<next, queue, stage, hand, results, blocked, delivered, dropped,
          recorded, acks, closed>>

(* "late" and "lost": suspended in the put that reports a delivered or a
   dropped packet. *)
Stages == {"idle", "taken", "delay", "late", "lost"}

Report(p, d) == [packet |-> p, dropped |-> d]
Room == Len(results) < ResultsSize
Put(p, d) == results' = Append(results, Report(p, d))

(* The status is the default of encode_ack: no caller passes another. *)
OK == 0
Acked(p) ==
    acks' = IF FlowOf(p) \in closed THEN acks ELSE acks \union {<<p, OK>>}

Init ==
    /\ next = [f \in Flows |-> 1]
    /\ queue = [s \in Slices |-> <<>>]
    /\ stage = [s \in Slices |-> "idle"]
    /\ hand = [s \in Slices |-> <<>>]
    /\ results = <<>>
    /\ blocked = {}
    /\ delivered = [s \in Slices |-> 0]
    /\ dropped = [s \in Slices |-> 0]
    /\ recorded = <<>>
    /\ acks = {}
    /\ closed = {}

-----------------------------------------------------------------------------
(* The handler of a frame: TCPSessionProtocol._handle, UDPServerProtocol.
   The tasks of one flow start in the order of its frames. *)

Due(f) == <<f, next[f]>>

Starts(f) ==
    /\ next[f] <= Sends[f]
    /\ next' = [next EXCEPT ![f] = @ + 1]

(* Faulty variant: the queue has no bound. *)
EnqueueUnbounded(f) ==
    /\ Starts(f)
    /\ queue' = [queue EXCEPT ![SliceOf[f]] = Append(@, Due(f))]
    /\ Acked(Due(f))
    /\ UNCHANGED <<stage, hand, results, blocked, delivered, dropped, recorded,
                   closed>>

(* Faulty variant: the latest packet is served first. *)
EnqueueInFront(f) ==
    /\ Starts(f)
    /\ Len(queue[SliceOf[f]]) < QueueSize
    /\ queue' = [queue EXCEPT ![SliceOf[f]] = <<Due(f)>> \o @]
    /\ Acked(Due(f))
    /\ UNCHANGED <<stage, hand, results, blocked, delivered, dropped, recorded,
                   closed>>

(* There is room: put_nowait and the acknowledgement are one step. *)
Enqueue(f) ==
    /\ Starts(f)
    /\ Len(queue[SliceOf[f]]) < QueueSize
    /\ queue' = [queue EXCEPT ![SliceOf[f]] = Append(@, Due(f))]
    /\ Acked(Due(f))
    /\ UNCHANGED <<stage, hand, results, blocked, delivered, dropped, recorded,
                   closed>>

(* QueueFull: the packet is dropped, and acknowledged once that is reported. *)
Overflow(f) ==
    /\ Starts(f)
    /\ Len(queue[SliceOf[f]]) = QueueSize
    /\ dropped' = [dropped EXCEPT ![SliceOf[f]] = @ + 1]
    /\ \/ /\ Room
          /\ Put(Due(f), TRUE)
          /\ Acked(Due(f))
          /\ UNCHANGED blocked
       \/ /\ ~Room
          /\ blocked' = blocked \union {Due(f)}
          /\ UNCHANGED <<results, acks>>
    /\ UNCHANGED <<queue, stage, hand, delivered, recorded, closed>>

(* Faulty variant: the suspended handler is never resumed. *)
ResumeNever(p) ==
    /\ FALSE
    /\ UNCHANGED vars

Resume(p) ==
    /\ p \in blocked
    /\ Room
    /\ Put(p, TRUE)
    /\ blocked' = blocked \ {p}
    /\ Acked(p)
    /\ UNCHANGED <<next, queue, stage, hand, delivered, dropped, recorded, closed>>

(* A client goes away; frames already parsed are still handled. *)
Disconnect(f) ==
    /\ f \in TcpFlows \ closed
    /\ closed' = closed \union {f}
    /\ UNCHANGED <<next, queue, stage, hand, results, blocked, delivered,
                   dropped, recorded, acks>>

-----------------------------------------------------------------------------
(* SliceQueue.run. *)

MoveTo(s, st) == stage' = [stage EXCEPT ![s] = st]
Holds(s) == hand[s][1]

(* Faulty variant: the packet is read but stays in the queue. *)
FetchPeek(s) ==
    /\ stage[s] = "idle"
    /\ queue[s] # <<>>
    /\ hand' = [hand EXCEPT ![s] = <<Head(queue[s])>>]
    /\ MoveTo(s, "taken")
    /\ UNCHANGED <<next, queue, results, blocked, delivered, dropped, recorded,
                   acks, closed>>

(* The get ran in a task of its own: the worker resumes in a later step. *)
Fetch(s) ==
    /\ stage[s] = "idle"
    /\ queue[s] # <<>>
    /\ hand' = [hand EXCEPT ![s] = <<Head(queue[s])>>]
    /\ queue' = [queue EXCEPT ![s] = Tail(@)]
    /\ MoveTo(s, "taken")
    /\ UNCHANGED <<next, results, blocked, delivered, dropped, recorded, acks,
                   closed>>

(* The bucket lets the packet through, and no loss fault hits it. *)
Admit(s) ==
    /\ stage[s] = "taken"
    /\ MoveTo(s, "delay")
    /\ UNCHANGED <<next, queue, hand, results, blocked, delivered, dropped,
                   recorded, acks, closed>>

(* The outcome is put on the results queue, or the worker waits for room. *)
Conclude(s, d) ==
    \/ /\ Room
       /\ Put(Holds(s), d)
       /\ hand' = [hand EXCEPT ![s] = <<>>]
       /\ MoveTo(s, "idle")
    \/ /\ ~Room
       /\ MoveTo(s, IF d THEN "lost" ELSE "late")
       /\ UNCHANGED <<results, hand>>

(* Faulty variant: the drop is reported and not counted. *)
RefuseUncounted(s) ==
    /\ stage[s] = "taken"
    /\ Conclude(s, TRUE)
    /\ UNCHANGED <<next, queue, blocked, delivered, dropped, recorded, acks,
                   closed>>

(* The bucket is out of tokens, or the loss fault hits. *)
Refuse(s) ==
    /\ stage[s] = "taken"
    /\ dropped' = [dropped EXCEPT ![s] = @ + 1]
    /\ Conclude(s, TRUE)
    /\ UNCHANGED <<next, queue, blocked, delivered, recorded, acks, closed>>

(* The simulated delay is over. *)
Deliver(s) ==
    /\ stage[s] = "delay"
    /\ delivered' = [delivered EXCEPT ![s] = @ + 1]
    /\ Conclude(s, FALSE)
    /\ UNCHANGED <<next, queue, blocked, dropped, recorded, acks, closed>>

(* Faulty variant: whatever waited is reported as dropped. *)
PutReportAsDropped(s) ==
    /\ stage[s] \in {"late", "lost"}
    /\ Room
    /\ Put(Holds(s), TRUE)
    /\ hand' = [hand EXCEPT ![s] = <<>>]
    /\ MoveTo(s, "idle")
    /\ UNCHANGED <<next, queue, blocked, delivered, dropped, recorded, acks,
                   closed>>

PutReport(s) ==
    /\ stage[s] \in {"late", "lost"}
    /\ Room
    /\ Put(Holds(s), stage[s] = "lost")
    /\ hand' = [hand EXCEPT ![s] = <<>>]
    /\ MoveTo(s, "idle")
    /\ UNCHANGED <<next, queue, blocked, delivered, dropped, recorded, acks,
                   closed>>

(* TelemetryCollector._consume. *)
Record ==
    /\ results # <<>>
    /\ recorded' = Append(recorded, Head(results))
    /\ results' = Tail(results)
    /\ UNCHANGED <<next, queue, stage, hand, blocked, delivered, dropped, acks,
                   closed>>

Work(s) == Fetch(s) \/ Admit(s) \/ Refuse(s) \/ Deliver(s) \/ PutReport(s)

Next ==
    \/ \E f \in Flows : Enqueue(f) \/ Overflow(f) \/ Disconnect(f)
    \/ \E p \in Packets : Resume(p)
    \/ \E s \in Slices : Work(s)
    \/ Record

(* The event loop runs every task that is ready, and every sleep ends: the
   workers, the suspended handlers and the consumer never starve.  Frames
   need not arrive. *)
Fairness ==
    /\ \A s \in Slices : WF_vars(Work(s))
    /\ \A p \in Packets : WF_vars(Resume(p))
    /\ WF_vars(Record)

Spec == Init /\ [][Next]_vars /\ Fairness

-----------------------------------------------------------------------------
Reports == [packet : Packets, dropped : BOOLEAN]

TypeOK ==
    /\ next \in [Flows -> Nat \ {0}]
    /\ \A f \in Flows : next[f] <= Sends[f] + 1
    /\ queue \in [Slices -> Seq(Packets)]
    /\ \A s \in Slices : Len(queue[s]) <= QueueSize
    /\ stage \in [Slices -> Stages]
    /\ hand \in [Slices -> {<<>>} \union {<<p>> : p \in Packets}]
    /\ \A s \in Slices : hand[s] = <<>> <=> stage[s] = "idle"
    /\ results \in Seq(Reports) /\ Len(results) <= ResultsSize
    /\ blocked \subseteq Packets
    /\ delivered \in [Slices -> Nat]
    /\ dropped \in [Slices -> Nat]
    /\ recorded \in Seq(Reports)
    /\ acks \subseteq Packets \X {OK}
    /\ closed \subseteq TcpFlows

Arrived(p) == p[2] < next[p[1]]

(* Every outcome there is a report of, in the order they were reported. *)
Journal == recorded \o results

Count(hits, seq) == Cardinality({i \in DOMAIN seq : seq[i] \in hits})

AnyReportOf(p) == [packet : {p}, dropped : BOOLEAN]
ReportsOf(s, d) == {r \in Reports : SliceFor[r.packet] = s /\ r.dropped = d}

Queued(p) == Count({p}, queue[SliceFor[p]])
InHand(p) == Count({p}, hand[SliceFor[p]])
Suspended(p) == Cardinality(blocked \intersect {p})
Reported(p) == Count(AnyReportOf(p), Journal)

Copies(p) == Queued(p) + InHand(p) + Suspended(p) + Reported(p)

(* However full the queues are and whoever is suspended, a packet that has
   been handled is in exactly one place, waiting, in service, about to be
   reported or reported: none is lost and none is reported twice. *)
OnePlace ==
    \A p \in Packets : Copies(p) = IF Arrived(p) THEN 1 ELSE 0

DeliveredTold(s) == Count(ReportsOf(s, FALSE), Journal)
DroppedTold(s) == Count(ReportsOf(s, TRUE), Journal)
StuckAt(s, st) == IF stage[s] = st THEN 1 ELSE 0
Unreported(s) == Cardinality({p \in blocked : SliceFor[p] = s})

(* The counters of a slice are its reports: what has been reported, with what
   a suspended worker or handler has counted and not yet been able to report. *)
CountersMatchReports ==
    \A s \in Slices :
        /\ delivered[s] = DeliveredTold(s) + StuckAt(s, "late")
        /\ dropped[s] = DroppedTold(s) + StuckAt(s, "lost") + Unreported(s)

(* Telemetry hears of the delivered packets of a flow in the order they were
   sent, though drops may be reported out of turn. *)
DeliveredInOrder ==
    \A i, j \in DOMAIN Journal :
        /\ i < j
        /\ ~Journal[i].dropped /\ ~Journal[j].dropped
        /\ FlowOf(Journal[i].packet) = FlowOf(Journal[j].packet)
        => Journal[i].packet[2] < Journal[j].packet[2]

(* Every handled packet is in the end recorded by telemetry, and acknowledged
   if its connection is still open. *)
Accounted(p) ==
    /\ \E i \in DOMAIN recorded : recorded[i].packet = p
    /\ <<p, OK>> \in acks \/ FlowOf(p) \in closed
EveryPacketAccounted == \A p \in Packets : Arrived(p) ~> Accounted(p)

(* The bounded queues and the suspensions are invisible: the slicer keeps the
   promise of PacketLedger. *)
WaitingIn(s) == (IF stage[s] \in {"taken", "delay"} THEN hand[s] ELSE <<>>) \o queue[s]
ToldBy(seq, d) ==
    {seq[i].packet : i \in {j \in DOMAIN seq : seq[j].dropped = d}}
HeldAs(st) == {Holds(s) : s \in {t \in Slices : stage[t] = st}}
OutcomeOf(p) ==
    CASE p \in ToldBy(Journal, FALSE) \union HeldAs("late") -> "delivered"
      [] p \in ToldBy(Journal, TRUE) \union HeldAs("lost") \union blocked -> "dropped"
      [] \E s \in Slices : \E i \in DOMAIN WaitingIn(s) : WaitingIn(s)[i] = p -> "waiting"
      [] OTHER -> "unseen"
Ledger == INSTANCE PacketLedger WITH
    outcome <- [p \in Packets |-> OutcomeOf(p)],
    line <- [s \in Slices |-> WaitingIn(s)],
    told <- {recorded[i].packet : i \in DOMAIN recorded}
ImplementsLedger == Ledger!LSpec

(* No packet the server has already dropped is acknowledged as OK. *)
AckReportsDrop ==
    [][\A p \in Packets : <<p, OK>> \in acks' \ acks => OutcomeOf(p)' # "dropped"]_vars

=============================================================================
