------------------------------ MODULE FlowTable ------------------------------
(***************************************************************************)
(* What TCPFlowClient and UDPFlowClient have in common: the profile that   *)
(* selects the client, the table of outstanding frames with the time each  *)
(* was sent, and the queue of RTT measurements all flows share.  Nothing   *)
(* in the program takes a measurement out of that queue.                   *)
(*                                                                         *)
(* All state of a flow is declared here, since TrafficGenerator starts and *)
(* stops either kind.                                                      *)
(***************************************************************************)
EXTENDS Integers, Sequences, FiniteSets

CONSTANTS
    Profiles,       \* the flows: which protocol, which traffic pattern
    RttSize,        \* maxsize of TrafficGenerator.rtt_queue
    MaxFrames,      \* bound: frames the flow sends
    MaxTime         \* bound: the last instant of a run

ASSUME TableAssumption ==
    /\ Profiles \subseteq [protocol : {"tcp", "udp"},
                           pattern : {"constant", "poisson", "burst"}]
    /\ RttSize \in Nat \ {0}
    /\ MaxFrames \in Nat
    /\ MaxTime \in Nat

Frames == 1 .. MaxFrames

VARIABLES
    profile,
    phase,      \* the generator: "new", "running" or "stopped"
    seq,        \* the next frame
    pending,    \* _pending: when each outstanding frame was sent
    inflight,   \* frames whose acknowledgement is to come
    sender,     \* _send_loop: "off", "ready", in a "burst", "stuck" in a put
    reader,     \* TCP: _recv_loop, "off", "ready" or "stuck" in a put
    conn,       \* TCP: the connection, "none", "up" or "lost"
    left,       \* UDP: datagrams left in the burst
    stray,      \* UDP: like inflight, on endpoints that were given up
    puts,       \* UDP: measurements whose put is a task that has not run
    rtt,        \* rtt_queue
    waiting,    \* the measurements of puts that found it full
    now

tcpVars == <<reader, conn>>
udpVars == <<left, stray, puts>>
vars == <<profile, phase, seq, pending, inflight, sender, tcpVars, udpVars,
          rtt, waiting, now>>

Running(protocol) == phase = "running" /\ profile.protocol = protocol

(* A measurement: the frame (0 for a frame of another flow) and the loss flag. *)
Measure(k, lost) == [frame |-> k, lost |-> lost]
Elsewhere == Measure(0, FALSE)

Room == RttSize - Len(rtt)

Nothing == [k \in {} |-> 0]
Without(table, ks) == [k \in DOMAIN table \ ks |-> table[k]]

(* The table with the frame that is being sent, which is noted first. *)
Noted == [k \in DOMAIN pending \union {seq} |-> IF k = seq THEN now ELSE pending[k]]

(* The frames outstanding for longer than patience, and the one order in which
   the loops visit them: a dictionary keeps the order in which it was filled. *)
Overdue(patience) == {k \in DOMAIN Noted : now - Noted[k] > patience}
Ascending(ks) ==
    {s \in [1 .. Cardinality(ks) -> ks] :
        \A i, j \in DOMAIN s : i < j => s[i] < s[j]}

FirstOf(s, n) == {s[i] : i \in 1 .. n}
Losses(s, n) == [i \in 1 .. n |-> Measure(s[i], TRUE)]

Init ==
    /\ profile \in Profiles
    /\ phase = "new"
    /\ seq = 1
    /\ pending = Nothing
    /\ inflight = {}
    /\ sender = "off"
    /\ reader = "off"
    /\ conn = "none"
    /\ left = 0
    /\ stray = {}
    /\ puts = <<>>
    /\ rtt = <<>>
    /\ waiting = {}
    /\ now = 0

=============================================================================
