--------------------------- MODULE TrafficGenerator ---------------------------
(***************************************************************************)
(* TrafficGenerator: it makes the client each profile asks for, starts the *)
(* clients half a second after it was started itself, and stops them.  The *)
(* module follows one flow, of any profile; what it shares with the others *)
(* is the RTT queue.                                                       *)
(***************************************************************************)
EXTENDS TcpFlow, UdpFlow

(* run: the tasks of the clients are created after the first sleep. *)
Start ==
    /\ phase = "new"
    /\ phase' = "running"
    /\ UNCHANGED <<profile, seq, pending, inflight, sender, tcpVars, udpVars, rtt,
                   waiting, now>>

(* stop, with the tasks running.  Before the first sleep is over there are no
   tasks to cancel, and run of a client sets the flag stop has cleared: a stop
   that early changes nothing. *)
Stop ==
    /\ phase = "running"
    /\ phase' = "stopped"
    /\ \/ profile.protocol = "tcp" /\ TcpStop
       \/ profile.protocol = "udp" /\ UdpStop
    /\ UNCHANGED <<profile, seq, rtt, now>>

(* Another flow puts its measurement. *)
OtherFlow ==
    /\ phase = "running"
    /\ Room > 0
    /\ rtt' = Append(rtt, Elsewhere)
    /\ UNCHANGED <<profile, phase, seq, pending, inflight, sender, tcpVars, udpVars,
                   waiting, now>>

Elapse ==
    /\ now < MaxTime
    /\ now' = now + 1
    /\ UNCHANGED <<profile, phase, seq, pending, inflight, sender, tcpVars, udpVars,
                   rtt, waiting>>

Next == Start \/ Stop \/ TcpNext \/ UdpNext \/ OtherFlow \/ Elapse

(* The server answers every frame of a live connection and the reader reads
   every answer; both loops notice that a connection is gone; and the server
   accepts a connection in the end. *)
Fairness ==
    /\ WF_vars(Connect)
    /\ WF_vars(SendStops)
    /\ WF_vars(ReceiveStops)
    /\ WF_vars(\E k \in Frames : Receive(k))

Spec == Init /\ [][Next]_vars /\ Fairness

-----------------------------------------------------------------------------
Measurements == [frame : 0 .. MaxFrames, lost : BOOLEAN]

(* The measurements in the queue, and those of tasks that have not run; a put
   that waits has its own in waiting. *)
Reports == rtt \o puts

(* No frame is noted, under way or measured before it was sent. *)
TypeOK ==
    /\ profile \in Profiles
    /\ phase \in {"new", "running", "stopped"}
    /\ seq \in 1 .. MaxFrames + 1
    /\ DOMAIN pending \subseteq 1 .. seq - 1
    /\ \A k \in DOMAIN pending : pending[k] \in 0 .. now
    /\ inflight \subseteq 1 .. seq - 1
    /\ stray \subseteq 1 .. seq - 1
    /\ sender \in {"off", "ready", "burst", "stuck"}
    /\ reader \in {"off", "ready", "stuck"}
    /\ conn \in {"none", "up", "lost"}
    /\ left \in 0 .. BurstCount - 1
    /\ puts \in Seq(Measurements)
    /\ rtt \in Seq(Measurements) /\ Len(rtt) <= RttSize
    /\ waiting \subseteq Measurements
    /\ \A i \in DOMAIN Reports : Reports[i].frame < seq
    /\ \A m \in waiting : m.frame < seq
    /\ now \in 0 .. MaxTime

(* A frame is measured at most once, and never while it is outstanding: an
   acknowledgement that arrives late, twice, or after a reconnect counts for
   nothing. *)
MeasuredOnce ==
    /\ \A i, j \in DOMAIN Reports :
        Reports[i].frame = Reports[j].frame => i = j \/ Reports[i] = Elsewhere
    /\ \A m, n \in waiting : m.frame = n.frame => m = n
    /\ \A m \in waiting : \A i \in DOMAIN Reports : Reports[i].frame # m.frame
    /\ \A k \in DOMAIN pending :
        /\ \A i \in DOMAIN Reports : Reports[i].frame # k
        /\ \A m \in waiting : m.frame # k

(* On a live connection the flow only waits for frames the server is going to
   answer on it. *)
PendingInFlight == conn = "up" => DOMAIN pending \subseteq inflight

(* No datagram is forgotten: whatever the network does to it, and however often
   the endpoint is reopened, it is outstanding or it has been measured. *)
DatagramsAccounted ==
    profile.protocol = "udp" =>
        \A k \in 1 .. seq - 1 :
            \/ k \in DOMAIN pending
            \/ \E i \in DOMAIN Reports : Reports[i].frame = k
            \/ \E m \in waiting : m.frame = k

(* As long as the queue of measurements has room, no frame of a connection
   stays outstanding for ever: it is answered, reported lost, or forgotten in
   a reconnect. *)
EveryFrameResolved ==
    profile.protocol = "tcp" =>
        \A k \in Frames :
            k \in DOMAIN pending
                ~> k \notin DOMAIN pending \/ Room = 0 \/ phase = "stopped"

(* collector.py: telemetry "Consumes PacketResult events from the slicer and
   RTT measurements from clients": no client waits for ever to hand one over. *)
MeasurementsConsumed == waiting # {} ~> waiting = {}

=============================================================================
