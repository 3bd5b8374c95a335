------------------------------- MODULE UdpFlow -------------------------------
(***************************************************************************)
(* UDPFlowClient: one loop that sends datagrams, singly or in bursts, and  *)
(* a callback for their acknowledgements.  Datagrams and acknowledgements  *)
(* may be lost, overtake each other and arrive twice.  The loop looks for  *)
(* lost datagrams only when it sends, and not inside a burst.              *)
(*                                                                         *)
(* A measurement is put by a task of its own.  The loop and the callback   *)
(* are never suspended by the RTT queue; the tasks that find it full pile  *)
(* up without bound.                                                       *)
(***************************************************************************)
EXTENDS FlowTable

CONSTANTS UdpPatience, BurstCount

ASSUME UdpAssumption ==
    /\ UdpPatience \in Nat
    /\ BurstCount \in Nat \ {0}

-----------------------------------------------------------------------------
(* run: when the send loop ends, the next endpoint is opened at once, with the
   same table.  The endpoint before it is not closed: its callback still finds
   the datagrams of the table. *)

(* Faulty variant: the table is emptied, as the TCP flow does. *)
OpenForgetting ==
    /\ Running("udp")
    /\ sender = "off"
    /\ sender' = "ready"
    /\ pending' = Nothing
    /\ UNCHANGED <<profile, phase, seq, inflight, tcpVars, udpVars, rtt, waiting, now>>

Open ==
    /\ Running("udp")
    /\ sender = "off"
    /\ sender' = "ready"
    /\ UNCHANGED <<profile, phase, seq, pending, inflight, tcpVars, udpVars, rtt,
                   waiting, now>>

-----------------------------------------------------------------------------
(* _send_loop. *)

(* The datagram is noted, and those outstanding for too long are reported. *)
NoteAndPrune ==
    /\ Running("udp") /\ sender = "ready" /\ seq \in Frames
    /\ seq' = seq + 1
    /\ \E stale \in Ascending(Overdue(UdpPatience)) :
        /\ pending' = Without(Noted, Overdue(UdpPatience))
        /\ puts' = puts \o Losses(stale, Len(stale))
    /\ UNCHANGED <<profile, phase, tcpVars, rtt, waiting, now>>

SendDatagram ==
    /\ NoteAndPrune
    /\ inflight' = inflight \union {seq}
    /\ left' = IF profile.pattern = "burst" THEN BurstCount - 1 ELSE 0
    /\ sender' = IF left' > 0 THEN "burst" ELSE "ready"
    /\ UNCHANGED stray

(* sendto raises: the datagram stays noted and the loop ends. *)
SendDatagramFails ==
    /\ NoteAndPrune
    /\ sender' = "off"
    /\ stray' = stray \union inflight
    /\ inflight' = {}
    /\ UNCHANGED left

(* The rest of a burst: noted and sent, with no look at the table. *)
NoteInBurst ==
    /\ Running("udp") /\ sender = "burst" /\ seq \in Frames
    /\ seq' = seq + 1
    /\ pending' = Noted
    /\ UNCHANGED <<profile, phase, stray, puts, tcpVars, rtt, waiting, now>>

SendInBurst ==
    /\ NoteInBurst
    /\ inflight' = inflight \union {seq}
    /\ left' = left - 1
    /\ sender' = IF left' > 0 THEN "burst" ELSE "ready"

(* sendto raises: the burst ends, the loop goes on. *)
BurstFails ==
    /\ NoteInBurst
    /\ left' = 0
    /\ sender' = "ready"
    /\ UNCHANGED inflight

-----------------------------------------------------------------------------
(* The network. *)

LoseDatagram(k) ==
    /\ profile.protocol = "udp"
    /\ k \in inflight \union stray
    /\ inflight' = inflight \ {k}
    /\ stray' = stray \ {k}
    /\ UNCHANGED <<profile, phase, seq, pending, sender, left, puts, tcpVars, rtt,
                   waiting, now>>

(* _UDPClientProtocol.datagram_received.  The acknowledgement may arrive once
   more; that of a datagram that is no longer in the table is ignored. *)

(* Faulty variant: the entry is read and not removed. *)
DatagramReceivedKeeping(k) ==
    /\ profile.protocol = "udp"
    /\ k \in inflight \union stray
    /\ inflight' \in {inflight, inflight \ {k}}
    /\ stray' \in {stray, stray \ {k}}
    /\ puts' = IF k \in DOMAIN pending THEN Append(puts, Measure(k, FALSE)) ELSE puts
    /\ Len(puts') <= 2 * MaxFrames
    /\ UNCHANGED <<profile, phase, seq, pending, sender, left, tcpVars, rtt, waiting, now>>

DatagramReceived(k) ==
    /\ profile.protocol = "udp"
    /\ k \in inflight \union stray
    /\ inflight' \in {inflight, inflight \ {k}}
    /\ stray' \in {stray, stray \ {k}}
    /\ pending' = Without(pending, {k})
    /\ puts' = IF k \in DOMAIN pending THEN Append(puts, Measure(k, FALSE)) ELSE puts
    /\ UNCHANGED <<profile, phase, seq, sender, left, tcpVars, rtt, waiting, now>>

(* The task of a put runs; it waits for ever when the queue is full. *)
RunPut ==
    /\ puts # <<>>
    /\ puts' = Tail(puts)
    /\ \/ /\ Room > 0
          /\ rtt' = Append(rtt, Head(puts))
          /\ UNCHANGED waiting
       \/ /\ Room = 0
          /\ waiting' = waiting \union {Head(puts)}
          /\ UNCHANGED rtt
    /\ UNCHANGED <<profile, phase, seq, pending, inflight, sender, left, stray,
                   tcpVars, now>>

(* stop closes the endpoint in use and cancels the loop.  Tasks of puts and
   endpoints that were given up are out of its reach. *)
UdpStop ==
    /\ sender' = "off"
    /\ left' = 0
    /\ inflight' = {}
    /\ UNCHANGED <<pending, stray, puts, waiting, tcpVars>>

UdpNext ==
    \/ Open
    \/ SendDatagram \/ SendDatagramFails
    \/ SendInBurst \/ BurstFails
    \/ \E k \in Frames : LoseDatagram(k)
    \/ \E k \in Frames : DatagramReceived(k)
    \/ RunPut

=============================================================================
