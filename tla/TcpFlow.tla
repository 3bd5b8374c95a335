------------------------------- MODULE TcpFlow -------------------------------
(***************************************************************************)
(* TCPFlowClient: a flow that keeps one connection to the server open, one *)
(* loop that sends frames and one that reads acknowledgements, and the     *)
(* table of outstanding frames the two share.                              *)
(*                                                                         *)
(* A put on a full RTT queue suspends its loop for ever: it has no action  *)
(* to resume.  The server acknowledges the frames of a connection in any   *)
(* order.  The sleeps between frames are left to the scheduler, and time   *)
(* is counted in units of which TcpPatience make the 5 seconds after which *)
(* a frame is lost.                                                        *)
(***************************************************************************)
EXTENDS FlowTable

CONSTANT TcpPatience

ASSUME TcpAssumption == TcpPatience \in Nat

-----------------------------------------------------------------------------
(* run: once both loops have ended, or the connection was refused, the table
   is emptied and the next connection is opened. *)

(* Faulty variant: the table survives the reconnect. *)
ConnectKeeping ==
    /\ Running("tcp")
    /\ sender = "off" /\ reader = "off"
    /\ conn' = "up"
    /\ sender' = "ready"
    /\ reader' = "ready"
    /\ inflight' = {}
    /\ UNCHANGED <<profile, phase, seq, pending, udpVars, rtt, waiting, now>>

Connect ==
    /\ Running("tcp")
    /\ sender = "off" /\ reader = "off"
    /\ pending' = Nothing
    /\ conn' = "up"
    /\ sender' = "ready"
    /\ reader' = "ready"
    /\ inflight' = {}
    /\ UNCHANGED <<profile, phase, seq, udpVars, rtt, waiting, now>>

ConnectFails ==
    /\ Running("tcp")
    /\ sender = "off" /\ reader = "off"
    /\ pending' = Nothing
    /\ conn' = "none"
    /\ inflight' = {}
    /\ UNCHANGED <<profile, phase, seq, sender, reader, udpVars, rtt, waiting, now>>

(* The server, or the network, ends the connection. *)
Lose ==
    /\ conn = "up"
    /\ conn' = "lost"
    /\ UNCHANGED <<profile, phase, seq, pending, inflight, sender, reader, udpVars,
                   rtt, waiting, now>>

-----------------------------------------------------------------------------
(* _send_loop and _burst_send_loop. *)

Ready == Running("tcp") /\ sender = "ready" /\ seq \in Frames

(* A flow in burst mode never looks for stale frames. *)
Stale == IF profile.pattern = "burst" THEN {} ELSE Overdue(TcpPatience)

(* Faulty variant: the queue has no bound. *)
PruneUnbounded ==
    \E stale \in Ascending(Stale) :
        /\ pending' = Without(Noted, Stale)
        /\ rtt' = rtt \o Losses(stale, Len(stale))
        /\ UNCHANGED <<sender, waiting>>

(* Every stale frame is deleted and reported lost; the loop is suspended in
   the put, the frame already deleted, when the queue is full. *)
Prune ==
    \E stale \in Ascending(Stale) :
        \/ /\ Len(stale) <= Room
           /\ pending' = Without(Noted, Stale)
           /\ rtt' = rtt \o Losses(stale, Len(stale))
           /\ UNCHANGED <<sender, waiting>>
        \/ /\ Len(stale) > Room
           /\ pending' = Without(Noted, FirstOf(stale, Room + 1))
           /\ rtt' = rtt \o Losses(stale, Room)
           /\ waiting' = waiting \union {Measure(stale[Room + 1], TRUE)}
           /\ sender' = "stuck"

(* The frame is noted before it is written; a write on a connection that was
   lost may still succeed. *)
Send ==
    /\ Ready
    /\ seq' = seq + 1
    /\ inflight' = IF conn = "up" THEN inflight \union {seq} ELSE inflight
    /\ Prune
    /\ UNCHANGED <<profile, phase, tcpVars, udpVars, now>>

(* drain raises: the frame stays noted, and the loop ends. *)
SendFails ==
    /\ Ready
    /\ conn = "lost"
    /\ seq' = seq + 1
    /\ pending' = Noted
    /\ sender' = "off"
    /\ UNCHANGED <<profile, phase, inflight, tcpVars, udpVars, rtt, waiting, now>>

(* The loop finds its writer closing. *)
SendStops ==
    /\ Running("tcp")
    /\ sender = "ready"
    /\ conn = "lost"
    /\ sender' = "off"
    /\ UNCHANGED <<profile, phase, seq, pending, inflight, tcpVars, udpVars, rtt,
                   waiting, now>>

-----------------------------------------------------------------------------
(* _recv_loop. *)

(* Faulty variant: the entry is read and not removed. *)
ReceiveKeeping(k) ==
    /\ reader = "ready"
    /\ k \in inflight
    /\ inflight' = inflight \ {k}
    /\ \/ /\ k \notin DOMAIN pending
          /\ UNCHANGED <<rtt, waiting, reader>>
       \/ /\ k \in DOMAIN pending /\ Room > 0
          /\ rtt' = Append(rtt, Measure(k, FALSE))
          /\ UNCHANGED <<waiting, reader>>
       \/ /\ k \in DOMAIN pending /\ Room = 0
          /\ waiting' = waiting \union {Measure(k, FALSE)}
          /\ reader' = "stuck"
          /\ UNCHANGED rtt
    /\ UNCHANGED <<profile, phase, seq, pending, sender, conn, udpVars, now>>

(* The acknowledgement of a frame that was given up is ignored. *)
Receive(k) ==
    /\ reader = "ready"
    /\ k \in inflight
    /\ inflight' = inflight \ {k}
    /\ pending' = Without(pending, {k})
    /\ \/ /\ k \notin DOMAIN pending
          /\ UNCHANGED <<rtt, waiting, reader>>
       \/ /\ k \in DOMAIN pending /\ Room > 0
          /\ rtt' = Append(rtt, Measure(k, FALSE))
          /\ UNCHANGED <<waiting, reader>>
       \/ /\ k \in DOMAIN pending /\ Room = 0
          /\ waiting' = waiting \union {Measure(k, FALSE)}
          /\ reader' = "stuck"
          /\ UNCHANGED rtt
    /\ UNCHANGED <<profile, phase, seq, sender, conn, udpVars, now>>

(* Faulty variant: the timeout of the read ends the loop. *)
ReceiveTimesOut ==
    /\ reader = "ready"
    /\ reader' = "off"
    /\ UNCHANGED <<profile, phase, seq, pending, inflight, sender, conn, udpVars,
                   rtt, waiting, now>>

(* readexactly raises: the loop ends. *)
ReceiveStops ==
    /\ reader = "ready"
    /\ conn = "lost"
    /\ reader' = "off"
    /\ UNCHANGED <<profile, phase, seq, pending, inflight, sender, conn, udpVars,
                   rtt, waiting, now>>

(* stop, and the cancellation of run: both loops end where they are, a put they
   are suspended in is withdrawn, and the connection is closed. *)
TcpStop ==
    /\ sender' = "off"
    /\ reader' = "off"
    /\ conn' = "none"
    /\ inflight' = {}
    /\ waiting' = {}
    /\ UNCHANGED <<pending, udpVars>>

TcpNext ==
    \/ Connect \/ ConnectFails \/ Lose
    \/ Send \/ SendFails \/ SendStops
    \/ \E k \in Frames : Receive(k)
    \/ ReceiveStops

=============================================================================
