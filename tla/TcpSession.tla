------------------------------ MODULE TcpSession ------------------------------
(***************************************************************************)
(* TCPSessionProtocol: the server's end of one connection.  The stream     *)
(* arrives in pieces cut anywhere; every call of data_received takes all   *)
(* whole frames from the front of the buffer and gives each to a handler,  *)
(* a task that acknowledges the frame when the slicer has taken it         *)
(* (SlicePipeline models what happens there).                              *)
(*                                                                         *)
(* Bytes are positions in the stream, and a frame is named by its first.   *)
(* What the stream says is a function: announces[p] is the payload_len of  *)
(* a header read at p.  It may be any, also one too large to be accepted.  *)
(***************************************************************************)
EXTENDS Integers, Sequences

CONSTANTS
    HeaderSize,     \* HEADER_SIZE
    MaxPayload,     \* _MAX_PAYLOAD
    StreamSize,     \* bound: bytes the client sends
    PayloadLens     \* bound: what a header may announce

ASSUME SessionAssumption ==
    /\ HeaderSize \in Nat \ {0}
    /\ MaxPayload \in Nat
    /\ StreamSize \in Nat /\ StreamSize >= HeaderSize
    /\ PayloadLens \subseteq Nat

Positions == 0 .. StreamSize
Headers == 0 .. StreamSize - HeaderSize     \* where a header can be complete

VARIABLES
    announces,
    received,   \* bytes received
    taken,      \* bytes taken: _buf is what lies between taken and received
    handed,     \* the frames given to handlers, in order
    tasks,      \* _tasks: handlers that have not ended
    acked,      \* frames whose acknowledgement was written
    transport,  \* "open", "closing" or "lost"
    connections \* stats["tcp_connections"]

vars == <<announces, received, taken, handed, tasks, acked, transport, connections>>

(* connection_made *)
Init ==
    /\ announces \in [Headers -> PayloadLens]
    /\ received = 0
    /\ taken = 0
    /\ handed = <<>>
    /\ tasks = {}
    /\ acked = {}
    /\ transport = "open"
    /\ connections = 1

FrameEnd(p) == p + HeaderSize + announces[p]

(* _drain_buffer, from the front of the buffer: the frames it hands over, the
   front it leaves, and whether it closes the connection. *)

Halt(p, close) == [frames |-> <<>>, front |-> p, close |-> close]

(* Faulty variant: an announced size is checked when the frame is complete. *)
DrainedLate(from, limit) ==
    LET drain[p \in Positions] ==
          IF p + HeaderSize > limit \/ FrameEnd(p) > limit THEN Halt(p, FALSE)
          ELSE IF announces[p] > MaxPayload THEN Halt(p, TRUE)
          ELSE [drain[FrameEnd(p)] EXCEPT !.frames = <<p>> \o @]
    IN  drain[from]

(* Faulty variant: one frame for every call. *)
DrainedOnce(from, limit) ==
    IF from + HeaderSize > limit THEN Halt(from, FALSE)
    ELSE IF announces[from] > MaxPayload THEN Halt(from, TRUE)
    ELSE IF FrameEnd(from) > limit THEN Halt(from, FALSE)
    ELSE [Halt(FrameEnd(from), FALSE) EXCEPT !.frames = <<from>>]

Drained(from, limit) ==
    LET drain[p \in Positions] ==
          IF p + HeaderSize > limit THEN Halt(p, FALSE)
          ELSE IF announces[p] > MaxPayload THEN Halt(p, TRUE)
          ELSE IF FrameEnd(p) > limit THEN Halt(p, FALSE)
          ELSE [drain[FrameEnd(p)] EXCEPT !.frames = <<p>> \o @]
    IN  drain[from]

FramesOf(s) == {s[i] : i \in DOMAIN s}

DataReceived(n) ==
    /\ transport = "open"
    /\ received + n <= StreamSize
    /\ received' = received + n
    /\ LET d == Drained(taken, received')
       IN  /\ handed' = handed \o d.frames
           /\ tasks' = tasks \union FramesOf(d.frames)
           /\ taken' = d.front
           /\ transport' = IF d.close THEN "closing" ELSE "open"
    /\ UNCHANGED <<announces, acked, connections>>

(* Faulty variant: the handler reads the header from the session. *)
HandleLatest(p) ==
    /\ p \in tasks
    /\ tasks' = tasks \ {p}
    /\ acked' = IF transport = "open" THEN acked \union {handed[Len(handed)]} ELSE acked
    /\ UNCHANGED <<announces, received, taken, handed, transport, connections>>

(* _handle resumes after the dispatch; the frames overtake each other. *)
Handle(p) ==
    /\ p \in tasks
    /\ tasks' = tasks \ {p}
    /\ acked' = IF transport = "open" THEN acked \union {p} ELSE acked
    /\ UNCHANGED <<announces, received, taken, handed, transport, connections>>

(* connection_lost, called by the client's end of stream or some time after the
   session closed the transport.  Handlers that are running go on. *)
ConnectionLost ==
    /\ transport # "lost"
    /\ transport' = "lost"
    /\ connections' = IF connections > 0 THEN connections - 1 ELSE 0
    /\ UNCHANGED <<announces, received, taken, handed, tasks, acked>>

Next ==
    \/ \E n \in 1 .. StreamSize : DataReceived(n)
    \/ \E p \in Positions : Handle(p)
    \/ ConnectionLost

(* The slicer takes every packet in the end: SlicePipeline. *)
Spec == Init /\ [][Next]_vars /\ \A p \in Positions : WF_vars(Handle(p))

-----------------------------------------------------------------------------
(* What was taken from the buffer arrived, what has a handler or was answered
   was handed over, and the counter of connections knows this one. *)
TypeOK ==
    /\ received \in Positions
    /\ taken \in 0 .. received
    /\ handed \in Seq(Positions)
    /\ tasks \subseteq FramesOf(handed)
    /\ acked \subseteq FramesOf(handed) \ tasks
    /\ transport \in {"open", "closing", "lost"}
    /\ connections = IF transport = "lost" THEN 0 ELSE 1

(* No client makes the buffer of an open connection hold a frame of the largest
   size, whatever sizes it announces and however it cuts them. *)
BufferBounded ==
    /\ TypeOK
    /\ transport = "open" => received - taken < HeaderSize + MaxPayload

Whole(p) ==
    /\ p + HeaderSize <= received
    /\ announces[p] <= MaxPayload
    /\ FrameEnd(p) <= received

Refused(p) == p + HeaderSize <= received /\ announces[p] > MaxPayload

(* However TCP cuts the stream, the session handles exactly the frames that are
   whole in what has arrived of it, each once and in order, from the first byte
   on with nothing in between; and it closes the connection exactly when the
   next header announces more than is accepted. *)
CutsAreInvisible ==
    LET ends == [i \in DOMAIN handed |-> FrameEnd(handed[i])]
    IN  /\ handed \o <<taken>> = <<0>> \o ends
        /\ \A p \in FramesOf(handed) : Whole(p)
        /\ ~Whole(taken)
        /\ transport # "lost" => (transport = "closing" <=> Refused(taken))

(* Every frame is acknowledged in the end, in whatever order the slicer lets
   the handlers go, unless the connection is closed first. *)
FramesAnswered ==
    \A p \in Positions :
        p \in FramesOf(handed) ~> p \in acked \/ transport # "open"

=============================================================================
