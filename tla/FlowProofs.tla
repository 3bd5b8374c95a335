------------------------------ MODULE FlowProofs -----------------------------
(* Proofs about the flows.  Whatever happened to earlier connections, on a live
   one a TCP flow waits only for frames the server is going to answer on it; no
   frame is measured twice; and a UDP flow forgets no datagram. *)
EXTENDS TrafficGenerator, SequenceTheorems, FiniteSetTheorems, FunctionTheorems, TLAPS

(* A UDP flow never has a connection, nor a loop that reads from one. *)
UdpHasNoConnection ==
    profile.protocol = "udp" => conn = "none" /\ reader = "off"

ConnectionInv == PendingInFlight /\ UdpHasNoConnection

LEMMA UdpStaysUnconnected ==
    ASSUME UdpHasNoConnection, [Next]_vars
    PROVE  UdpHasNoConnection'
<1>1. profile' = profile
  BY DEF Next, vars, Start, Stop, OtherFlow, Elapse, TcpNext, Connect, ConnectFails, Lose,
         Send, SendFails, SendStops, Receive, ReceiveStops, UdpNext, Open, SendDatagram,
         SendDatagramFails, NoteAndPrune, SendInBurst, BurstFails, NoteInBurst,
         LoseDatagram, DatagramReceived, RunPut
<1> SUFFICES ASSUME profile.protocol = "udp"
             PROVE  conn' = "none" /\ reader' = "off"
  BY <1>1 DEF UdpHasNoConnection
<1>2. conn = "none" /\ reader = "off"
  BY DEF UdpHasNoConnection
<1>3. CASE UdpNext \/ Start \/ OtherFlow \/ Elapse \/ UNCHANGED vars
  BY <1>2, <1>3 DEF UdpNext, Open, SendDatagram, SendDatagramFails, NoteAndPrune,
        SendInBurst, BurstFails, NoteInBurst, LoseDatagram, DatagramReceived, RunPut,
        Start, OtherFlow, Elapse, vars, tcpVars
<1>4. CASE Stop
  BY <1>2, <1>4 DEF Stop, TcpStop, UdpStop, tcpVars
<1>5. CASE TcpNext
  BY <1>2, <1>5 DEF TcpNext, Connect, ConnectFails, Lose, Send, SendFails, SendStops,
        Receive, ReceiveStops, Ready, Running
<1> QED
  BY <1>3, <1>4, <1>5 DEF Next

(* Noting a frame adds it to the table, and pruning only removes. *)
LEMMA NotedDomain == DOMAIN Noted = DOMAIN pending \union {seq}
  BY DEF Noted

LEMMA PruneRemoves == Prune => DOMAIN pending' \subseteq DOMAIN Noted
<1> SUFFICES ASSUME Prune
             PROVE  DOMAIN pending' \subseteq DOMAIN Noted
  OBVIOUS
<1>1. PICK ks : pending' = Without(Noted, ks)
  BY DEF Prune
<1> QED
  BY <1>1 DEF Without

LEMMA InitConnectionInv == Init => ConnectionInv
  BY DEF Init, ConnectionInv, PendingInFlight, UdpHasNoConnection

LEMMA NextConnectionInv == ConnectionInv /\ [Next]_vars => ConnectionInv'
<1> SUFFICES ASSUME ConnectionInv, [Next]_vars
             PROVE  ConnectionInv'
  OBVIOUS
<1>1. UdpHasNoConnection'
  BY UdpStaysUnconnected DEF ConnectionInv
<1>2. PendingInFlight'
  <2> SUFFICES ASSUME conn' = "up"
               PROVE  DOMAIN pending' \subseteq inflight'
    BY DEF PendingInFlight
  <2>1. CASE Connect \/ ConnectFails
    BY <2>1 DEF Connect, ConnectFails, Nothing
  <2>2. CASE SendStops \/ ReceiveStops
    BY <2>2 DEF SendStops, ReceiveStops, tcpVars, ConnectionInv, PendingInFlight
  <2>3. CASE Lose \/ SendFails
    BY <2>3 DEF Lose, SendFails, tcpVars
  <2>4. CASE Send
    <3>1. conn = "up" /\ inflight' = inflight \union {seq} /\ Prune
      BY <2>4 DEF Send, tcpVars
    <3> QED
      BY <3>1, PruneRemoves, NotedDomain DEF ConnectionInv, PendingInFlight
  <2>5. ASSUME NEW k \in Frames, Receive(k)
        PROVE  DOMAIN pending' \subseteq inflight'
    <3>1. conn = "up" /\ inflight' = inflight \ {k} /\ pending' = Without(pending, {k})
      BY <2>5 DEF Receive
    <3> QED
      BY <3>1 DEF ConnectionInv, PendingInFlight, Without
  <2>6. CASE UdpNext
    <3>1. UNCHANGED <<profile, conn>>
      BY <2>6 DEF UdpNext, Open, SendDatagram, SendDatagramFails, NoteAndPrune,
            SendInBurst, BurstFails, NoteInBurst, LoseDatagram, DatagramReceived, RunPut,
            tcpVars
    <3>2. profile.protocol # "udp"
      BY <3>1 DEF ConnectionInv, UdpHasNoConnection
    <3>3. RunPut
      BY <2>6, <3>2 DEF UdpNext, Open, SendDatagram, SendDatagramFails, NoteAndPrune,
            SendInBurst, BurstFails, NoteInBurst, LoseDatagram, DatagramReceived, Running
    <3> QED
      BY <3>3 DEF RunPut, tcpVars, ConnectionInv, PendingInFlight
  <2>7. CASE Start \/ OtherFlow \/ Elapse \/ UNCHANGED vars
    BY <2>7 DEF Start, OtherFlow, Elapse, vars, tcpVars, ConnectionInv, PendingInFlight
  <2>8. CASE Stop
    BY <2>8 DEF Stop, TcpStop, UdpStop, tcpVars, ConnectionInv, PendingInFlight,
          UdpHasNoConnection
  <2> QED
    BY <2>1, <2>2, <2>3, <2>4, <2>5, <2>6, <2>7, <2>8 DEF Next, TcpNext
<1> QED
  BY <1>1, <1>2 DEF ConnectionInv

(* No frame of an earlier connection is waited for on a later one, and none is
   waited for whose acknowledgement has been read. *)
THEOREM OutstandingIsInFlight == Spec => []PendingInFlight
<1>1. ConnectionInv => PendingInFlight
  BY DEF ConnectionInv
<1> QED
  BY InitConnectionInv, NextConnectionInv, <1>1, PTL DEF Spec
-----------------------------------------------------------------------------
(* Measurements: the frames they are of, and that none is there twice. *)

FramesIn(s) == {s[i].frame : i \in DOMAIN s}
FramesOf(w) == {m.frame : m \in w}
Distinct(s) ==
    \A i, j \in DOMAIN s : s[i].frame = s[j].frame => i = j \/ s[i] = Elsewhere

LEMMA ConcatFacts ==
    ASSUME NEW s \in Seq(Measurements), NEW t \in Seq(Measurements)
    PROVE  /\ s \o t \in Seq(Measurements)
           /\ FramesIn(s \o t) = FramesIn(s) \union FramesIn(t)
           /\ Distinct(s) /\ Distinct(t) /\ FramesIn(s) \intersect FramesIn(t) = {}
                => Distinct(s \o t)
<1> DEFINE m == Len(s)
           n == Len(t)
           c == s \o t
<1>1. m \in Nat /\ n \in Nat /\ DOMAIN s = 1 .. m /\ DOMAIN t = 1 .. n
  BY LenProperties
<1>2. /\ c \in Seq(Measurements) /\ Len(c) = m + n
      /\ \A i \in 1 .. m + n : c[i] = IF i <= m THEN s[i] ELSE t[i - m]
  BY ConcatProperties
<1>3. DOMAIN c = 1 .. m + n
  BY <1>2, LenProperties
<1> HIDE DEF m, n, c
<1>4. /\ \A i \in DOMAIN s : i \in DOMAIN c /\ c[i] = s[i]
      /\ \A j \in DOMAIN t : j + m \in DOMAIN c /\ c[j + m] = t[j]
      /\ \A i \in DOMAIN c : \/ i \in DOMAIN s /\ c[i] = s[i]
                             \/ i - m \in DOMAIN t /\ c[i] = t[i - m]
  <2>1. ASSUME NEW i \in DOMAIN s PROVE i \in DOMAIN c /\ c[i] = s[i]
    BY <1>1, <1>2, <1>3
  <2>2. ASSUME NEW j \in DOMAIN t PROVE j + m \in DOMAIN c /\ c[j + m] = t[j]
    <3>1. j + m \in 1 .. m + n /\ ~(j + m <= m) /\ (j + m) - m = j
      BY <1>1
    <3> QED
      BY <1>2, <1>3, <3>1
  <2>3. ASSUME NEW i \in DOMAIN c
        PROVE  \/ i \in DOMAIN s /\ c[i] = s[i]
               \/ i - m \in DOMAIN t /\ c[i] = t[i - m]
    BY <1>1, <1>2, <1>3
  <2> QED
    BY <2>1, <2>2, <2>3
<1>5. FramesIn(c) = FramesIn(s) \union FramesIn(t)
  <2>1. FramesIn(c) \subseteq FramesIn(s) \union FramesIn(t)
    BY <1>4 DEF FramesIn
  <2>2. FramesIn(s) \subseteq FramesIn(c)
    BY <1>4 DEF FramesIn
  <2>3. FramesIn(t) \subseteq FramesIn(c)
    <3> SUFFICES ASSUME NEW j \in DOMAIN t PROVE t[j].frame \in FramesIn(c)
      BY DEF FramesIn
    <3>1. j + m \in DOMAIN c /\ c[j + m] = t[j]
      BY <1>4
    <3> QED
      BY <3>1 DEF FramesIn
  <2> QED
    BY <2>1, <2>2, <2>3
<1>6. ASSUME Distinct(s), Distinct(t), FramesIn(s) \intersect FramesIn(t) = {},
             NEW i \in DOMAIN c, NEW j \in DOMAIN c, c[i].frame = c[j].frame
      PROVE  i = j \/ c[i] = Elsewhere
  <2>1. CASE i \in DOMAIN s /\ c[i] = s[i] /\ j \in DOMAIN s /\ c[j] = s[j]
    BY <1>6, <2>1 DEF Distinct
  <2>2. CASE i - m \in DOMAIN t /\ c[i] = t[i - m] /\ j - m \in DOMAIN t /\ c[j] = t[j - m]
    <3>1. i - m = j - m \/ c[i] = Elsewhere
      BY <1>6, <2>2 DEF Distinct
    <3> QED
      BY <1>1, <1>3, <3>1
  <2>3. ASSUME NEW x \in DOMAIN s, NEW y \in DOMAIN t, s[x].frame = t[y].frame
        PROVE  FALSE
    BY <1>6, <2>3 DEF FramesIn
  <2> QED
    BY <1>4, <1>6, <2>1, <2>2, <2>3
<1>7. Distinct(s) /\ Distinct(t) /\ FramesIn(s) \intersect FramesIn(t) = {} => Distinct(c)
  BY <1>6 DEF Distinct
<1> QED
  BY <1>2, <1>5, <1>7 DEF c

LEMMA ConcatLength ==
    \A s, t \in Seq(Measurements) : Len(s \o t) = Len(s) + Len(t)
  BY ConcatProperties

LEMMA OneMeasurement ==
    ASSUME NEW m \in Measurements
    PROVE  /\ <<m>> \in Seq(Measurements)
           /\ FramesIn(<<m>>) = {m.frame}
           /\ Distinct(<<m>>)
           /\ \A s \in Seq(Measurements) : Append(s, m) = s \o <<m>>
<1>1. <<m>> \in Seq(Measurements) /\ DOMAIN <<m>> = {1} /\ <<m>>[1] = m
  OBVIOUS
<1>2. \A s \in Seq(Measurements) : Append(s, m) = s \o <<m>>
  BY AppendIsConcat
<1> QED
  BY <1>1, <1>2 DEF FramesIn, Distinct

LEMMA MeasureType ==
    ASSUME NEW k \in 0 .. MaxFrames, NEW lost \in BOOLEAN
    PROVE  Measure(k, lost) \in Measurements /\ Measure(k, lost).frame = k
  BY DEF Measure, Measurements

(* The frames found stale, in the order in which they are reported lost. *)
LEMMA LossesFacts ==
    ASSUME NEW ks, ks \subseteq Frames, NEW stale \in Ascending(ks)
    PROVE  /\ Len(stale) \in Nat
           /\ FirstOf(stale, Len(stale)) = ks
           /\ \A n \in 0 .. Len(stale) :
                /\ Losses(stale, n) \in Seq(Measurements)
                /\ Len(Losses(stale, n)) = n
                /\ FramesIn(Losses(stale, n)) = FirstOf(stale, n)
                /\ Distinct(Losses(stale, n))
                /\ FirstOf(stale, n) \subseteq ks
           /\ \A n \in Nat : n < Len(stale) =>
                /\ stale[n + 1] \in ks
                /\ stale[n + 1] \notin FirstOf(stale, n)
                /\ FirstOf(stale, n + 1) = FirstOf(stale, n) \union {stale[n + 1]}
<1> DEFINE c == Cardinality(ks)
<1>1. MaxFrames \in Nat
  BY TableAssumption
<1>2. IsFiniteSet(ks) /\ c \in Nat
  <2>1. IsFiniteSet(1 .. MaxFrames)
    BY <1>1, FS_Interval
  <2>2. ks \in SUBSET (1 .. MaxFrames)
    BY DEF Frames
  <2>3. IsFiniteSet(ks)
    BY <2>1, <2>2, FS_Subset
  <2> QED
    BY <2>3, FS_CardinalityType
<1>3. stale \in [1 .. c -> ks] /\ \A i, j \in 1 .. c : i < j => stale[i] < stale[j]
  BY DEF Ascending
<1> HIDE DEF c
<1>4. \A i \in 1 .. c : stale[i] \in ks /\ stale[i] \in 1 .. MaxFrames
  BY <1>3 DEF Frames
<1>5. \A i, j \in 1 .. c : stale[i] = stale[j] => i = j
  <2> SUFFICES ASSUME NEW i \in 1 .. c, NEW j \in 1 .. c, stale[i] = stale[j], i # j
               PROVE  FALSE
    OBVIOUS
  <2>1. i < j \/ j < i
    BY <1>2
  <2>2. stale[i] < stale[j] \/ stale[j] < stale[i]
    BY <1>3, <2>1
  <2>3. stale[i] \in Int /\ stale[j] \in Int
    BY <1>1, <1>4
  <2> QED
    BY <2>2, <2>3
<1>6. stale \in Seq(ks) /\ Len(stale) = c
  BY <1>2, <1>3
<1>7. ks = {stale[i] : i \in 1 .. c}
  <2>1. stale \in Injection(1 .. c, ks)
    BY <1>3, <1>5 DEF Injection, IsInjective
  <2>2. Cardinality(1 .. c) = c
    BY <1>2, FS_Interval
  <2>3. stale \in Surjection(1 .. c, ks)
    BY <1>2, <2>1, <2>2, FS_Injection DEF c
  <2>4. \A k \in ks : \E i \in 1 .. c : stale[i] = k
    BY <2>3 DEF Surjection
  <2> QED
    BY <1>4, <2>4
<1>8. ASSUME NEW n \in 0 .. Len(stale)
      PROVE  /\ Losses(stale, n) \in Seq(Measurements)
             /\ Len(Losses(stale, n)) = n
             /\ FramesIn(Losses(stale, n)) = FirstOf(stale, n)
             /\ Distinct(Losses(stale, n))
             /\ FirstOf(stale, n) \subseteq ks
  <2>1. \A i \in 1 .. n : /\ i \in 1 .. c
                          /\ Measure(stale[i], TRUE) \in Measurements
                          /\ Measure(stale[i], TRUE).frame = stale[i]
    <3> SUFFICES ASSUME NEW i \in 1 .. n
                 PROVE  /\ i \in 1 .. c
                        /\ Measure(stale[i], TRUE) \in Measurements
                        /\ Measure(stale[i], TRUE).frame = stale[i]
      OBVIOUS
    <3>1. i \in 1 .. c
      BY <1>2, <1>6
    <3>2. stale[i] \in 0 .. MaxFrames
      BY <1>1, <1>4, <3>1
    <3> QED
      BY <3>1, <3>2 DEF Measure, Measurements
  <2>2. Losses(stale, n) \in [1 .. n -> Measurements]
    BY <2>1 DEF Losses
  <2>3. n \in Nat
    BY <1>2, <1>6
  <2>4. Losses(stale, n) \in Seq(Measurements) /\ Len(Losses(stale, n)) = n
    BY <2>2, <2>3
  <2>5. DOMAIN Losses(stale, n) = 1 .. n /\ \A i \in 1 .. n : Losses(stale, n)[i].frame = stale[i]
    BY <2>1 DEF Losses
  <2>6. FramesIn(Losses(stale, n)) = FirstOf(stale, n)
    BY <2>5 DEF FramesIn, FirstOf
  <2>7. Distinct(Losses(stale, n))
    BY <1>5, <2>1, <2>5 DEF Distinct
  <2>8. FirstOf(stale, n) \subseteq ks
    BY <1>4, <2>1 DEF FirstOf
  <2> QED
    BY <2>4, <2>6, <2>7, <2>8
<1>9. ASSUME NEW n \in Nat, n < Len(stale)
      PROVE  /\ stale[n + 1] \in ks
             /\ stale[n + 1] \notin FirstOf(stale, n)
             /\ FirstOf(stale, n + 1) = FirstOf(stale, n) \union {stale[n + 1]}
  <2>1. n + 1 \in 1 .. c /\ 1 .. n + 1 = (1 .. n) \union {n + 1} /\ n + 1 \notin 1 .. n
    BY <1>2, <1>6, <1>9
  <2>2. 1 .. n \subseteq 1 .. c
    BY <1>2, <2>1
  <2>3. stale[n + 1] \notin FirstOf(stale, n)
    <3> SUFFICES ASSUME NEW i \in 1 .. n, stale[i] = stale[n + 1] PROVE FALSE
      BY DEF FirstOf
    <3>1. i = n + 1
      BY <1>5, <2>1, <2>2
    <3> QED
      BY <2>1, <3>1
  <2>4. FirstOf(stale, n + 1) = FirstOf(stale, n) \union {stale[n + 1]}
    <3>1. FirstOf(stale, n + 1) = {stale[i] : i \in (1 .. n) \union {n + 1}}
      BY <2>1 DEF FirstOf
    <3>2. \A A, b : {stale[i] : i \in A \union {b}} = {stale[i] : i \in A} \union {stale[b]}
      OBVIOUS
    <3> QED
      BY <3>1, <3>2 DEF FirstOf
  <2> QED
    BY <1>4, <2>1, <2>3, <2>4
<1> QED
  BY <1>2, <1>6, <1>7, <1>8, <1>9 DEF FirstOf

-----------------------------------------------------------------------------
(* Where the frames 1 .. n - 1 of the flow are, for a queue r, the measurements
   p and w that are not in it yet, and the frames d that are outstanding. *)

ZeroIsElsewhere(r) == \A i \in DOMAIN r : r[i].frame = 0 => r[i] = Elsewhere
OneEach(w) == \A a, b \in w : a.frame = b.frame => a = b

Typed(r, p, w, n) ==
    /\ r \in Seq(Measurements) /\ p \in Seq(Measurements)
    /\ w \subseteq Measurements
    /\ n \in 1 .. MaxFrames + 1

Apart(r, p, w, d, n) ==
    /\ Typed(r, p, w, n)
    /\ Distinct(r) /\ Distinct(p) /\ ZeroIsElsewhere(r) /\ OneEach(w)
    /\ FramesIn(r) \subseteq 0 .. n - 1
    /\ FramesIn(p) \union FramesOf(w) \union d \subseteq 1 .. n - 1
    /\ FramesIn(r) \intersect FramesIn(p) = {}
    /\ (FramesIn(r) \union FramesIn(p)) \intersect FramesOf(w) = {}
    /\ (FramesIn(r) \union FramesIn(p) \union FramesOf(w)) \intersect d = {}

Placed(r, p, w, d) == FramesIn(r) \union FramesIn(p) \union FramesOf(w) \union d

LEMMA SmallerNumbers ==
    ASSUME NEW n \in Nat \ {0}
    PROVE  /\ 0 .. n - 1 \subseteq 0 .. n
           /\ 1 .. n - 1 \subseteq 0 .. n - 1
           /\ n \notin 0 .. n - 1
           /\ 1 .. (n + 1) - 1 = (1 .. n - 1) \union {n}
           /\ 0 .. (n + 1) - 1 = (0 .. n - 1) \union {n}
           /\ 0 \notin 1 .. n - 1
  OBVIOUS

(* A frame is sent: the next number is used, and frames may be forgotten. *)
LEMMA ApartSend ==
    ASSUME NEW r, NEW p, NEW w, NEW d, NEW n \in Frames, Apart(r, p, w, d, n)
    PROVE  Apart(r, p, w, d \union {n}, n + 1)
<1>1. n \in Nat \ {0} /\ n + 1 \in 1 .. MaxFrames + 1
  BY TableAssumption DEF Frames
<1>2. n \notin FramesIn(r) /\ n \notin FramesIn(p) /\ n \notin FramesOf(w)
  BY <1>1, SmallerNumbers DEF Apart
<1> QED
  BY <1>1, <1>2, SmallerNumbers DEF Apart, Typed

LEMMA ApartForget ==
    ASSUME NEW r, NEW p, NEW w, NEW d, NEW n, Apart(r, p, w, d, n),
           NEW v, v \subseteq w, NEW e, e \subseteq d
    PROVE  Apart(r, p, v, e, n)
<1>1. FramesOf(v) \subseteq FramesOf(w)
  BY DEF FramesOf
<1> QED
  BY <1>1 DEF Apart, Typed, OneEach

(* Measurements of frames that were outstanding go to the queue, to the tasks
   that put them, or wait. *)
LEMMA ApartQueued ==
    ASSUME NEW r, NEW p, NEW w, NEW d, NEW n, Apart(r, p, w, d, n),
           NEW new \in Seq(Measurements), Distinct(new), FramesIn(new) \subseteq d
    PROVE  Apart(r \o new, p, w, d \ FramesIn(new), n)
<1>1. r \in Seq(Measurements) /\ Distinct(r) /\ FramesIn(r) \intersect FramesIn(new) = {}
  BY DEF Apart, Typed
<1>2. /\ r \o new \in Seq(Measurements)
      /\ FramesIn(r \o new) = FramesIn(r) \union FramesIn(new)
      /\ Distinct(r \o new)
  BY <1>1, ConcatFacts
<1>3. ZeroIsElsewhere(r \o new)
  <2>1. n \in Nat \ {0} /\ FramesIn(new) \subseteq 1 .. n - 1
    BY TableAssumption DEF Apart, Typed
  <2>2. 0 \notin FramesIn(new)
    BY <2>1
  <2>3. Len(r) \in Nat /\ Len(new) \in Nat /\ DOMAIN r = 1 .. Len(r)
        /\ DOMAIN new = 1 .. Len(new)
    BY <1>1, LenProperties
  <2>4. /\ Len(r \o new) = Len(r) + Len(new)
        /\ \A i \in 1 .. Len(r) + Len(new) :
              (r \o new)[i] = IF i <= Len(r) THEN r[i] ELSE new[i - Len(r)]
    BY <1>1, ConcatProperties
  <2>5. DOMAIN (r \o new) = 1 .. Len(r) + Len(new)
    BY <1>2, <2>4, LenProperties
  <2> SUFFICES ASSUME NEW i \in 1 .. Len(r) + Len(new), (r \o new)[i].frame = 0
               PROVE  (r \o new)[i] = Elsewhere
    BY <2>5 DEF ZeroIsElsewhere
  <2>6. CASE i <= Len(r)
    BY <2>3, <2>4, <2>6 DEF Apart, ZeroIsElsewhere
  <2>7. CASE ~(i <= Len(r))
    <3>1. i - Len(r) \in DOMAIN new /\ (r \o new)[i] = new[i - Len(r)]
      BY <2>3, <2>4, <2>7
    <3> QED
      BY <2>2, <3>1 DEF FramesIn
  <2> QED
    BY <2>6, <2>7
<1>4. (r \o new) \in Seq(Measurements) /\ Typed(r \o new, p, w, n)
  BY <1>2 DEF Apart, Typed
<1>5. n \in Nat \ {0}
  BY TableAssumption DEF Apart, Typed
<1>6. FramesIn(new) \subseteq 0 .. n - 1
  BY <1>5, SmallerNumbers DEF Apart
<1> QED
  BY <1>2, <1>3, <1>4, <1>6 DEF Apart

LEMMA ApartTasks ==
    ASSUME NEW r, NEW p, NEW w, NEW d, NEW n, Apart(r, p, w, d, n),
           NEW new \in Seq(Measurements), Distinct(new), FramesIn(new) \subseteq d
    PROVE  Apart(r, p \o new, w, d \ FramesIn(new), n)
<1>1. p \in Seq(Measurements) /\ Distinct(p) /\ FramesIn(p) \intersect FramesIn(new) = {}
  BY DEF Apart, Typed
<1>2. /\ p \o new \in Seq(Measurements)
      /\ FramesIn(p \o new) = FramesIn(p) \union FramesIn(new)
      /\ Distinct(p \o new)
  BY <1>1, ConcatFacts
<1> QED
  BY <1>2 DEF Apart, Typed

LEMMA ApartWaits ==
    ASSUME NEW r, NEW p, NEW w, NEW d, NEW n, Apart(r, p, w, d, n),
           NEW m \in Measurements, m.frame \in d
    PROVE  Apart(r, p, w \union {m}, d \ {m.frame}, n)
<1>1. FramesOf(w \union {m}) = FramesOf(w) \union {m.frame}
  BY DEF FramesOf
<1>2. m.frame \notin FramesOf(w)
  BY DEF Apart
<1>3. OneEach(w \union {m})
  BY <1>2 DEF Apart, OneEach, FramesOf
<1> QED
  BY <1>1, <1>3 DEF Apart, Typed

(* The task at the head of p runs: as if its frame were outstanding again. *)
LEMMA ApartTaskRuns ==
    ASSUME NEW r, NEW p, NEW w, NEW d, NEW n, Apart(r, p, w, d, n), p # <<>>
    PROVE  /\ Head(p) \in Measurements
           /\ Apart(r, Tail(p), w, d \union {Head(p).frame}, n)
           /\ Head(p).frame \notin d
           /\ FramesIn(p) = FramesIn(Tail(p)) \union {Head(p).frame}
<1>1. p \in Seq(Measurements) /\ Distinct(p)
  BY DEF Apart, Typed
<1>2. /\ Head(p) \in Measurements /\ Tail(p) \in Seq(Measurements)
      /\ Len(Tail(p)) = Len(p) - 1 /\ Len(p) \in Nat \ {0}
      /\ \A i \in 1 .. Len(Tail(p)) : Tail(p)[i] = p[i + 1]
      /\ Head(p) = p[1]
  BY <1>1, HeadTailProperties, EmptySeq
<1>3. DOMAIN p = 1 .. Len(p) /\ DOMAIN Tail(p) = 1 .. Len(p) - 1
  BY <1>1, <1>2, LenProperties
<1>4. /\ \A i \in DOMAIN Tail(p) : i + 1 \in DOMAIN p /\ i + 1 # 1 /\ Tail(p)[i] = p[i + 1]
      /\ \A j \in DOMAIN p : j # 1 => j - 1 \in DOMAIN Tail(p) /\ Tail(p)[j - 1] = p[j]
      /\ 1 \in DOMAIN p
  <2>1. ASSUME NEW i \in DOMAIN Tail(p)
        PROVE  i + 1 \in DOMAIN p /\ i + 1 # 1 /\ Tail(p)[i] = p[i + 1]
    BY <1>2, <1>3
  <2>2. ASSUME NEW j \in DOMAIN p, j # 1
        PROVE  j - 1 \in DOMAIN Tail(p) /\ Tail(p)[j - 1] = p[j]
    <3>1. j - 1 \in DOMAIN Tail(p) /\ (j - 1) + 1 = j
      BY <1>2, <1>3, <2>2
    <3> QED
      BY <2>1, <3>1
  <2> QED
    BY <1>2, <1>3, <2>1, <2>2
<1>5. FramesIn(p) = FramesIn(Tail(p)) \union {Head(p).frame}
  <2>1. FramesIn(p) \subseteq FramesIn(Tail(p)) \union {Head(p).frame}
    <3> SUFFICES ASSUME NEW j \in DOMAIN p
                 PROVE  p[j].frame \in FramesIn(Tail(p)) \union {Head(p).frame}
      BY DEF FramesIn
    <3>1. CASE j = 1
      BY <1>2, <3>1
    <3>2. CASE j # 1
      BY <1>4, <3>2 DEF FramesIn
    <3> QED
      BY <3>1, <3>2
  <2>2. FramesIn(Tail(p)) \subseteq FramesIn(p)
    <3> SUFFICES ASSUME NEW i \in DOMAIN Tail(p) PROVE Tail(p)[i].frame \in FramesIn(p)
      BY DEF FramesIn
    <3>1. i + 1 \in DOMAIN p /\ Tail(p)[i] = p[i + 1]
      BY <1>4
    <3> QED
      BY <3>1 DEF FramesIn
  <2>3. Head(p).frame \in FramesIn(p)
    BY <1>2, <1>4 DEF FramesIn
  <2> QED
    BY <2>1, <2>2, <2>3
<1>6. \A i \in DOMAIN p : p[i] # Elsewhere
  <2>1. n \in Nat \ {0} /\ FramesIn(p) \subseteq 1 .. n - 1
    BY TableAssumption DEF Apart, Typed
  <2>2. 0 \notin FramesIn(p)
    BY <2>1
  <2> QED
    BY <2>2 DEF FramesIn, Elsewhere, Measure
<1>7. Head(p).frame \notin FramesIn(Tail(p))
  <2> SUFFICES ASSUME NEW i \in DOMAIN Tail(p), Tail(p)[i].frame = Head(p).frame
               PROVE  FALSE
    BY DEF FramesIn
  <2>1. i + 1 \in DOMAIN p /\ i + 1 # 1 /\ p[i + 1].frame = p[1].frame
    BY <1>2, <1>4
  <2> QED
    BY <1>1, <1>4, <1>6, <2>1 DEF Distinct
<1>8. Distinct(Tail(p))
  <2> SUFFICES ASSUME NEW i \in DOMAIN Tail(p), NEW j \in DOMAIN Tail(p),
                      Tail(p)[i].frame = Tail(p)[j].frame
               PROVE  i = j
    BY DEF Distinct
  <2>1. /\ i + 1 \in DOMAIN p /\ j + 1 \in DOMAIN p
        /\ p[i + 1].frame = p[j + 1].frame
    BY <1>4
  <2>2. i + 1 = j + 1
    BY <1>1, <1>6, <2>1 DEF Distinct
  <2> QED
    BY <1>2, <1>3, <2>2
<1>9. Head(p).frame \in FramesIn(p)
  BY <1>5
<1> QED
  BY <1>2, <1>5, <1>7, <1>8, <1>9 DEF Apart, Typed

(* Another flow puts its measurement. *)
LEMMA ApartElsewhere ==
    ASSUME NEW r, NEW p, NEW w, NEW d, NEW n, Apart(r, p, w, d, n)
    PROVE  /\ Apart(Append(r, Elsewhere), p, w, d, n)
           /\ FramesIn(Append(r, Elsewhere)) = FramesIn(r) \union {0}
<1>1. /\ r \in Seq(Measurements) /\ n \in Nat \ {0}
      /\ Elsewhere \in Measurements /\ Elsewhere.frame = 0
  BY TableAssumption DEF Apart, Typed, Elsewhere, Measure, Measurements
<1> DEFINE a == Append(r, Elsewhere)
           k == Len(r)
<1>2. /\ a \in Seq(Measurements) /\ DOMAIN a = 1 .. k + 1
      /\ k \in Nat /\ DOMAIN r = 1 .. k
      /\ \A i \in 1 .. k : a[i] = r[i]
      /\ a[k + 1] = Elsewhere
  BY <1>1, AppendProperties, LenProperties
<1>3. FramesIn(a) = FramesIn(r) \union {0}
  <2>1. FramesIn(<<Elsewhere>>) = {0} /\ <<Elsewhere>> \in Seq(Measurements)
        /\ a = r \o <<Elsewhere>>
    BY <1>1, OneMeasurement
  <2> QED
    BY <1>1, <2>1, ConcatFacts
<1> HIDE DEF a, k
<1>4. \A i \in DOMAIN a : (i \in DOMAIN r /\ a[i] = r[i]) \/ a[i] = Elsewhere
  BY <1>2
<1>5. ZeroIsElsewhere(a)
  BY <1>4 DEF Apart, ZeroIsElsewhere
<1>6. Distinct(a)
  <2> SUFFICES ASSUME NEW i \in DOMAIN a, NEW j \in DOMAIN a, a[i].frame = a[j].frame
               PROVE  i = j \/ a[i] = Elsewhere
    BY DEF Distinct
  <2>1. CASE a[j] = Elsewhere
    BY <1>1, <1>5, <2>1 DEF ZeroIsElsewhere
  <2>2. CASE i \in DOMAIN r /\ a[i] = r[i] /\ j \in DOMAIN r /\ a[j] = r[j]
    BY <2>2 DEF Apart, Distinct
  <2> QED
    BY <1>4, <2>1, <2>2
<1>7. 0 \in 0 .. n - 1 /\ 0 \notin 1 .. n - 1
  BY <1>1
<1> QED
  BY <1>2, <1>3, <1>5, <1>6, <1>7 DEF Apart, Typed, a

-----------------------------------------------------------------------------
(* The frames of the flow, in the state it is in. *)

FramesApart == Apart(rtt, puts, waiting, DOMAIN pending, seq)
Accounted == 1 .. seq - 1 \subseteq Placed(rtt, puts, waiting, DOMAIN pending)

LEMMA ApartNow ==
    ASSUME NEW r, NEW p, NEW w, NEW d, NEW n,
           r = rtt, p = puts, w = waiting, d = DOMAIN pending, n = seq
    PROVE  /\ FramesApart <=> Apart(r, p, w, d, n)
           /\ Accounted <=> 1 .. n - 1 \subseteq Placed(r, p, w, d)
  BY DEF FramesApart, Accounted

LEMMA ApartNext ==
    ASSUME NEW r, NEW p, NEW w, NEW d, NEW n,
           r = rtt', p = puts', w = waiting', d = DOMAIN pending', n = seq'
    PROVE  /\ Apart(r, p, w, d, n) => FramesApart'
           /\ 1 .. n - 1 \subseteq Placed(r, p, w, d) => Accounted'
<1>1. ASSUME Apart(r, p, w, d, n) PROVE FramesApart'
  <2>1. /\ Typed(r, p, w, n) /\ Distinct(r) /\ Distinct(p) /\ ZeroIsElsewhere(r) /\ OneEach(w)
        /\ FramesIn(r) \subseteq 0 .. n - 1
        /\ FramesIn(p) \union FramesOf(w) \union d \subseteq 1 .. n - 1
        /\ FramesIn(r) \intersect FramesIn(p) = {}
        /\ (FramesIn(r) \union FramesIn(p)) \intersect FramesOf(w) = {}
        /\ (FramesIn(r) \union FramesIn(p) \union FramesOf(w)) \intersect d = {}
    BY <1>1 DEF Apart
  <2>2. Typed(rtt', puts', waiting', seq')
    BY <2>1
  <2>3. Distinct(rtt') /\ Distinct(puts') /\ ZeroIsElsewhere(rtt') /\ OneEach(waiting')
    BY <2>1
  <2>4. /\ FramesIn(rtt') \subseteq 0 .. seq' - 1
        /\ FramesIn(puts') \union FramesOf(waiting') \union DOMAIN pending' \subseteq 1 .. seq' - 1
        /\ FramesIn(rtt') \intersect FramesIn(puts') = {}
        /\ (FramesIn(rtt') \union FramesIn(puts')) \intersect FramesOf(waiting') = {}
        /\ (FramesIn(rtt') \union FramesIn(puts') \union FramesOf(waiting'))
             \intersect DOMAIN pending' = {}
    BY <2>1
  <2> QED
    BY <2>2, <2>3, <2>4 DEF FramesApart, Apart
<1>2. 1 .. n - 1 \subseteq Placed(r, p, w, d) => Accounted'
  BY DEF Accounted, Placed, FramesIn, FramesOf
<1> QED
  BY <1>1, <1>2

LEMMA ApartSame ==
    UNCHANGED <<rtt, puts, waiting, pending, seq>> =>
        (FramesApart => FramesApart') /\ (Accounted => Accounted')
<1>1. PICK r, p, w, d, n :
        r = rtt /\ p = puts /\ w = waiting /\ d = DOMAIN pending /\ n = seq
  OBVIOUS
<1> QED
  BY <1>1, ApartNow, ApartNext

LEMMA DomainsOf ==
    /\ \A t, ks : DOMAIN Without(t, ks) = DOMAIN t \ ks
    /\ DOMAIN Nothing = {}
    /\ DOMAIN Noted = DOMAIN pending \union {seq}
  BY DEF Without, Nothing, Noted

LEMMA NotedApart ==
    ASSUME FramesApart, seq \in Frames, seq' = seq + 1, pending' = Noted,
           UNCHANGED <<rtt, puts, waiting>>
    PROVE  FramesApart' /\ (Accounted => Accounted')
<1>1. PICK r, p, w, d, n :
        r = rtt /\ p = puts /\ w = waiting /\ d = DOMAIN pending /\ n = seq
  OBVIOUS
<1>2. Apart(r, p, w, d, n) /\ n \in Frames /\ n \in Nat \ {0}
  BY <1>1, ApartNow, TableAssumption DEF Frames
<1>3. Apart(r, p, w, d \union {n}, n + 1)
  BY <1>2, ApartSend
<1>4. d \union {n} = DOMAIN pending' /\ n + 1 = seq'
  BY <1>1, DomainsOf
<1>5. 1 .. n - 1 \subseteq Placed(r, p, w, d) =>
          1 .. (n + 1) - 1 \subseteq Placed(r, p, w, d \union {n})
  BY <1>2, SmallerNumbers DEF Placed
<1>6. PICK e, k : e = d \union {n} /\ k = n + 1
  OBVIOUS
<1>7. r = rtt' /\ p = puts' /\ w = waiting' /\ e = DOMAIN pending' /\ k = seq'
  BY <1>1, <1>4, <1>6
<1>8. Apart(r, p, w, e, k)
  BY <1>3, <1>6
<1>9. FramesApart'
  BY <1>7, <1>8, ApartNext
<1>10. 1 .. n - 1 \subseteq Placed(r, p, w, d) => 1 .. k - 1 \subseteq Placed(r, p, w, e)
  BY <1>5, <1>6
<1>11. Accounted => Accounted'
  <2>1. Accounted => 1 .. n - 1 \subseteq Placed(r, p, w, d)
    BY <1>1, ApartNow
  <2>2. 1 .. k - 1 \subseteq Placed(r, p, w, e) => Accounted'
    BY <1>7, ApartNext
  <2> QED
    BY <1>10, <2>1, <2>2
<1> QED
  BY <1>9, <1>11

LEMMA ForgetApart ==
    ASSUME FramesApart, DOMAIN pending' \subseteq DOMAIN pending,
           waiting' \subseteq waiting, UNCHANGED <<rtt, puts, seq>>
    PROVE  FramesApart'
<1>1. PICK r, p, w, d, n :
        r = rtt /\ p = puts /\ w = waiting /\ d = DOMAIN pending /\ n = seq
  OBVIOUS
<1>2. PICK v, e : v = waiting' /\ e = DOMAIN pending'
  OBVIOUS
<1>3. Apart(r, p, v, e, n)
  BY <1>1, <1>2, ApartNow, ApartForget
<1> QED
  BY <1>1, <1>2, <1>3, ApartNext

LEMMA PruneApart ==
    ASSUME FramesApart, Len(rtt) <= RttSize, seq \in Frames, seq' = seq + 1,
           UNCHANGED puts, Prune
    PROVE  FramesApart' /\ Len(rtt') <= RttSize
<1>1. PICK r, p, w, d, n :
        r = rtt /\ p = puts /\ w = waiting /\ d = DOMAIN pending /\ n = seq
  OBVIOUS
<1>2. Apart(r, p, w, d, n) /\ n \in Frames /\ r \in Seq(Measurements)
  BY <1>1, ApartNow DEF Apart, Typed
<1>3. PICK q : q = d \union {n}
  OBVIOUS
<1>4. Apart(r, p, w, q, n + 1) /\ q \subseteq Frames
  <2>1. Apart(r, p, w, q, n + 1)
    BY <1>2, <1>3, ApartSend
  <2>2. n \in 1 .. MaxFrames /\ d \subseteq 1 .. n - 1 /\ MaxFrames \in Nat
    BY <1>2, TableAssumption DEF Apart, Frames
  <2> QED
    BY <1>3, <2>1, <2>2 DEF Frames
<1>5. PICK ks : ks = Stale
  OBVIOUS
<1>6. ks \subseteq q /\ ks \subseteq Frames
  BY <1>1, <1>3, <1>4, <1>5, DomainsOf DEF Stale, Overdue
<1>7. PICK room : room = Room
  OBVIOUS
<1>8. room \in Nat /\ Len(r) \in Nat /\ Len(r) + room = RttSize
  BY <1>1, <1>2, <1>7, TableAssumption, LenProperties DEF Room
<1>9. PICK stale \in Ascending(ks) :
        \/ /\ Len(stale) <= room
           /\ pending' = Without(Noted, ks)
           /\ rtt' = r \o Losses(stale, Len(stale))
           /\ waiting' = w
        \/ /\ Len(stale) > room
           /\ pending' = Without(Noted, FirstOf(stale, room + 1))
           /\ rtt' = r \o Losses(stale, room)
           /\ waiting' = w \union {Measure(stale[room + 1], TRUE)}
  BY <1>1, <1>5, <1>7 DEF Prune
<1>10. /\ Len(stale) \in Nat
       /\ FirstOf(stale, Len(stale)) = ks
       /\ \A k \in 0 .. Len(stale) :
            /\ Losses(stale, k) \in Seq(Measurements)
            /\ Len(Losses(stale, k)) = k
            /\ FramesIn(Losses(stale, k)) = FirstOf(stale, k)
            /\ Distinct(Losses(stale, k))
            /\ FirstOf(stale, k) \subseteq ks
       /\ \A k \in Nat : k < Len(stale) =>
            /\ stale[k + 1] \in ks
            /\ stale[k + 1] \notin FirstOf(stale, k)
            /\ FirstOf(stale, k + 1) = FirstOf(stale, k) \union {stale[k + 1]}
  BY <1>6, LossesFacts
<1>11. DOMAIN Noted = q
  BY <1>1, <1>3, DomainsOf
<1>12. CASE /\ Len(stale) <= room
            /\ pending' = Without(Noted, ks)
            /\ rtt' = r \o Losses(stale, Len(stale))
            /\ waiting' = w
  <2>1. PICK new : new = Losses(stale, Len(stale))
    OBVIOUS
  <2>2. /\ new \in Seq(Measurements) /\ Len(new) = Len(stale)
        /\ FramesIn(new) = ks /\ Distinct(new)
    BY <1>10, <2>1
  <2>3. Apart(r \o new, p, w, q \ ks, n + 1)
    BY <1>4, <1>6, <2>2, ApartQueued
  <2>4. DOMAIN pending' = q \ ks
    BY <1>11, <1>12, DomainsOf
  <2>5. PICK r2, e, k : r2 = r \o new /\ e = q \ ks /\ k = n + 1
    OBVIOUS
  <2>6. FramesApart'
    BY <1>1, <1>12, <2>1, <2>3, <2>4, <2>5, ApartNext
  <2>7. Len(r \o new) = Len(r) + Len(stale)
    <3>1. r \in Seq(Measurements) /\ new \in Seq(Measurements) /\ Len(new) = Len(stale)
      BY <1>2, <2>2
    <3> QED
      BY <3>1, ConcatLength
  <2> QED
    BY <1>8, <1>10, <1>12, <2>1, <2>6, <2>7
<1>13. CASE /\ Len(stale) > room
            /\ pending' = Without(Noted, FirstOf(stale, room + 1))
            /\ rtt' = r \o Losses(stale, room)
            /\ waiting' = w \union {Measure(stale[room + 1], TRUE)}
  <2>1. PICK new, x, m, gone :
          /\ new = Losses(stale, room) /\ x = stale[room + 1]
          /\ m = Measure(stale[room + 1], TRUE) /\ gone = FirstOf(stale, room)
    OBVIOUS
  <2>2. room \in 0 .. Len(stale) /\ room < Len(stale)
    BY <1>8, <1>10, <1>13
  <2>3. /\ new \in Seq(Measurements) /\ Len(new) = room
        /\ FramesIn(new) = gone /\ Distinct(new) /\ gone \subseteq ks
        /\ x \in ks /\ x \notin gone
        /\ FirstOf(stale, room + 1) = gone \union {x}
    BY <1>8, <1>10, <2>1, <2>2
  <2>4. m \in Measurements /\ m.frame = x
    <3>1. x \in 1 .. MaxFrames /\ MaxFrames \in Nat
      BY <1>6, <2>3, TableAssumption DEF Frames
    <3> QED
      BY <2>1, <3>1 DEF Measure, Measurements
  <2>5. Apart(r \o new, p, w, q \ gone, n + 1)
    BY <1>4, <1>6, <2>3, ApartQueued
  <2>6. x \in q \ gone
    BY <1>6, <2>3
  <2>7. PICK r2, e : r2 = r \o new /\ e = q \ gone
    OBVIOUS
  <2>8. Apart(r2, p, w \union {m}, e \ {x}, n + 1)
    BY <2>4, <2>5, <2>6, <2>7, ApartWaits
  <2>9. DOMAIN pending' = e \ {x}
    <3>1. PICK last : last = FirstOf(stale, room + 1)
      OBVIOUS
    <3>2. pending' = Without(Noted, last)
      BY <1>13, <3>1
    <3>3. DOMAIN pending' = q \ last
      BY <1>11, <3>2, DomainsOf
    <3>4. last = gone \union {x}
      BY <2>3, <3>1
    <3> QED
      BY <2>7, <3>3, <3>4
  <2>10. PICK v, f, k : v = w \union {m} /\ f = e \ {x} /\ k = n + 1
    OBVIOUS
  <2>11. FramesApart'
    BY <1>1, <1>13, <2>1, <2>7, <2>8, <2>9, <2>10, ApartNext
  <2>12. Len(r \o new) = Len(r) + room
    <3>1. r \in Seq(Measurements) /\ new \in Seq(Measurements) /\ Len(new) = room
      BY <1>2, <2>3
    <3> QED
      BY <3>1, ConcatLength
  <2> QED
    BY <1>8, <1>13, <2>1, <2>11, <2>12
<1> QED
  BY <1>9, <1>12, <1>13

-----------------------------------------------------------------------------
(* The steps of a TCP flow. *)

QueueBounded == Len(rtt) <= RttSize

(* A measurement joins the queue while there is room for it. *)
LEMMA RoomForOne ==
    ASSUME NEW r \in Seq(Measurements), NEW m \in Measurements, RttSize - Len(r) > 0
    PROVE  Len(Append(r, m)) <= RttSize
<1>1. Len(Append(r, m)) = Len(r) + 1 /\ Len(r) \in Nat
  BY AppendProperties, LenProperties
<1> QED
  BY <1>1, TableAssumption

LEMMA ReceiveApart ==
    ASSUME FramesApart, QueueBounded, NEW k \in Frames, Receive(k)
    PROVE  FramesApart' /\ QueueBounded'
<1>1. PICK r, p, w, d, n :
        r = rtt /\ p = puts /\ w = waiting /\ d = DOMAIN pending /\ n = seq
  OBVIOUS
<1>2. Apart(r, p, w, d, n) /\ r \in Seq(Measurements)
  BY <1>1, ApartNow DEF Apart, Typed
<1>3. /\ DOMAIN pending' = d \ {k} /\ puts' = p /\ seq' = n
      /\ \/ /\ k \notin d
            /\ rtt' = r /\ waiting' = w
         \/ /\ k \in d /\ RttSize - Len(r) > 0
            /\ rtt' = Append(r, Measure(k, FALSE)) /\ waiting' = w
         \/ /\ k \in d
            /\ rtt' = r /\ waiting' = w \union {Measure(k, FALSE)}
  BY <1>1, DomainsOf DEF Receive, udpVars, Room
<1>4. PICK m : m = Measure(k, FALSE)
  OBVIOUS
<1>5. m \in Measurements /\ m.frame = k
  <2>1. k \in 0 .. MaxFrames
    BY TableAssumption DEF Frames
  <2> QED
    BY <1>4, <2>1 DEF Measure, Measurements
<1>6. PICK e : e = d \ {k}
  OBVIOUS
<1>7. CASE k \notin d /\ rtt' = r /\ waiting' = w
  BY <1>1, <1>3, <1>7, ForgetApart DEF QueueBounded
<1>8. CASE /\ k \in d /\ RttSize - Len(r) > 0
           /\ rtt' = Append(r, Measure(k, FALSE)) /\ waiting' = w
  <2>1. PICK new, r2 : new = <<m>> /\ r2 = r \o <<m>>
    OBVIOUS
  <2>2. /\ new \in Seq(Measurements) /\ FramesIn(new) = {k} /\ Distinct(new)
        /\ Append(r, m) = r2
    BY <1>2, <1>5, <2>1, OneMeasurement
  <2>3. Apart(r \o new, p, w, d \ FramesIn(new), n)
    BY <1>2, <1>8, <2>2, ApartQueued
  <2>4. Apart(r2, p, w, e, n)
    BY <1>6, <2>1, <2>2, <2>3
  <2>5. FramesApart'
    BY <1>3, <1>4, <1>6, <1>8, <2>2, <2>4, ApartNext
  <2>6. Len(Append(r, m)) <= RttSize
    BY <1>2, <1>5, <1>8, RoomForOne
  <2> QED
    BY <1>4, <1>8, <2>5, <2>6 DEF QueueBounded
<1>9. CASE k \in d /\ rtt' = r /\ waiting' = w \union {Measure(k, FALSE)}
  <2>1. PICK v : v = w \union {m}
    OBVIOUS
  <2>2. Apart(r, p, v, e, n)
    BY <1>2, <1>5, <1>6, <1>9, <2>1, ApartWaits
  <2>3. FramesApart'
    BY <1>3, <1>4, <1>6, <1>9, <2>1, <2>2, ApartNext
  <2> QED
    BY <1>1, <1>9, <2>3 DEF QueueBounded
<1> QED
  BY <1>3, <1>7, <1>8, <1>9

LEMMA TcpStepApart ==
    ASSUME FramesApart, QueueBounded, TcpNext
    PROVE  FramesApart' /\ QueueBounded'
<1>1. CASE Connect \/ ConnectFails
  <2>1. UNCHANGED <<rtt, puts, waiting, seq>> /\ pending' = Nothing
    BY <1>1 DEF Connect, ConnectFails, udpVars
  <2> QED
    BY <2>1, DomainsOf, ForgetApart DEF QueueBounded
<1>2. CASE Lose \/ SendStops \/ ReceiveStops
  <2>1. UNCHANGED <<rtt, puts, waiting, pending, seq>>
    BY <1>2 DEF Lose, SendStops, ReceiveStops, udpVars
  <2> QED
    BY <2>1, ApartSame DEF QueueBounded
<1>3. CASE Send
  <2>1. UNCHANGED puts /\ seq \in Frames /\ seq' = seq + 1 /\ Prune
    BY <1>3 DEF Send, Ready, udpVars
  <2> QED
    BY <2>1, PruneApart DEF QueueBounded
<1>4. CASE SendFails
  <2>1. /\ UNCHANGED <<rtt, puts, waiting>> /\ seq \in Frames /\ seq' = seq + 1
        /\ pending' = Noted
    BY <1>4 DEF SendFails, Ready, udpVars
  <2> QED
    BY <2>1, NotedApart DEF QueueBounded
<1>5. ASSUME NEW k \in Frames, Receive(k) PROVE FramesApart' /\ QueueBounded'
  BY <1>5, ReceiveApart
<1> QED
  BY <1>1, <1>2, <1>3, <1>4, <1>5 DEF TcpNext

-----------------------------------------------------------------------------
(* The steps of a UDP flow. *)

LEMMA NoteAndPruneApart ==
    ASSUME FramesApart, NoteAndPrune
    PROVE  FramesApart' /\ (Accounted => Accounted')
<1>1. PICK r, p, w, d, n :
        r = rtt /\ p = puts /\ w = waiting /\ d = DOMAIN pending /\ n = seq
  OBVIOUS
<1>2. Apart(r, p, w, d, n) /\ n \in Frames /\ n \in Nat \ {0}
  BY <1>1, ApartNow, TableAssumption DEF NoteAndPrune, Frames
<1>3. PICK q : q = d \union {n}
  OBVIOUS
<1>4. Apart(r, p, w, q, n + 1) /\ q \subseteq Frames
  <2>1. Apart(r, p, w, q, n + 1)
    BY <1>2, <1>3, ApartSend
  <2>2. n \in 1 .. MaxFrames /\ d \subseteq 1 .. n - 1 /\ MaxFrames \in Nat
    BY <1>2, TableAssumption DEF Apart, Frames
  <2> QED
    BY <1>3, <2>1, <2>2 DEF Frames
<1>5. PICK ks : ks = Overdue(UdpPatience)
  OBVIOUS
<1>6. ks \subseteq q /\ ks \subseteq Frames
  BY <1>1, <1>3, <1>4, <1>5, DomainsOf DEF Overdue
<1>7. PICK stale \in Ascending(ks) :
        /\ pending' = Without(Noted, ks)
        /\ puts' = p \o Losses(stale, Len(stale))
  BY <1>1, <1>5 DEF NoteAndPrune
<1>8. rtt' = r /\ waiting' = w /\ seq' = n + 1
  BY <1>1 DEF NoteAndPrune
<1>9. PICK new : new = Losses(stale, Len(stale))
  OBVIOUS
<1>10. new \in Seq(Measurements) /\ FramesIn(new) = ks /\ Distinct(new)
  <2>1. /\ Len(stale) \in Nat
        /\ FirstOf(stale, Len(stale)) = ks
        /\ \A k \in 0 .. Len(stale) :
             /\ Losses(stale, k) \in Seq(Measurements)
             /\ FramesIn(Losses(stale, k)) = FirstOf(stale, k)
             /\ Distinct(Losses(stale, k))
    BY <1>6, LossesFacts
  <2> QED
    BY <1>9, <2>1
<1>11. PICK p2, e, k : p2 = p \o new /\ e = q \ ks /\ k = n + 1
  OBVIOUS
<1>12. Apart(r, p2, w, e, k) /\ FramesIn(p2) = FramesIn(p) \union ks
  <2>1. Apart(r, p \o new, w, q \ FramesIn(new), n + 1)
    BY <1>4, <1>6, <1>10, ApartTasks
  <2>2. FramesIn(p \o new) = FramesIn(p) \union FramesIn(new)
    BY <1>2, <1>10, ConcatFacts DEF Apart, Typed
  <2> QED
    BY <1>10, <1>11, <2>1, <2>2
<1>13. r = rtt' /\ p2 = puts' /\ w = waiting' /\ e = DOMAIN pending' /\ k = seq'
  <2>1. DOMAIN Noted = q
    BY <1>1, <1>3, DomainsOf
  <2>2. DOMAIN pending' = q \ ks
    BY <1>7, <2>1, DomainsOf
  <2> QED
    BY <1>7, <1>8, <1>9, <1>11, <2>2
<1>14. 1 .. n - 1 \subseteq Placed(r, p, w, d) => 1 .. k - 1 \subseteq Placed(r, p2, w, e)
  <2>1. 1 .. k - 1 = (1 .. n - 1) \union {n}
    BY <1>2, <1>11, SmallerNumbers
  <2> QED
    BY <1>3, <1>11, <1>12, <2>1 DEF Placed
<1>15. FramesApart'
  BY <1>12, <1>13, ApartNext
<1>16. Accounted => Accounted'
  <2>1. Accounted => 1 .. n - 1 \subseteq Placed(r, p, w, d)
    BY <1>1, ApartNow
  <2>2. 1 .. k - 1 \subseteq Placed(r, p2, w, e) => Accounted'
    BY <1>13, ApartNext
  <2> QED
    BY <1>14, <2>1, <2>2
<1> QED
  BY <1>15, <1>16

LEMMA DatagramReceivedApart ==
    ASSUME FramesApart, NEW k0 \in Frames, DatagramReceived(k0)
    PROVE  FramesApart' /\ (Accounted => Accounted')
<1>1. PICK r, p, w, d, n :
        r = rtt /\ p = puts /\ w = waiting /\ d = DOMAIN pending /\ n = seq
  OBVIOUS
<1>2. Apart(r, p, w, d, n)
  BY <1>1, ApartNow
<1>3. /\ DOMAIN pending' = d \ {k0} /\ rtt' = r /\ waiting' = w /\ seq' = n
      /\ puts' = IF k0 \in d THEN Append(p, Measure(k0, FALSE)) ELSE p
  BY <1>1, DomainsOf DEF DatagramReceived
<1>4. PICK p2, e : p2 = puts' /\ e = d \ {k0}
  OBVIOUS
<1>5. r = rtt' /\ p2 = puts' /\ w = waiting' /\ e = DOMAIN pending' /\ n = seq'
  BY <1>3, <1>4
<1>6. Apart(r, p2, w, e, n) /\ FramesIn(p2) \union e = FramesIn(p) \union d
  <2>1. CASE k0 \notin d
    <3>1. p2 = p /\ e = d
      BY <1>3, <1>4, <2>1
    <3> QED
      BY <1>2, <3>1
  <2>2. CASE k0 \in d
    <3>1. PICK m : m = Measure(k0, FALSE)
      OBVIOUS
    <3>2. m \in Measurements /\ m.frame = k0
      <4>1. k0 \in 0 .. MaxFrames
        BY TableAssumption DEF Frames
      <4> QED
        BY <3>1, <4>1 DEF Measure, Measurements
    <3>3. PICK new : new = <<m>>
      OBVIOUS
    <3>4. p \in Seq(Measurements)
      BY <1>2 DEF Apart, Typed
    <3>5. /\ new \in Seq(Measurements) /\ FramesIn(new) = {k0} /\ Distinct(new)
          /\ p2 = p \o new
      BY <1>3, <1>4, <2>2, <3>1, <3>2, <3>3, <3>4, OneMeasurement
    <3>6. Apart(r, p \o new, w, d \ FramesIn(new), n)
      BY <1>2, <2>2, <3>5, ApartTasks
    <3>7. FramesIn(p \o new) = FramesIn(p) \union FramesIn(new)
      BY <3>4, <3>5, ConcatFacts
    <3> QED
      BY <1>4, <2>2, <3>5, <3>6, <3>7
  <2> QED
    BY <2>1, <2>2
<1>7. Placed(r, p2, w, e) = Placed(r, p, w, d)
  BY <1>6 DEF Placed
<1>8. FramesApart'
  BY <1>5, <1>6, ApartNext
<1>9. Accounted => Accounted'
  <2>1. Accounted => 1 .. n - 1 \subseteq Placed(r, p, w, d)
    BY <1>1, ApartNow
  <2>2. 1 .. n - 1 \subseteq Placed(r, p2, w, e) => Accounted'
    BY <1>5, ApartNext
  <2> QED
    BY <1>7, <2>1, <2>2
<1> QED
  BY <1>8, <1>9

LEMMA RunPutApart ==
    ASSUME FramesApart, QueueBounded, RunPut
    PROVE  FramesApart' /\ QueueBounded' /\ (Accounted => Accounted')
<1>1. PICK r, p, w, d, n :
        r = rtt /\ p = puts /\ w = waiting /\ d = DOMAIN pending /\ n = seq
  OBVIOUS
<1>2. Apart(r, p, w, d, n) /\ p # <<>> /\ r \in Seq(Measurements)
  BY <1>1, ApartNow DEF RunPut, Apart, Typed
<1>3. PICK m, t, q : m = Head(p) /\ t = Tail(p) /\ q = d \union {m.frame}
  OBVIOUS
<1>4. /\ m \in Measurements /\ Apart(r, t, w, q, n) /\ m.frame \notin d
      /\ FramesIn(p) = FramesIn(t) \union {m.frame}
  BY <1>2, <1>3, ApartTaskRuns
<1>5. /\ puts' = t /\ pending' = pending /\ seq' = n
      /\ \/ /\ RttSize - Len(r) > 0 /\ rtt' = Append(r, m) /\ waiting' = w
         \/ /\ rtt' = r /\ waiting' = w \union {m}
  BY <1>1, <1>3 DEF RunPut, Room
<1>6. q \ {m.frame} = d
  BY <1>3, <1>4
<1>7. PICK r2, v : r2 = rtt' /\ v = waiting'
  OBVIOUS
<1>8. /\ Apart(r2, t, v, d, n)
      /\ FramesIn(r2) \union FramesOf(v) = FramesIn(r) \union FramesOf(w) \union {m.frame}
      /\ Len(r) <= RttSize => Len(r2) <= RttSize
  <2>1. CASE RttSize - Len(r) > 0 /\ rtt' = Append(r, m) /\ waiting' = w
    <3>1. PICK new : new = <<m>>
      OBVIOUS
    <3>2. /\ new \in Seq(Measurements) /\ FramesIn(new) = {m.frame} /\ Distinct(new)
          /\ r2 = r \o new /\ v = w
      BY <1>2, <1>4, <1>7, <2>1, <3>1, OneMeasurement
    <3>5. Apart(r \o new, t, w, q \ FramesIn(new), n)
      BY <1>3, <1>4, <3>2, ApartQueued
    <3>3. FramesIn(r \o new) = FramesIn(r) \union FramesIn(new)
      BY <1>2, <3>2, ConcatFacts
    <3>4. Len(Append(r, m)) <= RttSize
      BY <1>2, <1>4, <2>1, RoomForOne
    <3> QED
      BY <1>6, <1>7, <2>1, <3>2, <3>3, <3>4, <3>5
  <2>2. CASE rtt' = r /\ waiting' = w \union {m}
    <3>1. Apart(r, t, w \union {m}, q \ {m.frame}, n)
      BY <1>3, <1>4, ApartWaits
    <3>2. FramesOf(w \union {m}) = FramesOf(w) \union {m.frame}
      BY DEF FramesOf
    <3> QED
      BY <1>6, <1>7, <2>2, <3>1, <3>2
  <2> QED
    BY <1>5, <2>1, <2>2
<1>9. Placed(r2, t, v, d) = Placed(r, p, w, d)
  BY <1>4, <1>8 DEF Placed
<1>10. r2 = rtt' /\ t = puts' /\ v = waiting' /\ d = DOMAIN pending' /\ n = seq'
  BY <1>1, <1>5, <1>7
<1>11. FramesApart'
  BY <1>8, <1>10, ApartNext
<1>12. Accounted => Accounted'
  <2>1. Accounted => 1 .. n - 1 \subseteq Placed(r, p, w, d)
    BY <1>1, ApartNow
  <2>2. 1 .. n - 1 \subseteq Placed(r2, t, v, d) => Accounted'
    BY <1>10, ApartNext
  <2> QED
    BY <1>9, <2>1, <2>2
<1> QED
  BY <1>1, <1>7, <1>8, <1>11, <1>12 DEF QueueBounded

LEMMA UdpStepApart ==
    ASSUME FramesApart, QueueBounded, UdpNext
    PROVE  FramesApart' /\ QueueBounded' /\ (Accounted => Accounted')
<1>1. CASE Open \/ \E k \in Frames : LoseDatagram(k)
  <2>1. UNCHANGED <<rtt, puts, waiting, pending, seq>>
    BY <1>1 DEF Open, LoseDatagram, udpVars
  <2> QED
    BY <2>1, ApartSame DEF QueueBounded
<1>2. CASE SendDatagram \/ SendDatagramFails
  <2>1. NoteAndPrune /\ UNCHANGED rtt
    BY <1>2 DEF SendDatagram, SendDatagramFails, NoteAndPrune
  <2> QED
    BY <2>1, NoteAndPruneApart DEF QueueBounded
<1>3. CASE SendInBurst \/ BurstFails
  <2>1. /\ UNCHANGED <<rtt, puts, waiting>> /\ seq \in Frames /\ seq' = seq + 1
        /\ pending' = Noted
    BY <1>3 DEF SendInBurst, BurstFails, NoteInBurst
  <2> QED
    BY <2>1, NotedApart DEF QueueBounded
<1>4. ASSUME NEW k \in Frames, DatagramReceived(k)
      PROVE  FramesApart' /\ QueueBounded' /\ (Accounted => Accounted')
  <2>1. UNCHANGED rtt
    BY <1>4 DEF DatagramReceived
  <2> QED
    BY <1>4, <2>1, DatagramReceivedApart DEF QueueBounded
<1>5. CASE RunPut
  BY <1>5, RunPutApart
<1> QED
  BY <1>1, <1>2, <1>3, <1>4, <1>5 DEF UdpNext

-----------------------------------------------------------------------------
(* The steps of the generator, and of time. *)

LEMMA OtherFlowApart ==
    ASSUME FramesApart, QueueBounded, OtherFlow
    PROVE  FramesApart' /\ QueueBounded' /\ (Accounted => Accounted')
<1>1. PICK r, p, w, d, n :
        r = rtt /\ p = puts /\ w = waiting /\ d = DOMAIN pending /\ n = seq
  OBVIOUS
<1>2. Apart(r, p, w, d, n) /\ r \in Seq(Measurements)
  BY <1>1, ApartNow DEF Apart, Typed
<1>3. PICK r2 : r2 = Append(r, Elsewhere)
  OBVIOUS
<1>4. Apart(r2, p, w, d, n) /\ FramesIn(r2) = FramesIn(r) \union {0}
  BY <1>2, <1>3, ApartElsewhere
<1>5. r2 = rtt' /\ p = puts' /\ w = waiting' /\ d = DOMAIN pending' /\ n = seq'
  BY <1>1, <1>3 DEF OtherFlow, udpVars
<1>6. FramesApart'
  BY <1>4, <1>5, ApartNext
<1>7. Accounted => Accounted'
  <2>1. Accounted => 1 .. n - 1 \subseteq Placed(r, p, w, d)
    BY <1>1, ApartNow
  <2>2. 1 .. n - 1 \subseteq Placed(r2, p, w, d) => Accounted'
    BY <1>5, ApartNext
  <2> QED
    BY <1>4, <2>1, <2>2 DEF Placed
<1>8. QueueBounded'
  <2>1. Elsewhere \in Measurements /\ RttSize - Len(r) > 0
    BY <1>1, TableAssumption DEF OtherFlow, Room, Elsewhere, Measure, Measurements
  <2> QED
    BY <1>2, <1>3, <1>5, <2>1, RoomForOne DEF QueueBounded
<1> QED
  BY <1>6, <1>7, <1>8

LEMMA StopApart ==
    ASSUME FramesApart, QueueBounded, Stop
    PROVE  /\ FramesApart' /\ QueueBounded'
           /\ profile.protocol = "udp" => (Accounted => Accounted')
<1>1. UNCHANGED <<rtt, seq>>
  BY DEF Stop
<1>2. CASE TcpStop /\ profile.protocol = "tcp"
  <2>1. UNCHANGED <<puts, pending>> /\ waiting' \subseteq waiting
    BY <1>2 DEF TcpStop, udpVars
  <2> QED
    BY <1>1, <1>2, <2>1, ForgetApart DEF QueueBounded
<1>3. CASE UdpStop
  <2>1. UNCHANGED <<puts, pending, waiting>>
    BY <1>3 DEF UdpStop
  <2> QED
    BY <1>1, <2>1, ApartSame DEF QueueBounded
<1> QED
  BY <1>2, <1>3 DEF Stop

-----------------------------------------------------------------------------
(* The invariant: the frames are apart, the queue is bounded, the datagrams of
   a UDP flow are all accounted for, and the rest of the state has its type. *)

LoopsOK ==
    /\ profile \in Profiles
    /\ phase \in {"new", "running", "stopped"}
    /\ sender \in {"off", "ready", "burst", "stuck"}
    /\ reader \in {"off", "ready", "stuck"}
    /\ conn \in {"none", "up", "lost"}
    /\ left \in 0 .. BurstCount - 1
    /\ sender = "burst" => left > 0

SentOK ==
    /\ inflight \subseteq 1 .. seq - 1
    /\ stray \subseteq 1 .. seq - 1

TimesOK ==
    /\ now \in 0 .. MaxTime
    /\ \A k \in DOMAIN pending : pending[k] \in 0 .. now

UdpAccounted == profile.protocol = "udp" => Accounted

FlowInv ==
    /\ FramesApart /\ QueueBounded
    /\ UdpHasNoConnection /\ UdpAccounted
    /\ LoopsOK /\ SentOK /\ TimesOK

(* What a step does to the table: entries are kept, and the only new one is
   that of the frame sent now. *)
TableKept ==
    \A k \in DOMAIN pending' :
        \/ k \in DOMAIN pending /\ pending'[k] = pending[k]
        \/ pending'[k] = now

LEMMA InitFlowInv == Init => FlowInv
<1> SUFFICES ASSUME Init
             PROVE  FlowInv
  OBVIOUS
<1>1. /\ rtt = <<>> /\ puts = <<>> /\ waiting = {} /\ DOMAIN pending = {} /\ seq = 1
      /\ now = 0
  BY DomainsOf DEF Init
<1>2. FramesApart
  <2>1. <<>> \in Seq(Measurements) /\ DOMAIN <<>> = {} /\ Len(<<>>) = 0
    OBVIOUS
  <2>2. Typed(rtt, puts, waiting, seq)
    BY <1>1, <2>1, TableAssumption DEF Typed
  <2>3. Distinct(rtt) /\ Distinct(puts) /\ ZeroIsElsewhere(rtt) /\ OneEach(waiting)
    BY <1>1, <2>1 DEF Distinct, ZeroIsElsewhere, OneEach
  <2>4. FramesIn(rtt) = {} /\ FramesIn(puts) = {} /\ FramesOf(waiting) = {}
    BY <1>1, <2>1 DEF FramesIn, FramesOf
  <2> QED
    BY <1>1, <2>2, <2>3, <2>4 DEF FramesApart, Apart
<1>3. QueueBounded
  BY <1>1, TableAssumption DEF QueueBounded
<1>4. UdpAccounted
  BY <1>1 DEF UdpAccounted, Accounted
<1>5. LoopsOK
  BY UdpAssumption DEF Init, LoopsOK
<1>6. SentOK /\ TimesOK /\ UdpHasNoConnection
  BY <1>1, TableAssumption DEF Init, SentOK, TimesOK, UdpHasNoConnection
<1> QED
  BY <1>2, <1>3, <1>4, <1>5, <1>6 DEF FlowInv

(* No step of a TCP flow is taken by a UDP flow. *)
LEMMA UdpTakesNoTcpStep ==
    ASSUME UdpHasNoConnection, profile.protocol = "udp", TcpNext
    PROVE  FALSE
<1>1. conn = "none" /\ reader = "off"
  BY DEF UdpHasNoConnection
<1> QED
  BY <1>1 DEF TcpNext, Connect, ConnectFails, Lose, Send, SendFails, SendStops, Receive,
        ReceiveStops, Ready, Running

(* The frames stay apart, and a UDP flow accounts for its datagrams. *)
LEMMA NextApart ==
    ASSUME FlowInv, [Next]_vars
    PROVE  FramesApart' /\ QueueBounded' /\ UdpAccounted'
<1>0. FramesApart /\ QueueBounded /\ UdpHasNoConnection /\ UdpAccounted
  BY DEF FlowInv
<1>1. profile' = profile
  BY DEF Next, vars, Start, Stop, OtherFlow, Elapse, TcpNext, Connect, ConnectFails, Lose,
         Send, SendFails, SendStops, Receive, ReceiveStops, UdpNext, Open, SendDatagram,
         SendDatagramFails, NoteAndPrune, SendInBurst, BurstFails, NoteInBurst,
         LoseDatagram, DatagramReceived, RunPut
<1>2. ASSUME profile.protocol = "udp" => (Accounted => Accounted')
      PROVE  UdpAccounted'
  BY <1>0, <1>1, <1>2 DEF UdpAccounted
<1>3. CASE TcpNext
  BY <1>0, <1>2, <1>3, TcpStepApart, UdpTakesNoTcpStep
<1>4. CASE UdpNext
  BY <1>0, <1>2, <1>4, UdpStepApart
<1>5. CASE OtherFlow
  BY <1>0, <1>2, <1>5, OtherFlowApart
<1>6. CASE Stop
  BY <1>0, <1>2, <1>6, StopApart
<1>7. CASE Start \/ Elapse \/ UNCHANGED vars
  <2>1. UNCHANGED <<rtt, puts, waiting, pending, seq>>
    BY <1>7 DEF Start, Elapse, vars, udpVars
  <2> QED
    BY <1>0, <1>2, <2>1, ApartSame DEF QueueBounded
<1> QED
  BY <1>3, <1>4, <1>5, <1>6, <1>7 DEF Next

(* The loops of the clients stay within their states. *)
LEMMA NextLoopsOK ==
    ASSUME LoopsOK, [Next]_vars
    PROVE  LoopsOK'
<1>1. CASE TcpNext
  <2>1. CASE Connect \/ ConnectFails \/ Lose \/ SendFails \/ SendStops \/ ReceiveStops
    BY <2>1 DEF Connect, ConnectFails, Lose, SendFails, SendStops, ReceiveStops, LoopsOK,
          tcpVars, udpVars
  <2>2. CASE Send
    BY <2>2 DEF Send, Prune, Ready, LoopsOK, tcpVars, udpVars
  <2>3. ASSUME NEW k \in Frames, Receive(k) PROVE LoopsOK'
    BY <2>3 DEF Receive, LoopsOK, udpVars
  <2> QED
    BY <1>1, <2>1, <2>2, <2>3 DEF TcpNext
<1>2. CASE UdpNext
  <2>1. CASE Open \/ (\E k \in Frames : LoseDatagram(k)) \/ RunPut
             \/ \E k \in Frames : DatagramReceived(k)
    BY <2>1 DEF Open, LoseDatagram, RunPut, DatagramReceived, LoopsOK, tcpVars, udpVars
  <2>2. CASE SendDatagram \/ SendDatagramFails
    <3>1. UNCHANGED <<profile, phase, reader, conn>>
      BY <2>2 DEF SendDatagram, SendDatagramFails, NoteAndPrune, tcpVars
    <3>2. /\ left' \in 0 .. BurstCount - 1
          /\ sender' \in {"off", "ready", "burst", "stuck"}
          /\ sender' = "burst" => left' > 0
      BY <2>2, UdpAssumption DEF SendDatagram, SendDatagramFails, LoopsOK
    <3> QED
      BY <3>1, <3>2 DEF LoopsOK
  <2>3. CASE SendInBurst \/ BurstFails
    <3>1. UNCHANGED <<profile, phase, reader, conn>> /\ sender = "burst"
      BY <2>3 DEF SendInBurst, BurstFails, NoteInBurst, tcpVars
    <3>2. /\ left' \in 0 .. BurstCount - 1
          /\ sender' \in {"off", "ready", "burst", "stuck"}
          /\ sender' = "burst" => left' > 0
      BY <2>3, <3>1, UdpAssumption DEF SendInBurst, BurstFails, LoopsOK
    <3> QED
      BY <3>1, <3>2 DEF LoopsOK
  <2> QED
    BY <1>2, <2>1, <2>2, <2>3 DEF UdpNext
<1>3. CASE Start \/ OtherFlow \/ Elapse \/ UNCHANGED vars
  BY <1>3 DEF Start, OtherFlow, Elapse, vars, tcpVars, udpVars, LoopsOK
<1>4. CASE Stop
  BY <1>4, UdpAssumption DEF Stop, TcpStop, UdpStop, tcpVars, udpVars, LoopsOK
<1> QED
  BY <1>1, <1>2, <1>3, <1>4 DEF Next

(* Only frames that were sent are under way. *)
LEMMA NextSentOK ==
    ASSUME SentOK, [Next]_vars, seq \in 1 .. MaxFrames + 1
    PROVE  SentOK'
<1>1. seq \in Nat /\ 1 .. (seq + 1) - 1 = (1 .. seq - 1) \union {seq}
  BY TableAssumption
<1>2. \/ seq' = seq /\ inflight' \union stray' \subseteq inflight \union stray
      \/ seq' = seq + 1 /\ inflight' \union stray' \subseteq inflight \union stray \union {seq}
  <2>1. CASE TcpNext
    BY <2>1 DEF TcpNext, Connect, ConnectFails, Lose, Send, SendFails, SendStops, Receive,
          ReceiveStops, tcpVars, udpVars
  <2>2. CASE UdpNext
    BY <2>2 DEF UdpNext, Open, SendDatagram, SendDatagramFails, NoteAndPrune, SendInBurst,
          BurstFails, NoteInBurst, LoseDatagram, DatagramReceived, RunPut, udpVars
  <2>3. CASE Start \/ Stop \/ OtherFlow \/ Elapse \/ UNCHANGED vars
    BY <2>3 DEF Start, Stop, TcpStop, UdpStop, OtherFlow, Elapse, vars, udpVars
  <2> QED
    BY <2>1, <2>2, <2>3 DEF Next
<1> QED
  BY <1>1, <1>2 DEF SentOK

(* No frame was sent at a time that has not come. *)
LEMMA NextTimesOK ==
    ASSUME TimesOK, [Next]_vars
    PROVE  TimesOK'
<1>1. ASSUME NEW ks, pending' = Without(Noted, ks) PROVE TableKept
  BY <1>1 DEF TableKept, Without, Noted
<1>2. ASSUME NEW ks, pending' = Without(pending, ks) PROVE TableKept
  BY <1>2 DEF TableKept, Without
<1>3. ASSUME pending' = Noted PROVE TableKept
  BY <1>3 DEF TableKept, Noted
<1>4. ASSUME pending' = Nothing PROVE TableKept
  BY <1>4 DEF TableKept, Nothing
<1>5. ASSUME pending' = pending PROVE TableKept
  BY <1>5 DEF TableKept
<1>6. TableKept
  <2>1. CASE Send
    <3>1. PICK ks : pending' = Without(Noted, ks)
      BY <2>1 DEF Send, Prune
    <3> QED
      BY <1>1, <3>1
  <2>2. CASE SendDatagram \/ SendDatagramFails
    <3>1. pending' = Without(Noted, Overdue(UdpPatience))
      BY <2>2 DEF SendDatagram, SendDatagramFails, NoteAndPrune
    <3> QED
      BY <1>1, <3>1
  <2>3. ASSUME NEW k \in Frames, Receive(k) \/ DatagramReceived(k) PROVE TableKept
    <3>1. pending' = Without(pending, {k})
      BY <2>3 DEF Receive, DatagramReceived
    <3> QED
      BY <1>2, <3>1
  <2>4. CASE SendFails \/ SendInBurst \/ BurstFails
    BY <1>3, <2>4 DEF SendFails, SendInBurst, BurstFails, NoteInBurst
  <2>5. CASE Connect \/ ConnectFails
    BY <1>4, <2>5 DEF Connect, ConnectFails
  <2>6. CASE \/ Lose \/ SendStops \/ ReceiveStops \/ Open \/ RunPut
             \/ \E k \in Frames : LoseDatagram(k)
             \/ Start \/ Stop \/ OtherFlow \/ Elapse \/ UNCHANGED vars
    BY <1>5, <2>6 DEF Lose, SendStops, ReceiveStops, Open, RunPut, LoseDatagram, Start, Stop,
          TcpStop, UdpStop, OtherFlow, Elapse, vars
  <2> QED
    BY <2>1, <2>2, <2>3, <2>4, <2>5, <2>6 DEF Next, TcpNext, UdpNext
<1>7. now' = now \/ Elapse
  BY DEF Next, vars, Start, Stop, OtherFlow, TcpNext, Connect, ConnectFails, Lose, Send,
         SendFails, SendStops, Receive, ReceiveStops, UdpNext, Open, SendDatagram,
         SendDatagramFails, NoteAndPrune, SendInBurst, BurstFails, NoteInBurst,
         LoseDatagram, DatagramReceived, RunPut
<1>8. now \in Nat /\ MaxTime \in Nat
  BY TableAssumption DEF TimesOK
<1>9. now' \in 0 .. MaxTime /\ now \in 0 .. now' /\ now <= now'
  BY <1>7, <1>8 DEF TimesOK, Elapse
<1>10. ASSUME NEW k \in DOMAIN pending' PROVE pending'[k] \in 0 .. now'
  <2>1. pending'[k] \in 0 .. now
    BY <1>6, <1>8, <1>10 DEF TableKept, TimesOK
  <2> QED
    BY <1>8, <1>9, <2>1
<1> QED
  BY <1>9, <1>10 DEF TimesOK

LEMMA NextFlowInv == FlowInv /\ [Next]_vars => FlowInv'
<1> SUFFICES ASSUME FlowInv, [Next]_vars
             PROVE  FlowInv'
  OBVIOUS
<1>1. FramesApart' /\ QueueBounded' /\ UdpAccounted'
  BY NextApart
<1>2. LoopsOK'
  BY NextLoopsOK DEF FlowInv
<1>3. seq \in 1 .. MaxFrames + 1
  BY DEF FlowInv, FramesApart, Apart, Typed
<1>4. SentOK' /\ TimesOK'
  BY <1>3, NextSentOK, NextTimesOK DEF FlowInv
<1>5. UdpHasNoConnection'
  BY UdpStaysUnconnected DEF FlowInv
<1> QED
  BY <1>1, <1>2, <1>4, <1>5 DEF FlowInv

-----------------------------------------------------------------------------
LEMMA FlowInvTypes == FlowInv => TypeOK
<1> SUFFICES ASSUME FlowInv
             PROVE  TypeOK
  OBVIOUS
<1>1. /\ rtt \in Seq(Measurements) /\ puts \in Seq(Measurements)
      /\ waiting \subseteq Measurements /\ seq \in 1 .. MaxFrames + 1
  BY DEF FlowInv, FramesApart, Apart, Typed
<1>2. DOMAIN pending \subseteq 1 .. seq - 1
  BY DEF FlowInv, FramesApart, Apart
<1>3. /\ \A i \in DOMAIN Reports : Reports[i].frame < seq
      /\ \A m \in waiting : m.frame < seq
  <2>1. PICK r, p, n : r = rtt /\ p = puts /\ n = seq
    OBVIOUS
  <2>2. PICK c : c = r \o p
    OBVIOUS
  <2>3. /\ FramesIn(c) = FramesIn(r) \union FramesIn(p)
        /\ FramesIn(r) \subseteq 0 .. n - 1 /\ FramesIn(p) \subseteq 1 .. n - 1
        /\ FramesOf(waiting) \subseteq 1 .. n - 1 /\ n \in Nat
    BY <1>1, <2>1, <2>2, ConcatFacts DEF FlowInv, FramesApart, Apart
  <2>4. \A i \in DOMAIN c : c[i].frame \in 0 .. n - 1
    BY <2>3 DEF FramesIn
  <2>5. \A m \in waiting : m.frame \in 0 .. n - 1
    BY <2>3 DEF FramesOf
  <2> QED
    BY <2>1, <2>2, <2>3, <2>4, <2>5 DEF Reports
<1> QED
  BY <1>1, <1>2, <1>3 DEF FlowInv, TypeOK, QueueBounded, LoopsOK, SentOK, TimesOK

LEMMA ApartMeasuredOnce == FramesApart => MeasuredOnce
<1> SUFFICES ASSUME FramesApart
             PROVE  MeasuredOnce
  OBVIOUS
<1>1. PICK r, p, w, d, n :
        r = rtt /\ p = puts /\ w = waiting /\ d = DOMAIN pending /\ n = seq
  OBVIOUS
<1>2. Apart(r, p, w, d, n)
  BY <1>1, ApartNow
<1>3. PICK c : c = r \o p
  OBVIOUS
<1>4. c = Reports
  BY <1>1, <1>3 DEF Reports
<1>5. Distinct(c) /\ FramesIn(c) = FramesIn(r) \union FramesIn(p)
  BY <1>2, <1>3, ConcatFacts DEF Apart, Typed
<1>6. \A i, j \in DOMAIN Reports :
        Reports[i].frame = Reports[j].frame => i = j \/ Reports[i] = Elsewhere
  BY <1>4, <1>5 DEF Distinct
<1>7. \A m1, m2 \in waiting : m1.frame = m2.frame => m1 = m2
  BY <1>1, <1>2 DEF Apart, OneEach
<1>8. \A m \in waiting : \A i \in DOMAIN Reports : Reports[i].frame # m.frame
  BY <1>1, <1>2, <1>4, <1>5 DEF Apart, FramesIn, FramesOf
<1>9. \A k \in DOMAIN pending : /\ \A i \in DOMAIN Reports : Reports[i].frame # k
                                /\ \A m \in waiting : m.frame # k
  BY <1>1, <1>2, <1>4, <1>5 DEF Apart, FramesIn, FramesOf
<1> QED
  BY <1>6, <1>7, <1>8, <1>9 DEF MeasuredOnce

LEMMA FlowInvAccounted == FlowInv => DatagramsAccounted
<1> SUFFICES ASSUME FlowInv, profile.protocol = "udp", NEW k \in 1 .. seq - 1
             PROVE  \/ k \in DOMAIN pending
                    \/ \E i \in DOMAIN Reports : Reports[i].frame = k
                    \/ \E m \in waiting : m.frame = k
  BY DEF DatagramsAccounted
<1>1. k \in Placed(rtt, puts, waiting, DOMAIN pending)
  BY DEF FlowInv, UdpAccounted, Accounted
<1>2. rtt \in Seq(Measurements) /\ puts \in Seq(Measurements)
  BY DEF FlowInv, FramesApart, Apart, Typed
<1>3. FramesIn(Reports) = FramesIn(rtt) \union FramesIn(puts)
  BY <1>2, ConcatFacts DEF Reports
<1> QED
  BY <1>1, <1>3 DEF Placed, FramesIn, FramesOf

LEMMA FlowInvariance == Spec => []FlowInv
  BY InitFlowInv, NextFlowInv, PTL DEF Spec

(* Every variable keeps its type: all frames that are noted, under way, in the
   queue of measurements, or measured by a task or a suspended put are among
   those that were sent, and the queue keeps its bound. *)
THEOREM TypeCorrect == Spec => []TypeOK
  BY FlowInvariance, FlowInvTypes, PTL

(* No frame of a TCP or a UDP flow is measured twice, nor measured while it is
   still outstanding, whatever was lost, overtook or came twice. *)
THEOREM NoFrameMeasuredTwice == Spec => []MeasuredOnce
<1>1. FlowInv => MeasuredOnce
  BY ApartMeasuredOnce DEF FlowInv
<1> QED
  BY FlowInvariance, <1>1, PTL

(* Every datagram a UDP flow sent is outstanding or measured. *)
THEOREM NoDatagramForgotten == Spec => []DatagramsAccounted
  BY FlowInvariance, FlowInvAccounted, PTL

==============================================================================
