-------------------------- MODULE TcpSessionProofs ---------------------------
(***************************************************************************)
(* The framing of a connection: however the stream is cut, the session     *)
(* hands over exactly the frames that are whole in it, in order, and its   *)
(* buffer stays below one frame of the largest size.  For every stream and *)
(* every size a header may announce.                                       *)
(***************************************************************************)
EXTENDS TcpSession, SequenceTheorems, Induction

StreamsOK == announces \in [Headers -> PayloadLens]

LEMMA FrameEndIsAhead ==
    ASSUME StreamsOK, NEW p \in Headers
    PROVE  /\ announces[p] \in Nat
           /\ FrameEnd(p) \in Nat
           /\ p < FrameEnd(p)
<1>1. announces[p] \in PayloadLens
  BY DEF StreamsOK
<1>2. HeaderSize \in Nat \ {0} /\ PayloadLens \subseteq Nat
  BY SessionAssumption
<1>3. p \in Nat
  BY SessionAssumption DEF Headers
<1>4. announces[p] \in Nat
  BY <1>1, <1>2
<1> QED
  BY <1>2, <1>3, <1>4 DEF FrameEnd

(* What the bytes up to a limit say. *)
WholeBy(p, limit) ==
    p + HeaderSize <= limit /\ announces[p] <= MaxPayload /\ FrameEnd(p) <= limit
RefusedBy(p, limit) == p + HeaderSize <= limit /\ announces[p] > MaxPayload

Ends(s) == [i \in DOMAIN s |-> FrameEnd(s[i])]

(* The frames of s follow each other from a up to b. *)
Chain(s, a, b) == s \o <<b>> = <<a>> \o Ends(s)

(* d is the outcome of draining the buffer between two positions: a chain of
   whole frames up to the first position where there is none. *)
IsDrainage(d, from, limit) ==
    /\ d = [frames |-> d.frames, front |-> d.front, close |-> d.close]
    /\ d.frames \in Seq(Headers)
    /\ d.front \in Positions /\ from <= d.front /\ d.front <= limit
    /\ d.close \in BOOLEAN
    /\ Chain(d.frames, from, d.front)
    /\ \A p \in FramesOf(d.frames) : WholeBy(p, limit) /\ from <= p /\ p < d.front
    /\ ~WholeBy(d.front, limit)
    /\ d.close <=> RefusedBy(d.front, limit)

(* One level of the recursion of Drained, over the positions from a on. *)
Level(f, p, limit) ==
    IF p + HeaderSize > limit THEN Halt(p, FALSE)
    ELSE IF announces[p] > MaxPayload THEN Halt(p, TRUE)
    ELSE IF FrameEnd(p) > limit THEN Halt(p, FALSE)
    ELSE [f[FrameEnd(p)] EXCEPT !.frames = <<p>> \o @]
Drains(f, a, limit) == f = [p \in a .. StreamSize |-> Level(f, p, limit)]

LEMMA LevelOfStop ==
    ASSUME StreamsOK, NEW limit \in Positions, NEW p \in Positions,
           ~WholeBy(p, limit)
    PROVE  \A f : Level(f, p, limit) = IF RefusedBy(p, limit) THEN Halt(p, TRUE) ELSE Halt(p, FALSE)
<1>1. /\ p \in Nat /\ limit \in Nat /\ limit <= StreamSize
      /\ MaxPayload \in Nat /\ StreamSize \in Nat /\ HeaderSize \in Nat \ {0}
  BY SessionAssumption DEF Positions
<1>2. CASE p + HeaderSize > limit
  <2>1. ~RefusedBy(p, limit)
    BY <1>1, <1>2 DEF RefusedBy
  <2> QED
    BY <1>2, <2>1 DEF Level
<1>3. CASE ~(p + HeaderSize > limit)
  <2>0. p + HeaderSize <= limit
    BY <1>1, <1>3
  <2>1. p \in Headers
    BY <1>1, <2>0 DEF Headers
  <2>2. announces[p] \in Nat /\ FrameEnd(p) \in Nat
    BY <2>1, FrameEndIsAhead
  <2>4. CASE announces[p] > MaxPayload
    <3>1. RefusedBy(p, limit)
      BY <2>0, <2>4 DEF RefusedBy
    <3> QED
      BY <1>3, <2>4, <3>1 DEF Level
  <2>5. CASE ~(announces[p] > MaxPayload)
    <3>1. ~RefusedBy(p, limit) /\ FrameEnd(p) > limit
      BY <1>1, <2>0, <2>2, <2>5 DEF RefusedBy, WholeBy
    <3> QED
      BY <1>3, <2>5, <3>1 DEF Level
  <2> QED
    BY <2>4, <2>5
<1> QED
  BY <1>2, <1>3

LEMMA WholeFrameFits ==
    ASSUME StreamsOK, NEW limit \in Positions, NEW p \in Positions,
           WholeBy(p, limit)
    PROVE  /\ p \in Headers
           /\ FrameEnd(p) \in Positions /\ p < FrameEnd(p)
           /\ ~(p + HeaderSize > limit) /\ ~(announces[p] > MaxPayload)
           /\ ~(FrameEnd(p) > limit)
<1>1. /\ p \in Nat /\ limit \in Nat /\ limit <= StreamSize
      /\ MaxPayload \in Nat /\ StreamSize \in Nat /\ HeaderSize \in Nat \ {0}
  BY SessionAssumption DEF Positions
<1>2. p \in Headers
  BY <1>1 DEF Headers, WholeBy
<1>3. announces[p] \in Nat /\ FrameEnd(p) \in Nat /\ p < FrameEnd(p)
  BY <1>2, FrameEndIsAhead
<1>4. FrameEnd(p) \in Positions
  BY <1>1, <1>3 DEF Positions, WholeBy
<1>5. /\ ~(p + HeaderSize > limit) /\ ~(announces[p] > MaxPayload)
      /\ ~(FrameEnd(p) > limit)
  BY <1>1, <1>3 DEF WholeBy
<1> QED
  BY <1>2, <1>3, <1>4, <1>5

LEMMA LevelOfFrame ==
    ASSUME StreamsOK, NEW limit \in Positions, NEW p \in Positions,
           WholeBy(p, limit), NEW f
    PROVE  Level(f, p, limit) = [f[FrameEnd(p)] EXCEPT !.frames = <<p>> \o @]
  BY WholeFrameFits DEF Level

LEMMA DrainsExist ==
    ASSUME StreamsOK, NEW limit \in Positions
    PROVE  \E f : Drains(f, 0, limit)
<1> DEFINE T == {k \in Nat : k <= StreamSize /\ ~\E f : Drains(f, StreamSize - k, limit)}
<1>0. StreamSize \in Nat /\ HeaderSize \in Nat \ {0}
  BY SessionAssumption
<1>1. T = {}
  <2> SUFFICES ASSUME T # {}
               PROVE  FALSE
    OBVIOUS
  <2>1. PICK m \in T : \A k \in T : m <= k
    <3>1. T \subseteq Nat
      OBVIOUS
    <3> HIDE DEF T
    <3> QED
      BY <3>1, LeastNumber
  <2> DEFINE a == StreamSize - m
  <2>2. a \in Positions
    BY <1>0 DEF Positions
  <2>3. PICK f : /\ DOMAIN f = (a + 1) .. StreamSize
                 /\ \A p \in (a + 1) .. StreamSize : f[p] = Level(f, p, limit)
    <3>1. CASE m = 0
      <4>1. (a + 1) .. StreamSize = {}
        BY <1>0, <3>1
      <4> DEFINE f == [p \in {} |-> p]
      <4>2. DOMAIN f = (a + 1) .. StreamSize
        BY <4>1
      <4> QED
        BY <4>1, <4>2
    <3>2. CASE m # 0
      <4>1. m - 1 \in Nat /\ m - 1 <= StreamSize /\ m - 1 \notin T
        BY <1>0, <2>1, <3>2
      <4>2. PICK f : Drains(f, StreamSize - (m - 1), limit)
        BY <4>1
      <4>3. StreamSize - (m - 1) = a + 1
        BY <1>0
      <4> QED
        BY <4>2, <4>3 DEF Drains
    <3> QED
      BY <3>1, <3>2
  <2> DEFINE g == [p \in a .. StreamSize |-> IF p = a THEN Level(f, a, limit) ELSE f[p]]
  <2>4. ASSUME NEW p \in a .. StreamSize
        PROVE  g[p] = Level(g, p, limit)
    <3>1. p \in Positions
      BY <1>0, <2>2 DEF Positions
    <3>2. g[p] = Level(f, p, limit)
      BY <1>0, <2>2, <2>3 DEF Positions
    <3>3. Level(g, p, limit) = Level(f, p, limit)
      <4>1. CASE WholeBy(p, limit)
        <5>0. FrameEnd(p) \in Positions /\ p < FrameEnd(p)
          BY <3>1, <4>1, WholeFrameFits
        <5>1. FrameEnd(p) \in (a + 1) .. StreamSize /\ FrameEnd(p) # a
          BY <1>0, <2>2, <3>1, <5>0 DEF Positions
        <5>2. g[FrameEnd(p)] = f[FrameEnd(p)]
          BY <1>0, <2>2, <5>1 DEF Positions
        <5> HIDE DEF g
        <5>3. Level(g, p, limit) = [g[FrameEnd(p)] EXCEPT !.frames = <<p>> \o @]
          BY <3>1, <4>1, LevelOfFrame
        <5>4. Level(f, p, limit) = [f[FrameEnd(p)] EXCEPT !.frames = <<p>> \o @]
          BY <3>1, <4>1, LevelOfFrame
        <5> QED
          BY <5>2, <5>3, <5>4
      <4>2. CASE ~WholeBy(p, limit)
        <5> HIDE DEF g
        <5> QED
          BY <3>1, <4>2, LevelOfStop
      <4> QED
        BY <4>1, <4>2
    <3> QED
      BY <3>2, <3>3
  <2>5. Drains(g, a, limit)
    <3> HIDE DEF a
    <3> QED BY <2>4 DEF Drains
  <2> QED
    BY <2>1, <2>5
<1>2. StreamSize \notin T
  BY <1>1
<1>3. PICK f : Drains(f, StreamSize - StreamSize, limit)
  BY <1>0, <1>2
<1> QED
  BY <1>0, <1>3

-----------------------------------------------------------------------------
(* Sequences of frames. *)

LEMMA EndsType ==
    ASSUME StreamsOK, NEW s \in Seq(Headers)
    PROVE  Ends(s) \in Seq(Nat) /\ Len(Ends(s)) = Len(s)
           /\ \A i \in 1 .. Len(s) : Ends(s)[i] = FrameEnd(s[i])
<1>1. Len(s) \in Nat /\ DOMAIN s = 1 .. Len(s)
  BY LenProperties
<1>2. \A i \in 1 .. Len(s) : FrameEnd(s[i]) \in Nat
  BY ElementOfSeq, FrameEndIsAhead
<1>3. Ends(s) = [i \in 1 .. Len(s) |-> FrameEnd(s[i])]
  BY <1>1 DEF Ends
<1>4. Ends(s) \in [1 .. Len(s) -> Nat]
  BY <1>2, <1>3
<1> QED
  BY <1>1, <1>3, <1>4

LEMMA EndsOfConcat ==
    ASSUME StreamsOK, NEW s \in Seq(Headers), NEW t \in Seq(Headers)
    PROVE  Ends(s \o t) = Ends(s) \o Ends(t)
<1>1. /\ s \o t \in Seq(Headers) /\ Len(s \o t) = Len(s) + Len(t)
      /\ \A i \in 1 .. Len(s) + Len(t) :
            (s \o t)[i] = IF i <= Len(s) THEN s[i] ELSE t[i - Len(s)]
  BY ConcatProperties
<1>2. PICK w \in Seq(Nat) : /\ w = Ends(s \o t) /\ Len(w) = Len(s) + Len(t)
                           /\ \A i \in 1 .. Len(s) + Len(t) : w[i] = FrameEnd((s \o t)[i])
  BY <1>1, EndsType
<1>3. PICK u \in Seq(Nat) : /\ u = Ends(s) /\ Len(u) = Len(s)
                           /\ \A i \in 1 .. Len(s) : u[i] = FrameEnd(s[i])
  BY EndsType
<1>4. PICK v \in Seq(Nat) : /\ v = Ends(t) /\ Len(v) = Len(t)
                           /\ \A i \in 1 .. Len(t) : v[i] = FrameEnd(t[i])
  BY EndsType
<1>5. /\ u \o v \in Seq(Nat) /\ Len(u \o v) = Len(u) + Len(v)
      /\ \A i \in 1 .. Len(u) + Len(v) :
            (u \o v)[i] = IF i <= Len(u) THEN u[i] ELSE v[i - Len(u)]
  BY ConcatProperties
<1>6. Len(s) \in Nat /\ Len(t) \in Nat
  OBVIOUS
<1>7. ASSUME NEW i \in 1 .. Len(w)
      PROVE  w[i] = (u \o v)[i]
  <2>1. CASE i <= Len(s)
    BY <1>1, <1>2, <1>3, <1>4, <1>5, <1>6, <2>1
  <2>2. CASE ~(i <= Len(s))
    <3>1. i - Len(s) \in 1 .. Len(t)
      BY <1>2, <1>6, <2>2
    <3> QED
      BY <1>1, <1>2, <1>3, <1>4, <1>5, <1>6, <2>2, <3>1
  <2> QED
    BY <2>1, <2>2
<1>8. w = u \o v
  BY <1>2, <1>3, <1>4, <1>5, <1>7, SeqEqual
<1> QED
  BY <1>2, <1>3, <1>4, <1>8

LEMMA FramesOfConcat ==
    ASSUME NEW s \in Seq(Headers), NEW t \in Seq(Headers)
    PROVE  FramesOf(s \o t) = FramesOf(s) \union FramesOf(t)
<1>1. FramesOf(s) = Range(s) /\ FramesOf(t) = Range(t) /\ FramesOf(s \o t) = Range(s \o t)
  BY DEF FramesOf, Range
<1> QED
  BY <1>1, RangeConcatenation

LEMMA OneFrame ==
    ASSUME StreamsOK, NEW p \in Headers
    PROVE  /\ <<p>> \in Seq(Headers)
           /\ Ends(<<p>>) = <<FrameEnd(p)>>
           /\ FramesOf(<<p>>) = {p}
  BY DEF Ends, FramesOf

LEMMA FramesOfType ==
    ASSUME NEW s \in Seq(Headers)
    PROVE  FramesOf(s) \subseteq Headers
  BY ElementOfSeq, LenProperties DEF FramesOf

LEMMA NatConcatAssociative ==
    \A s, t, u \in Seq(Nat) : (s \o t) \o u = s \o (t \o u)
  BY ConcatAssociative, SMTT(60)

LEMMA OneNumber == \A a \in Nat : <<a>> \in Seq(Nat)
  OBVIOUS

LEMMA NumberLast ==
    \A s, t \in Seq(Nat), c \in Nat : (s \o t) \o <<c>> = s \o (t \o <<c>>)
  BY NatConcatAssociative, OneNumber, Zenon

LEMMA NumberBetween ==
    \A s, t \in Seq(Nat), b \in Nat : (s \o <<b>>) \o t = s \o (<<b>> \o t)
  BY NatConcatAssociative, OneNumber, Zenon

LEMMA NumberFirst ==
    \A s, t \in Seq(Nat), a \in Nat : (<<a>> \o s) \o t = <<a>> \o (s \o t)
  BY NatConcatAssociative, OneNumber, Zenon

(* Two chains of frames, the second from where the first one ends, are one. *)
LEMMA ChainsConnect ==
    ASSUME StreamsOK, NEW s \in Seq(Headers), NEW t \in Seq(Headers),
           NEW a \in Nat, NEW b \in Nat, NEW c \in Nat,
           Chain(s, a, b), Chain(t, b, c)
    PROVE  Chain(s \o t, a, c)
<1>1. s \in Seq(Nat) /\ t \in Seq(Nat)
  <2>1. Headers \subseteq Nat
    BY SessionAssumption DEF Headers
  <2> QED
    BY <2>1, SeqMonotonic
<1>2. PICK u \in Seq(Nat), v \in Seq(Nat) : u = Ends(s) /\ v = Ends(t)
  BY EndsType
<1>3. (s \o t) \o <<c>> = s \o (t \o <<c>>)
  BY <1>1, NumberLast, Zenon
<1>4. (s \o <<b>>) \o v = s \o (<<b>> \o v)
  BY <1>1, NumberBetween, Zenon
<1>5. (<<a>> \o u) \o v = <<a>> \o (u \o v)
  BY NumberFirst, Zenon
<1>7. s \o <<b>> = <<a>> \o u /\ t \o <<c>> = <<b>> \o v
  BY <1>2, Zenon DEF Chain
<1>8. (s \o t) \o <<c>> = <<a>> \o (u \o v)
  BY <1>3, <1>4, <1>5, <1>7, Zenon
<1>6. Ends(s \o t) = u \o v
  BY <1>2, EndsOfConcat
<1> QED
  BY <1>6, <1>8, Zenon DEF Chain

-----------------------------------------------------------------------------
(* What _drain_buffer does. *)

LEMMA DrainageStops ==
    ASSUME StreamsOK, NEW limit \in Positions, NEW p \in Positions, p <= limit,
           ~WholeBy(p, limit), NEW close \in BOOLEAN, close <=> RefusedBy(p, limit)
    PROVE  IsDrainage(Halt(p, close), p, limit)
<1> DEFINE d == Halt(p, close)
<1>1. d.frames = <<>> /\ d.front = p /\ d.close = close
  BY DEF Halt
<1>2. d = [frames |-> d.frames, front |-> d.front, close |-> d.close]
  BY DEF Halt
<1>3. p \in Nat
  BY DEF Positions
<1>4. <<>> \in Seq(Headers) /\ FramesOf(<<>>) = {} /\ Ends(<<>>) = <<>>
  BY DEF FramesOf, Ends
<1>5. <<>> \o <<p>> = <<p>> \o <<>>
  OBVIOUS
<1> HIDE DEF d
<1>6. Chain(d.frames, p, d.front)
  BY <1>1, <1>4, <1>5 DEF Chain
<1>7. /\ d.frames \in Seq(Headers)
      /\ d.front \in Positions /\ p <= d.front /\ d.front <= limit
      /\ d.close \in BOOLEAN
  BY <1>1, <1>3, <1>4
<1>8. FramesOf(d.frames) = {}
  BY <1>1, <1>4
<1>9. ~WholeBy(d.front, limit)
  BY <1>1
<1>10. d.close <=> RefusedBy(d.front, limit)
  BY <1>1
<1>11. IsDrainage(d, p, limit)
  BY <1>2, <1>6, <1>7, <1>8, <1>9, <1>10 DEF IsDrainage
<1> QED
  BY <1>11 DEF d

LEMMA DrainageStarts ==
    ASSUME StreamsOK, NEW limit \in Positions, NEW p \in Positions,
           WholeBy(p, limit), NEW d, IsDrainage(d, FrameEnd(p), limit)
    PROVE  IsDrainage([d EXCEPT !.frames = <<p>> \o @], p, limit)
<1> DEFINE e == [frames |-> <<p>> \o d.frames, front |-> d.front, close |-> d.close]
<1>1. [d EXCEPT !.frames = <<p>> \o @] = e
  <2>1. PICK x, y, z : d = [frames |-> x, front |-> y, close |-> z]
    BY DEF IsDrainage
  <2>2. d.frames = x /\ d.front = y /\ d.close = z
    BY <2>1
  <2>3. [d EXCEPT !.frames = <<p>> \o @] = [frames |-> <<p>> \o x, front |-> y, close |-> z]
    BY <2>1
  <2> QED
    BY <2>2, <2>3
<1>2. e.frames = <<p>> \o d.frames /\ e.front = d.front /\ e.close = d.close
  OBVIOUS
<1>3. /\ p \in Headers /\ p \in Nat /\ FrameEnd(p) \in Positions /\ FrameEnd(p) \in Nat
      /\ p < FrameEnd(p)
  <2>1. Positions \subseteq Nat
    BY DEF Positions
  <2> QED
    BY <2>1, WholeFrameFits
<1>4. /\ <<p>> \in Seq(Headers) /\ d.frames \in Seq(Headers)
      /\ Ends(<<p>>) = <<FrameEnd(p)>> /\ FramesOf(<<p>>) = {p}
  BY <1>3, OneFrame DEF IsDrainage
<1>5. d.front \in Positions /\ FrameEnd(p) <= d.front /\ d.front <= limit
  BY DEF IsDrainage
<1>6. PICK s \in Seq(Headers), t \in Seq(Headers) : s = <<p>> /\ t = d.frames
  BY <1>4
<1>7. /\ s \o t \in Seq(Headers)
      /\ FramesOf(s \o t) = FramesOf(s) \union FramesOf(t)
  BY ConcatProperties, FramesOfConcat
<1>8. /\ e.frames \in Seq(Headers)
      /\ FramesOf(e.frames) = {p} \union FramesOf(d.frames)
  BY <1>2, <1>4, <1>6, <1>7, Zenon
<1>16. Chain(e.frames, p, e.front)
  <2>1. Chain(s, p, FrameEnd(p))
    BY <1>4, <1>6 DEF Chain
  <2>2. Chain(t, FrameEnd(p), d.front)
    BY <1>6 DEF IsDrainage
  <2>3. d.front \in Nat
    BY <1>5 DEF Positions
  <2>4. Chain(s \o t, p, d.front)
    BY <1>3, <2>1, <2>2, <2>3, ChainsConnect
  <2>5. e.frames = s \o t
    BY <1>2, <1>6, Zenon
  <2> QED
    BY <1>2, <2>4, <2>5
<1> HIDE DEF e
<1>9. ASSUME NEW q \in FramesOf(e.frames)
      PROVE  WholeBy(q, limit) /\ p <= q /\ q < e.front
  <2>1. CASE q = p
    <3>1. p < d.front /\ p <= p
      BY <1>3, <1>5 DEF Positions
    <3>2. WholeBy(q, limit)
      BY <2>1
    <3> QED
      BY <1>2, <2>1, <3>1, <3>2
  <2>2. CASE q \in FramesOf(d.frames)
    <3>1. WholeBy(q, limit) /\ FrameEnd(p) <= q /\ q < d.front
      BY <2>2 DEF IsDrainage
    <3>2. q \in Nat
      BY <1>4, <2>2, FramesOfType, SessionAssumption DEF Headers
    <3>3. p <= q
      BY <1>3, <3>1, <3>2
    <3> QED
      BY <1>2, <3>1, <3>3
  <2> QED
    BY <1>8, <2>1, <2>2
<1>10. /\ e.front \in Positions /\ p <= e.front /\ e.front <= limit
       /\ e.frames \in Seq(Headers)
  BY <1>2, <1>3, <1>5, <1>8 DEF Positions
<1>11. e = [frames |-> e.frames, front |-> e.front, close |-> e.close]
  BY DEF e
<1>12. ~WholeBy(e.front, limit)
  BY <1>2 DEF IsDrainage
<1>13. e.close \in BOOLEAN
  BY <1>2 DEF IsDrainage
<1>14. e.close <=> RefusedBy(e.front, limit)
  BY <1>2 DEF IsDrainage
<1>15. IsDrainage(e, p, limit)
  BY <1>9, <1>10, <1>11, <1>12, <1>13, <1>14, <1>16 DEF IsDrainage
<1> QED
  BY <1>1, <1>15

LEMMA DrainsWell ==
    ASSUME StreamsOK, NEW limit \in Positions, NEW f, Drains(f, 0, limit)
    PROVE  \A p \in Positions : p <= limit => IsDrainage(f[p], p, limit)
<1> DEFINE T == {k \in Nat : k <= limit /\ ~IsDrainage(f[limit - k], limit - k, limit)}
<1>0. limit \in Nat /\ Positions \subseteq Nat /\ limit <= StreamSize /\ StreamSize \in Nat
  BY SessionAssumption DEF Positions
<1>1. T = {}
  <2> SUFFICES ASSUME T # {}
               PROVE  FALSE
    OBVIOUS
  <2>1. PICK m \in T : \A k \in T : m <= k
    <3>1. T \subseteq Nat
      OBVIOUS
    <3> HIDE DEF T
    <3> QED
      BY <3>1, LeastNumber
  <2>2. PICK p \in Positions : p = limit - m /\ p <= limit
    BY <1>0 DEF Positions
  <2>3. ~IsDrainage(f[p], p, limit)
    BY <2>2
  <2>4. f[p] = Level(f, p, limit)
    BY <1>0, <2>2 DEF Drains, Positions
  <2>5. CASE WholeBy(p, limit)
    <3>1. /\ FrameEnd(p) \in Positions /\ p < FrameEnd(p) /\ ~(FrameEnd(p) > limit)
      BY <2>5, WholeFrameFits
    <3>2. PICK k \in Nat : k = limit - FrameEnd(p) /\ k < m /\ FrameEnd(p) = limit - k
      <4>1. m \in Nat /\ p \in Nat /\ FrameEnd(p) \in Nat
        BY <1>0, <3>1
      <4>2. /\ limit - FrameEnd(p) \in Nat /\ limit - FrameEnd(p) < m
            /\ FrameEnd(p) = limit - (limit - FrameEnd(p))
        BY <1>0, <2>2, <3>1, <4>1
      <4> QED
        BY <4>2
    <3>3. IsDrainage(f[limit - k], limit - k, limit)
      BY <1>0, <2>1, <3>2
    <3>4. IsDrainage(f[FrameEnd(p)], FrameEnd(p), limit)
      BY <3>2, <3>3
    <3>5. IsDrainage([f[FrameEnd(p)] EXCEPT !.frames = <<p>> \o @], p, limit)
      BY <2>5, <3>4, DrainageStarts
    <3>6. f[p] = [f[FrameEnd(p)] EXCEPT !.frames = <<p>> \o @]
      BY <2>4, <2>5, LevelOfFrame
    <3> QED
      BY <2>3, <3>5, <3>6
  <2>6. CASE ~WholeBy(p, limit)
    <3>1. CASE RefusedBy(p, limit)
      <4>1. IsDrainage(Halt(p, TRUE), p, limit)
        BY <2>2, <2>6, <3>1, DrainageStops
      <4>2. f[p] = Halt(p, TRUE)
        BY <2>4, <2>6, <3>1, LevelOfStop
      <4> QED
        BY <2>3, <4>1, <4>2
    <3>2. CASE ~RefusedBy(p, limit)
      <4>1. IsDrainage(Halt(p, FALSE), p, limit)
        BY <2>2, <2>6, <3>2, DrainageStops
      <4>2. f[p] = Halt(p, FALSE)
        BY <2>4, <2>6, <3>2, LevelOfStop
      <4> QED
        BY <2>3, <4>1, <4>2
    <3> QED
      BY <3>1, <3>2
  <2> QED
    BY <2>5, <2>6
<1>2. ASSUME NEW p \in Positions, p <= limit
      PROVE  IsDrainage(f[p], p, limit)
  <2>1. PICK k \in Nat : k = limit - p /\ k <= limit /\ limit - k = p
    BY <1>0, <1>2
  <2>2. k \notin T
    BY <1>1
  <2>3. IsDrainage(f[limit - k], limit - k, limit)
    BY <2>1, <2>2
  <2> QED
    BY <2>1, <2>3
<1> QED
  BY <1>2

LEMMA DrainedIsDrainage ==
    ASSUME StreamsOK, NEW limit \in Positions, NEW from \in Positions, from <= limit
    PROVE  IsDrainage(Drained(from, limit), from, limit)
<1> DEFINE f == CHOOSE g : Drains(g, 0, limit)
<1>1. Drains(f, 0, limit)
  BY DrainsExist
<1>2. Drained(from, limit) = f[from]
  BY DEF Drained, Drains, Level, Positions
<1> HIDE DEF f
<1>3. IsDrainage(f[from], from, limit)
  BY <1>1, DrainsWell
<1> QED
  BY <1>2, <1>3

-----------------------------------------------------------------------------
(* The inductive invariant: what has been handed over is a chain of whole
   frames from the first byte up to the front of the buffer, where there is no
   whole frame; the handlers are of these frames. *)
FramingInv ==
    /\ StreamsOK
    /\ received \in Positions /\ taken \in Positions /\ taken <= received
    /\ handed \in Seq(Headers)
    /\ Chain(handed, 0, taken)
    /\ \A p \in FramesOf(handed) : WholeBy(p, received) /\ p < taken
    /\ ~WholeBy(taken, received)
    /\ transport # "lost" => (transport = "closing" <=> RefusedBy(taken, received))
    /\ tasks \subseteq FramesOf(handed)
    /\ acked \subseteq FramesOf(handed) \ tasks
    /\ transport \in {"open", "closing", "lost"}
    /\ connections = IF transport = "lost" THEN 0 ELSE 1

LEMMA InitFramingInv == Init => FramingInv
<1> SUFFICES ASSUME Init
             PROVE  FramingInv
  OBVIOUS
<1>1. /\ StreamsOK /\ received = 0 /\ taken = 0 /\ handed = <<>> /\ tasks = {}
      /\ acked = {} /\ transport = "open" /\ connections = 1
  BY DEF Init, StreamsOK
<1>2. /\ HeaderSize \in Nat \ {0} /\ 0 \in Positions
  BY SessionAssumption DEF Positions
<1>3. handed \in Seq(Headers) /\ FramesOf(handed) = {}
  BY <1>1 DEF FramesOf
<1>4. Chain(handed, 0, taken)
  <2>1. <<>> \o <<0>> = <<0>> \o <<>> /\ Ends(<<>>) = <<>>
    BY DEF Ends
  <2> QED
    BY <1>1, <2>1 DEF Chain
<1>5. ~WholeBy(taken, received) /\ ~RefusedBy(taken, received)
  BY <1>1, <1>2 DEF WholeBy, RefusedBy
<1> QED
  BY <1>1, <1>2, <1>3, <1>4, <1>5 DEF FramingInv

(* A frame stays whole as more bytes arrive. *)
LEMMA WholeStays ==
    ASSUME StreamsOK, NEW a \in Positions, NEW b \in Positions, a <= b,
           NEW p \in Headers, WholeBy(p, a)
    PROVE  WholeBy(p, b)
<1>1. /\ a \in Nat /\ b \in Nat /\ p \in Nat /\ HeaderSize \in Nat
      /\ FrameEnd(p) \in Nat
  BY FrameEndIsAhead, SessionAssumption DEF Positions, Headers
<1> QED
  BY <1>1 DEF WholeBy

LEMMA DataReceivedKeeps ==
    ASSUME FramingInv, NEW n \in 1 .. StreamSize, DataReceived(n)
    PROVE  FramingInv'
<1>1. PICK limit \in Positions : limit = received' /\ received <= limit
  <2>1. received \in Nat /\ received + n <= StreamSize /\ received' = received + n
        /\ StreamSize \in Nat
    BY SessionAssumption DEF DataReceived, FramingInv, Positions
  <2>2. received' \in Positions /\ received <= received'
    BY <2>1 DEF Positions
  <2> QED
    BY <2>2
<1>0. PICK from \in Positions : from = taken
  BY DEF FramingInv
<1>2. PICK d : from = taken /\ d = Drained(from, limit)
  BY <1>0
<1>3. from <= limit
  <2>1. from \in Nat /\ received \in Nat /\ limit \in Nat /\ from <= received
    BY <1>2 DEF FramingInv, Positions
  <2> QED
    BY <1>1, <2>1
<1>4. IsDrainage(d, from, limit)
  BY <1>2, <1>3, DrainedIsDrainage DEF FramingInv
<1>5. PICK h \in Seq(Headers), t \in Seq(Headers) : h = handed /\ t = d.frames
  BY <1>4 DEF FramingInv, IsDrainage
<1>6. /\ handed' = h \o t
      /\ tasks' = tasks \union FramesOf(t)
      /\ taken' = d.front
      /\ transport' = IF d.close THEN "closing" ELSE "open"
      /\ announces' = announces /\ acked' = acked /\ connections' = connections
      /\ transport = "open"
  BY <1>1, <1>2, <1>5 DEF DataReceived
<1>7. PICK front \in Positions, close \in BOOLEAN :
        /\ front = d.front /\ close = d.close /\ from <= front /\ front <= limit
        /\ Chain(t, from, front)
        /\ \A p \in FramesOf(t) : WholeBy(p, limit) /\ from <= p /\ p < front
        /\ ~WholeBy(front, limit)
        /\ (close <=> RefusedBy(front, limit))
  BY <1>4, <1>5 DEF IsDrainage
<1>8. h \o t \in Seq(Headers) /\ FramesOf(h \o t) = FramesOf(h) \union FramesOf(t)
  BY ConcatProperties, FramesOfConcat
<1>9. Positions \subseteq Nat /\ Headers \subseteq Nat
  BY SessionAssumption DEF Positions, Headers
<1>10. Chain(h \o t, 0, front)
  <2>1. Chain(h, 0, from)
    BY <1>2, <1>5 DEF FramingInv
  <2>2. StreamsOK /\ from \in Nat /\ front \in Nat /\ 0 \in Nat
    BY <1>9 DEF FramingInv
  <2> QED
    BY <1>7, <2>1, <2>2, ChainsConnect
<1>11. \A p \in FramesOf(h \o t) : WholeBy(p, limit) /\ p < front
  <2>1. ASSUME NEW p \in FramesOf(h)
        PROVE  WholeBy(p, limit) /\ p < front
    <3>1. p \in Headers /\ WholeBy(p, received) /\ p < from
      BY <1>2, <1>5, FramesOfType DEF FramingInv
    <3>2. WholeBy(p, limit)
      <4>1. PICK a \in Positions : a = received /\ a <= limit
        BY <1>1 DEF FramingInv
      <4> QED
        BY <3>1, <4>1, WholeStays DEF FramingInv
    <3> QED
      BY <1>7, <1>9, <3>1, <3>2
  <2> QED
    BY <1>7, <1>8, <2>1
<1>12. \A p \in FramesOf(t) : p \notin FramesOf(h)
  <2>1. \A p \in FramesOf(h) : p < from /\ p \in Nat
    BY <1>2, <1>5, <1>9, FramesOfType DEF FramingInv
  <2> QED
    BY <1>7, <1>9, <2>1
<1>13. /\ tasks' \subseteq FramesOf(h \o t)
       /\ acked' \subseteq FramesOf(h \o t) \ tasks'
  BY <1>5, <1>6, <1>8, <1>12 DEF FramingInv
<1>14. \A p : (WholeBy(p, received))' <=> WholeBy(p, limit)
  BY <1>1, <1>6 DEF WholeBy, FrameEnd
<1>15. (RefusedBy(taken, received))' <=> RefusedBy(front, limit)
  BY <1>1, <1>6, <1>7 DEF RefusedBy
<1>16. StreamsOK'
  BY <1>6 DEF FramingInv, StreamsOK
<1>17. (Chain(handed, 0, taken))'
  BY <1>6, <1>7, <1>10 DEF Chain, Ends, FrameEnd
<1>18. /\ received' \in Positions /\ taken' \in Positions /\ taken' <= received'
       /\ handed' \in Seq(Headers)
  BY <1>1, <1>6, <1>7, <1>8
<1>19. FramesOf(handed)' = FramesOf(h \o t)
  BY <1>6 DEF FramesOf
<1>20. (\A p \in FramesOf(handed) : WholeBy(p, received) /\ p < taken)'
  BY <1>6, <1>7, <1>11, <1>14, <1>19
<1>21. ~(WholeBy(taken, received))'
  <2>1. (WholeBy(taken, received))' <=> WholeBy(front, limit)
    BY <1>1, <1>6, <1>7 DEF WholeBy, FrameEnd
  <2> QED
    BY <1>7, <2>1
<1>22. /\ transport' \in {"open", "closing"}
       /\ transport' = "closing" <=> close
  BY <1>6, <1>7
<1>23. connections' = 1
  BY <1>6 DEF FramingInv
<1> QED
  BY <1>7, <1>13, <1>15, <1>16, <1>17, <1>18, <1>19, <1>20, <1>21, <1>22, <1>23
  DEF FramingInv

LEMMA UndisturbedFraming ==
    ASSUME FramingInv, UNCHANGED <<announces, received, taken, handed>>,
           tasks' \subseteq tasks, acked' \subseteq FramesOf(handed) \ tasks',
           \/ UNCHANGED <<transport, connections>>
           \/ transport' = "lost" /\ connections' = 0
    PROVE  FramingInv'
<1>1. /\ StreamsOK' /\ handed' \in Seq(Headers)
      /\ received' \in Positions /\ taken' \in Positions /\ taken' <= received'
  BY DEF FramingInv, StreamsOK
<1>2. (Chain(handed, 0, taken))'
  BY DEF FramingInv, Chain, Ends, FrameEnd
<1>3. FramesOf(handed)' = FramesOf(handed)
  BY DEF FramesOf
<1>4. \A p : (WholeBy(p, received))' <=> WholeBy(p, received)
  BY DEF WholeBy, FrameEnd
<1>5. /\ (WholeBy(taken, received))' <=> WholeBy(taken, received)
      /\ (RefusedBy(taken, received))' <=> RefusedBy(taken, received)
  BY DEF WholeBy, RefusedBy, FrameEnd
<1>6. /\ \A p \in FramesOf(handed)' : (WholeBy(p, received))' /\ p < taken'
      /\ ~(WholeBy(taken, received))'
      /\ transport' # "lost" => (transport' = "closing" <=> (RefusedBy(taken, received))')
  BY <1>3, <1>4, <1>5 DEF FramingInv
<1>7. /\ tasks' \subseteq FramesOf(handed)'
      /\ acked' \subseteq FramesOf(handed)' \ tasks'
      /\ transport' \in {"open", "closing", "lost"}
      /\ connections' = IF transport' = "lost" THEN 0 ELSE 1
  BY <1>3 DEF FramingInv
<1> QED
  BY <1>1, <1>2, <1>6, <1>7 DEF FramingInv

LEMMA NextFramingInv == FramingInv /\ [Next]_vars => FramingInv'
<1> SUFFICES ASSUME FramingInv, [Next]_vars
             PROVE  FramingInv'
  OBVIOUS
<1>1. ASSUME NEW n \in 1 .. StreamSize, DataReceived(n)
      PROVE  FramingInv'
  BY <1>1, DataReceivedKeeps
<1>2. ASSUME NEW p \in Positions, Handle(p)
      PROVE  FramingInv'
  <2>1. /\ UNCHANGED <<announces, received, taken, handed>>
        /\ tasks' \subseteq tasks
        /\ UNCHANGED <<transport, connections>>
    BY <1>2 DEF Handle
  <2>2. acked' \subseteq FramesOf(handed) \ tasks'
    BY <1>2 DEF Handle, FramingInv
  <2> QED
    BY <2>1, <2>2, UndisturbedFraming
<1>3. CASE ConnectionLost
  <2>1. /\ UNCHANGED <<announces, received, taken, handed>>
        /\ tasks' \subseteq tasks
        /\ acked' \subseteq FramesOf(handed) \ tasks'
    BY <1>3 DEF ConnectionLost, FramingInv
  <2>2. transport' = "lost" /\ connections' = 0
    BY <1>3 DEF ConnectionLost, FramingInv
  <2> QED
    BY <2>1, <2>2, UndisturbedFraming
<1>4. CASE UNCHANGED vars
  <2>1. /\ UNCHANGED <<announces, received, taken, handed>>
        /\ tasks' \subseteq tasks
        /\ acked' \subseteq FramesOf(handed) \ tasks'
        /\ UNCHANGED <<transport, connections>>
    BY <1>4 DEF vars, FramingInv
  <2> QED
    BY <2>1, UndisturbedFraming
<1> QED
  BY <1>1, <1>2, <1>3, <1>4 DEF Next

(* The invariant holds however the stream is cut, whatever it says and in
   whatever order the handlers end. *)
THEOREM FramingInvariance == Spec => []FramingInv
<1> QED
  BY InitFramingInv, NextFramingInv, PTL DEF Spec

(* The session hands over exactly the frames that are whole in what arrived,
   each once and in order, and closes exactly on a header that announces too
   much: how TCP cuts the stream cannot be seen. *)
THEOREM FramesAreTheStream == Spec => []CutsAreInvisible
<1>1. FramingInv => CutsAreInvisible
  BY DEF FramingInv, CutsAreInvisible, Chain, Ends, Whole, WholeBy, Refused, RefusedBy
<1> QED
  BY FramingInvariance, <1>1, PTL

(* The variables keep their types, and the buffer of an open connection stays
   below one frame of the largest size: between the last frame taken and the
   next there is neither a whole frame nor one too large. *)
THEOREM BufferStaysBounded == Spec => []BufferBounded
<1>1. FramingInv => BufferBounded
  <2> SUFFICES ASSUME FramingInv
               PROVE  BufferBounded
    OBVIOUS
  <2>1. /\ received \in Nat /\ taken \in Nat /\ taken <= received
        /\ received <= StreamSize /\ StreamSize \in Nat
        /\ HeaderSize \in Nat \ {0} /\ MaxPayload \in Nat
    BY SessionAssumption DEF FramingInv, Positions
  <2>2. taken \in 0 .. received
    BY <2>1
  <2>3. ASSUME transport = "open"
        PROVE  received - taken < HeaderSize + MaxPayload
    <3>1. ~WholeBy(taken, received) /\ ~RefusedBy(taken, received)
      BY <2>3 DEF FramingInv
    <3>2. CASE ~(taken + HeaderSize <= received)
      BY <2>1, <3>2
    <3>3. CASE taken + HeaderSize <= received
      <4>1. taken \in Headers
        BY <2>1, <3>3 DEF Headers
      <4>2. PICK p \in Headers : p = taken
        BY <4>1
      <4>3. announces[p] \in Nat /\ FrameEnd(p) = p + HeaderSize + announces[p]
        BY FrameEndIsAhead DEF FramingInv, FrameEnd
      <4>4. announces[p] <= MaxPayload
        BY <2>1, <3>1, <3>3, <4>2, <4>3 DEF RefusedBy
      <4>5. ~(FrameEnd(p) <= received)
        BY <3>1, <3>3, <4>2, <4>4 DEF WholeBy
      <4> QED
        BY <2>1, <4>2, <4>3, <4>4, <4>5
    <3> QED
      BY <3>2, <3>3
  <2>4. handed \in Seq(Positions)
    <3>1. Headers \subseteq Positions
      BY SessionAssumption DEF Headers, Positions
    <3>2. PICK h \in Seq(Headers) : h = handed
      BY DEF FramingInv
    <3>3. h \in Seq(Positions)
      BY <3>1, SeqMonotonic
    <3> QED
      BY <3>2, <3>3
  <2> QED
    BY <2>2, <2>3, <2>4 DEF FramingInv, TypeOK, BufferBounded
<1> QED
  BY FramingInvariance, <1>1, PTL

=============================================================================
