--------------------------- MODULE PipelineProofs ----------------------------
(***************************************************************************)
(* Proofs about SlicePipeline: the counting lemmas, the type invariant,    *)
(* that a packet is in exactly one place, that the counters of a slice are *)
(* its reports, that deliveries are reported in order, and that the slicer *)
(* keeps the promise of PacketLedger.                                      *)
(***************************************************************************)
EXTENDS SlicePipeline, SequenceTheorems, FiniteSetTheorems, FunctionTheorems, TLAPS

(* How often the elements of a sequence hit a set, when the sequence grows or
   loses its head. *)
LEMMA CountType ==
    ASSUME NEW X, NEW seq \in Seq(X), NEW hits
    PROVE  /\ IsFiniteSet({i \in DOMAIN seq : seq[i] \in hits})
           /\ Count(hits, seq) \in Nat
<1>1. Len(seq) \in Nat /\ DOMAIN seq = 1 .. Len(seq)
  BY LenProperties
<1>2. IsFiniteSet(1 .. Len(seq))
  BY <1>1, FS_Interval
<1>3. {i \in DOMAIN seq : seq[i] \in hits} \in SUBSET (1 .. Len(seq))
  BY <1>1
<1>4. IsFiniteSet({i \in DOMAIN seq : seq[i] \in hits})
  BY <1>2, <1>3, FS_Subset
<1> QED
  BY <1>4, FS_CardinalityType DEF Count

LEMMA CountNone == \A hits : Count(hits, <<>>) = 0
<1> TAKE hits
<1>1. {i \in DOMAIN <<>> : <<>>[i] \in hits} = {}
  OBVIOUS
<1> QED
  BY <1>1, FS_EmptySet DEF Count

LEMMA CountAppend ==
    ASSUME NEW X, NEW seq \in Seq(X), NEW e \in X, NEW hits
    PROVE  Count(hits, Append(seq, e)) =
              Count(hits, seq) + (IF e \in hits THEN 1 ELSE 0)
<1> DEFINE n == Len(seq)
           old == {i \in DOMAIN seq : seq[i] \in hits}
           new == {i \in DOMAIN Append(seq, e) : Append(seq, e)[i] \in hits}
<1>1. /\ n \in Nat
      /\ DOMAIN seq = 1 .. n
      /\ DOMAIN Append(seq, e) = 1 .. n + 1
      /\ \A i \in 1 .. n : Append(seq, e)[i] = seq[i]
      /\ Append(seq, e)[n + 1] = e
  BY LenProperties, AppendProperties
<1>2. IsFiniteSet(old) /\ Count(hits, seq) \in Nat
  BY CountType
<1>0. Count(hits, seq) = Cardinality(old) /\ Count(hits, Append(seq, e)) = Cardinality(new)
  BY DEF Count
<1> HIDE DEF new, old
<1>3. CASE e \in hits
  <2>1. new = old \union {n + 1}
    BY <1>1, <1>3 DEF new, old
  <2>2. n + 1 \notin old
    BY <1>1 DEF old
  <2>3. Cardinality(new) = Cardinality(old) + 1
    BY <1>2, <2>1, <2>2, FS_AddElement
  <2> QED
    BY <1>0, <1>3, <2>3
<1>4. CASE e \notin hits
  <2>1. new = old
    BY <1>1, <1>4 DEF new, old
  <2> QED
    BY <1>0, <1>2, <1>4, <2>1
<1> QED
  BY <1>3, <1>4

LEMMA CountOne == \A e, hits : Count(hits, <<e>>) = (IF e \in hits THEN 1 ELSE 0)
<1> TAKE e, hits
<1>1. CASE e \in hits
  <2>1. {i \in DOMAIN <<e>> : <<e>>[i] \in hits} = {1}
    BY <1>1
  <2> QED
    BY <1>1, <2>1, FS_Singleton DEF Count
<1>2. CASE e \notin hits
  <2>1. {i \in DOMAIN <<e>> : <<e>>[i] \in hits} = {}
    BY <1>2
  <2> QED
    BY <1>2, <2>1, FS_EmptySet DEF Count
<1> QED
  BY <1>1, <1>2

LEMMA CountHead ==
    ASSUME NEW X, NEW seq \in Seq(X), seq # <<>>, NEW hits
    PROVE  Count(hits, seq) =
              Count(hits, Tail(seq)) + (IF Head(seq) \in hits THEN 1 ELSE 0)
<1> DEFINE n == Len(seq)
           whole == {i \in DOMAIN seq : seq[i] \in hits}
           rest == {i \in DOMAIN Tail(seq) : Tail(seq)[i] \in hits}
           later == whole \ {1}
           shift == [i \in rest |-> i + 1]
<1>1. /\ n \in Nat \ {0}
      /\ DOMAIN seq = 1 .. n
      /\ DOMAIN Tail(seq) = 1 .. n - 1
      /\ \A i \in 1 .. n - 1 : Tail(seq)[i] = seq[i + 1]
      /\ Tail(seq) \in Seq(X)
      /\ Head(seq) = seq[1]
  <2>1. n \in Nat \ {0} /\ DOMAIN seq = 1 .. n
    BY LenProperties, EmptySeq
  <2>2. Tail(seq) \in Seq(X) /\ Len(Tail(seq)) = n - 1
        /\ \A i \in 1 .. Len(Tail(seq)) : Tail(seq)[i] = seq[i + 1]
    BY HeadTailProperties
  <2>3. DOMAIN Tail(seq) = 1 .. Len(Tail(seq))
    BY <2>2, LenProperties
  <2> QED
    BY <2>1, <2>2, <2>3
<1>2. IsFiniteSet(whole) /\ IsFiniteSet(rest)
      /\ Cardinality(whole) \in Nat /\ Cardinality(rest) \in Nat
  BY <1>1, CountType DEF Count
<1>3. shift \in Bijection(rest, later)
  <2>1. \A i \in rest : i + 1 \in later
    BY <1>1
  <2>2. \A j \in later : j - 1 \in rest /\ (j - 1) + 1 = j
    BY <1>1
  <2>3. \A i, j \in rest : i + 1 = j + 1 => i = j
    BY <1>1
  <2>4. shift \in [rest -> later]
    BY <2>1
  <2>5. \A j \in later : \E i \in rest : shift[i] = j
    BY <2>2
  <2> QED
    BY <2>3, <2>4, <2>5, Fun_IsBij
<1>4. Cardinality(later) = Cardinality(rest)
  <2>1. ExistsBijection(rest, later)
    BY <1>3 DEF ExistsBijection
  <2> QED
    BY <1>2, <2>1, FS_Bijection
<1>5. Cardinality(later) = IF 1 \in whole THEN Cardinality(whole) - 1
                                          ELSE Cardinality(whole)
  BY <1>2, FS_RemoveElement
<1>6. 1 \in whole <=> Head(seq) \in hits
  BY <1>1
<1>7. Count(hits, seq) = Cardinality(whole) /\ Count(hits, Tail(seq)) = Cardinality(rest)
  BY DEF Count
<1> HIDE DEF whole, rest, later
<1> QED
  BY <1>2, <1>4, <1>5, <1>6, <1>7

(* Appending to the second half of a concatenation, and moving its first
   element to the first half: what put and get do to the line of a slice and
   to the journal. *)
LEMMA ConcatAppend ==
    ASSUME NEW X, NEW s \in Seq(X), NEW t \in Seq(X), NEW e \in X
    PROVE  s \o Append(t, e) = Append(s \o t, e)
<1>1. <<e>> \in Seq(X)
  OBVIOUS
<1>2. Append(t, e) = t \o <<e>> /\ s \o t \in Seq(X)
  BY AppendIsConcat, ConcatProperties
<1>3. Append(s \o t, e) = (s \o t) \o <<e>>
  BY <1>2, AppendIsConcat
<1> QED
  BY <1>1, <1>2, <1>3, ConcatAssociative

LEMMA ConcatMove ==
    ASSUME NEW X, NEW s \in Seq(X), NEW t \in Seq(X), t # <<>>
    PROVE  Append(s, Head(t)) \o Tail(t) = s \o t
<1>1. /\ Head(t) \in X /\ Tail(t) \in Seq(X)
      /\ Len(Tail(t)) = Len(t) - 1
      /\ \A i \in 1 .. Len(Tail(t)) : Tail(t)[i] = t[i + 1]
      /\ Head(t) = t[1]
      /\ Len(t) \in Nat \ {0}
      /\ Len(s) \in Nat
  BY HeadTailProperties, LenProperties, EmptySeq
<1> DEFINE a == Append(s, Head(t))
<1>2. /\ a \in Seq(X)
      /\ Len(a) = Len(s) + 1
      /\ \A i \in 1 .. Len(s) : a[i] = s[i]
      /\ a[Len(s) + 1] = Head(t)
  BY <1>1, AppendProperties
<1> HIDE DEF a
<1>3. /\ a \o Tail(t) \in Seq(X)
      /\ Len(a \o Tail(t)) = Len(a) + Len(Tail(t))
      /\ \A i \in 1 .. Len(a) + Len(Tail(t)) : (a \o Tail(t))[i] =
            IF i <= Len(a) THEN a[i] ELSE Tail(t)[i - Len(a)]
  BY <1>1, <1>2, ConcatProperties
<1>4. /\ s \o t \in Seq(X)
      /\ Len(s \o t) = Len(s) + Len(t)
      /\ \A i \in 1 .. Len(s) + Len(t) : (s \o t)[i] =
            IF i <= Len(s) THEN s[i] ELSE t[i - Len(s)]
  BY ConcatProperties
<1>5. Len(a \o Tail(t)) = Len(s \o t)
  BY <1>1, <1>2, <1>3, <1>4
<1>6. ASSUME NEW i \in 1 .. Len(s) + Len(t)
      PROVE  (a \o Tail(t))[i] = (s \o t)[i]
  <2>1. CASE i <= Len(s)
    BY <1>1, <1>2, <1>3, <1>4, <2>1
  <2>2. CASE i = Len(s) + 1
    BY <1>1, <1>2, <1>3, <1>4, <2>2
  <2>3. CASE i > Len(s) + 1
    <3>1. i - Len(a) \in 1 .. Len(Tail(t))
      BY <1>1, <1>2, <2>3
    <3>2. Tail(t)[i - Len(a)] = t[i - Len(s)]
      <4>1. Tail(t)[i - Len(a)] = t[(i - Len(a)) + 1]
        BY <1>1, <3>1
      <4>2. (i - Len(a)) + 1 = i - Len(s)
        BY <1>1, <1>2
      <4> QED
        BY <4>1, <4>2
    <3>3. (a \o Tail(t))[i] = Tail(t)[i - Len(a)]
      BY <1>1, <1>2, <1>3, <2>3
    <3>4. (s \o t)[i] = t[i - Len(s)]
      BY <1>1, <1>4, <2>3
    <3> QED
      BY <3>2, <3>3, <3>4
  <2>4. i <= Len(s) \/ i = Len(s) + 1 \/ i > Len(s) + 1
    BY <1>1
  <2> QED
    BY <2>1, <2>2, <2>3, <2>4
<1>7. a \o Tail(t) = s \o t
  BY <1>3, <1>4, <1>5, <1>6, SeqEqual
<1> QED
  BY <1>7 DEF a


PacketsOf(s) == {p \in Packets : SliceFor[p] = s}

(* Packets wait and are served in their own slice, and finitely many handlers
   are suspended. *)
OwnSlice ==
    /\ \A s \in Slices : queue[s] \in Seq(PacketsOf(s))
    /\ \A s \in Slices : hand[s] # <<>> => Holds(s) \in PacketsOf(s)
    /\ IsFiniteSet(blocked)

TypeInv == TypeOK /\ OwnSlice

LEMMA PacketShape ==
    \A p \in Packets : /\ p = <<p[1], p[2]>>
                       /\ p[1] \in Flows
                       /\ p[2] \in 1 .. Sends[p[1]]
  BY DEF Packets

LEMMA SliceForType == \A p \in Packets : SliceFor[p] = SliceOf[p[1]] /\ SliceFor[p] \in Slices
  BY PacketShape, PipelineAssumption DEF SliceFor, FlowOf

LEMMA DueFacts ==
    ASSUME TypeOK, NEW f \in Flows, Starts(f)
    PROVE  /\ Due(f) \in PacketsOf(SliceOf[f])
           /\ Due(f) \in Packets
           /\ SliceFor[Due(f)] = SliceOf[f]
           /\ SliceOf[f] \in Slices
           /\ ~Arrived(Due(f))
           /\ next' \in [Flows -> Nat \ {0}]
           /\ \A g \in Flows : next'[g] <= Sends[g] + 1
           /\ \A p \in Packets : Arrived(p)' <=> Arrived(p) \/ p = Due(f)
<1>0. /\ next \in [Flows -> Nat \ {0}]
      /\ \A g \in Flows : next[g] <= Sends[g] + 1
      /\ next[f] <= Sends[f]
      /\ next' = [next EXCEPT ![f] = @ + 1]
      /\ Sends \in [Flows -> Nat]
      /\ SliceOf[f] \in Slices
  BY PipelineAssumption DEF TypeOK, Starts
<1>1. Due(f) \in {f} \X (1 .. Sends[f])
  BY <1>0 DEF Due
<1>2. Due(f) \in Packets
  BY <1>1 DEF Packets
<1>3. Due(f)[1] = f /\ Due(f)[2] = next[f]
  BY DEF Due
<1>4. SliceFor[Due(f)] = SliceOf[f]
  BY <1>2, <1>3, SliceForType
<1>5. ~Arrived(Due(f))
  BY <1>0, <1>3 DEF Arrived
<1>6. next' \in [Flows -> Nat \ {0}] /\ \A g \in Flows : next'[g] <= Sends[g] + 1
  BY <1>0
<1>7. ASSUME NEW p \in Packets
      PROVE  Arrived(p)' <=> Arrived(p) \/ p = Due(f)
  <2>1. p = <<p[1], p[2]>> /\ p[1] \in Flows /\ p[2] \in Nat
    BY <1>0, PacketShape
  <2>2. CASE p[1] = f
    <3>1. Arrived(p)' <=> p[2] < next[f] + 1
      BY <1>0, <2>2 DEF Arrived
    <3>2. p = Due(f) <=> p[2] = next[f]
      BY <2>1, <2>2 DEF Due
    <3> QED
      BY <1>0, <2>1, <2>2, <3>1, <3>2 DEF Arrived
  <2>3. CASE p[1] # f
    BY <1>0, <1>3, <2>1, <2>3 DEF Arrived
  <2> QED
    BY <2>2, <2>3
<1> QED
  BY <1>0, <1>2, <1>4, <1>5, <1>6, <1>7 DEF PacketsOf

LEMMA PutFacts ==
    ASSUME TypeOK, Room, NEW p \in Packets, NEW d \in BOOLEAN, Put(p, d)
    PROVE  /\ results' \in Seq(Reports)
           /\ Len(results') <= ResultsSize
           /\ recorded' = recorded => Journal' = Append(Journal, Report(p, d))
           /\ Report(p, d) \in Reports
<1>1. Report(p, d) \in Reports
  BY DEF Report, Reports
<1>2. results \in Seq(Reports) /\ recorded \in Seq(Reports) /\ ResultsSize \in Nat
  BY PipelineAssumption DEF TypeOK
<1>3. results' = Append(results, Report(p, d))
  BY DEF Put
<1>4. results' \in Seq(Reports) /\ Len(results') = Len(results) + 1 /\ Len(results) \in Nat
  BY <1>1, <1>2, <1>3, AppendProperties, LenProperties
<1>5. Len(results') <= ResultsSize
  BY <1>2, <1>4 DEF Room
<1>6. recorded \o Append(results, Report(p, d)) = Append(Journal, Report(p, d))
  BY <1>1, <1>2, ConcatAppend DEF Journal
<1>7. recorded' = recorded => Journal' = Append(Journal, Report(p, d))
  BY <1>3, <1>6 DEF Journal
<1> QED
  BY <1>1, <1>4, <1>5, <1>7

LEMMA RecordFacts ==
    ASSUME TypeOK, Record
    PROVE  /\ results' \in Seq(Reports) /\ Len(results') <= ResultsSize
           /\ recorded' \in Seq(Reports)
           /\ Journal' = Journal
<1>1. /\ results \in Seq(Reports) /\ recorded \in Seq(Reports) /\ results # <<>>
      /\ results' = Tail(results) /\ recorded' = Append(recorded, Head(results))
      /\ Len(results) <= ResultsSize /\ ResultsSize \in Nat
  BY PipelineAssumption DEF TypeOK, Record
<1>2. /\ Head(results) \in Reports /\ Tail(results) \in Seq(Reports)
      /\ Len(Tail(results)) = Len(results) - 1 /\ Len(results) \in Nat
  BY <1>1, HeadTailProperties, LenProperties
<1>3. recorded' \in Seq(Reports)
  BY <1>1, <1>2, AppendProperties
<1>4. Append(recorded, Head(results)) \o Tail(results) = recorded \o results
  BY <1>1, ConcatMove
<1>5. Journal' = Journal
  BY <1>1, <1>4 DEF Journal
<1> QED
  BY <1>1, <1>2, <1>3, <1>5

LEMMA InitTypeInv == Init => TypeInv
<1> SUFFICES ASSUME Init PROVE TypeInv
  OBVIOUS
<1>1. IsFiniteSet(blocked)
  BY FS_EmptySet DEF Init
<1>2. \A S : <<>> \in Seq(S) /\ Len(<<>>) = 0
  BY EmptySeq
<1>3. OwnSlice
  BY <1>1, <1>2 DEF Init, OwnSlice
<1>4. TypeOK
  BY <1>2, PipelineAssumption DEF Init, TypeOK, Stages
<1> QED
  BY <1>3, <1>4 DEF TypeInv

LEMMA AckedType ==
    ASSUME TypeOK, NEW p \in Packets, Acked(p)
    PROVE  acks' \subseteq Packets \X {OK}
  BY DEF TypeOK, Acked

LEMMA HoldsFacts ==
    ASSUME TypeInv, NEW s \in Slices, stage[s] # "idle"
    PROVE  /\ hand[s] = <<Holds(s)>>
           /\ Holds(s) \in PacketsOf(s)
           /\ Holds(s) \in Packets
           /\ SliceFor[Holds(s)] = s
<1>1. hand[s] # <<>> /\ hand[s] \in {<<>>} \union {<<p>> : p \in Packets}
  BY DEF TypeInv, TypeOK
<1>2. PICK p \in Packets : hand[s] = <<p>>
  BY <1>1
<1>3. Holds(s) = p
  BY <1>2 DEF Holds
<1> QED
  BY <1>1, <1>2, <1>3 DEF TypeInv, OwnSlice, PacketsOf

LEMMA EnqueueTypeInv ==
    ASSUME TypeInv, NEW f \in Flows, Enqueue(f)
    PROVE  TypeInv'
<1>0. TypeOK /\ OwnSlice /\ Starts(f) /\ Acked(Due(f))
  BY DEF TypeInv, Enqueue
<1>1. /\ Due(f) \in PacketsOf(SliceOf[f]) /\ Due(f) \in Packets
      /\ SliceOf[f] \in Slices
      /\ next' \in [Flows -> Nat \ {0}]
      /\ \A g \in Flows : next'[g] <= Sends[g] + 1
  BY <1>0, DueFacts
<1>2. acks' \subseteq Packets \X {OK}
  BY <1>0, <1>1, AckedType
<1> DEFINE t == SliceOf[f]
<1>3. /\ queue \in [Slices -> Seq(Packets)]
      /\ queue[t] \in Seq(PacketsOf(t)) /\ queue[t] \in Seq(Packets)
      /\ Len(queue[t]) < QueueSize /\ QueueSize \in Nat
      /\ queue' = [queue EXCEPT ![t] = Append(queue[t], Due(f))]
  BY <1>0, <1>1, PipelineAssumption DEF TypeOK, OwnSlice, Enqueue
<1>4. /\ Append(queue[t], Due(f)) \in Seq(PacketsOf(t))
      /\ Append(queue[t], Due(f)) \in Seq(Packets)
      /\ Len(Append(queue[t], Due(f))) <= QueueSize
  BY <1>1, <1>3, AppendProperties, LenProperties
<1> HIDE DEF t
<1>5. /\ queue' \in [Slices -> Seq(Packets)]
      /\ \A s \in Slices : Len(queue'[s]) <= QueueSize
      /\ \A s \in Slices : queue'[s] \in Seq(PacketsOf(s))
  BY <1>0, <1>1, <1>3, <1>4 DEF TypeOK, OwnSlice, t
<1>6. UNCHANGED <<stage, hand, results, blocked, delivered, dropped, recorded, closed>>
  BY DEF Enqueue
<1> QED
  BY <1>0, <1>1, <1>2, <1>5, <1>6 DEF TypeInv, TypeOK, OwnSlice, Holds

LEMMA OverflowTypeInv ==
    ASSUME TypeInv, NEW f \in Flows, Overflow(f)
    PROVE  TypeInv'
<1>0. TypeOK /\ OwnSlice /\ Starts(f)
  BY DEF TypeInv, Overflow
<1>1. /\ Due(f) \in Packets
      /\ SliceOf[f] \in Slices
      /\ next' \in [Flows -> Nat \ {0}]
      /\ \A g \in Flows : next'[g] <= Sends[g] + 1
  BY <1>0, DueFacts
<1>2. UNCHANGED <<queue, stage, hand, delivered, recorded, closed>>
  BY DEF Overflow
<1>3. dropped' \in [Slices -> Nat]
  BY <1>0, <1>1 DEF Overflow, TypeOK
<1>4. /\ results' \in Seq(Reports) /\ Len(results') <= ResultsSize
      /\ blocked' \subseteq Packets /\ IsFiniteSet(blocked')
      /\ acks' \subseteq Packets \X {OK}
  <2>1. CASE Room /\ Put(Due(f), TRUE) /\ Acked(Due(f)) /\ UNCHANGED blocked
    BY <1>0, <1>1, <2>1, PutFacts, AckedType DEF TypeOK, OwnSlice
  <2>2. CASE ~Room /\ blocked' = blocked \union {Due(f)} /\ UNCHANGED <<results, acks>>
    BY <1>0, <1>1, <2>2, FS_AddElement DEF TypeOK, OwnSlice
  <2> QED
    BY <2>1, <2>2 DEF Overflow
<1> QED
  BY <1>0, <1>1, <1>2, <1>3, <1>4 DEF TypeInv, TypeOK, OwnSlice, Holds

LEMMA ResumeTypeInv ==
    ASSUME TypeInv, NEW p \in Packets, Resume(p)
    PROVE  TypeInv'
<1>0. TypeOK /\ OwnSlice /\ Room /\ Put(p, TRUE) /\ Acked(p)
      /\ blocked' = blocked \ {p}
      /\ UNCHANGED <<next, queue, stage, hand, delivered, dropped, recorded, closed>>
  BY DEF TypeInv, Resume
<1>1. /\ results' \in Seq(Reports) /\ Len(results') <= ResultsSize
      /\ acks' \subseteq Packets \X {OK}
  BY <1>0, PutFacts, AckedType
<1>2. IsFiniteSet(blocked') /\ blocked' \subseteq Packets
  BY <1>0, FS_RemoveElement DEF OwnSlice, TypeOK
<1> QED
  BY <1>0, <1>1, <1>2 DEF TypeInv, TypeOK, OwnSlice, Holds

LEMMA FetchTypeInv ==
    ASSUME TypeInv, NEW s \in Slices, Fetch(s)
    PROVE  TypeInv'
<1>0. TypeOK /\ OwnSlice
  BY DEF TypeInv
<1>1. /\ queue \in [Slices -> Seq(Packets)]
      /\ queue[s] \in Seq(PacketsOf(s)) /\ queue[s] \in Seq(Packets)
      /\ queue[s] # <<>> /\ Len(queue[s]) <= QueueSize /\ QueueSize \in Nat
      /\ hand' = [hand EXCEPT ![s] = <<Head(queue[s])>>]
      /\ queue' = [queue EXCEPT ![s] = Tail(queue[s])]
      /\ stage' = [stage EXCEPT ![s] = "taken"]
      /\ UNCHANGED <<next, results, blocked, delivered, dropped, recorded, acks, closed>>
  BY <1>0, PipelineAssumption DEF TypeOK, OwnSlice, Fetch, MoveTo
<1>2. /\ Head(queue[s]) \in PacketsOf(s) /\ Head(queue[s]) \in Packets
      /\ Tail(queue[s]) \in Seq(PacketsOf(s)) /\ Tail(queue[s]) \in Seq(Packets)
      /\ Len(Tail(queue[s])) <= QueueSize
  BY <1>1, HeadTailProperties, LenProperties
<1>3. /\ queue' \in [Slices -> Seq(Packets)]
      /\ \A t \in Slices : Len(queue'[t]) <= QueueSize
      /\ \A t \in Slices : queue'[t] \in Seq(PacketsOf(t))
  BY <1>0, <1>1, <1>2 DEF TypeOK, OwnSlice
<1>4. /\ stage' \in [Slices -> Stages]
      /\ hand' \in [Slices -> {<<>>} \union {<<p>> : p \in Packets}]
      /\ \A t \in Slices : hand'[t] = <<>> <=> stage'[t] = "idle"
      /\ \A t \in Slices : hand'[t] # <<>> => hand'[t][1] \in PacketsOf(t)
  BY <1>0, <1>1, <1>2 DEF TypeOK, OwnSlice, Stages, Holds
<1> QED
  BY <1>0, <1>1, <1>3, <1>4 DEF TypeInv, TypeOK, OwnSlice, Holds

LEMMA ConcludeTypeInv ==
    ASSUME TypeInv, NEW s \in Slices, stage[s] # "idle", NEW d \in BOOLEAN,
           Conclude(s, d), recorded' = recorded
    PROVE  /\ results' \in Seq(Reports) /\ Len(results') <= ResultsSize
           /\ stage' \in [Slices -> Stages]
           /\ hand' \in [Slices -> {<<>>} \union {<<p>> : p \in Packets}]
           /\ \A t \in Slices : hand'[t] = <<>> <=> stage'[t] = "idle"
           /\ \A t \in Slices : hand'[t] # <<>> => hand'[t][1] \in PacketsOf(t)
<1>0. TypeOK /\ OwnSlice /\ Holds(s) \in Packets
  BY HoldsFacts DEF TypeInv
<1>1. CASE Room /\ Put(Holds(s), d) /\ hand' = [hand EXCEPT ![s] = <<>>]
           /\ MoveTo(s, "idle")
  <2>1. results' \in Seq(Reports) /\ Len(results') <= ResultsSize
    BY <1>0, <1>1, PutFacts
  <2> QED
    BY <1>0, <1>1, <2>1 DEF TypeOK, OwnSlice, Stages, Holds, MoveTo
<1>2. CASE ~Room /\ MoveTo(s, IF d THEN "lost" ELSE "late") /\ UNCHANGED <<results, hand>>
  BY <1>0, <1>2 DEF TypeOK, OwnSlice, Stages, Holds, MoveTo
<1> QED
  BY <1>1, <1>2 DEF Conclude

LEMMA WorkTypeInv ==
    ASSUME TypeInv, NEW s \in Slices, Work(s)
    PROVE  TypeInv'
<1>0. TypeOK /\ OwnSlice
  BY DEF TypeInv
<1>1. CASE Fetch(s)
  BY <1>1, FetchTypeInv
<1>2. CASE Admit(s)
  BY <1>0, <1>2 DEF Admit, MoveTo, TypeInv, TypeOK, OwnSlice, Stages, Holds
<1>3. CASE Refuse(s)
  <2>1. /\ stage[s] # "idle" /\ Conclude(s, TRUE)
        /\ dropped' = [dropped EXCEPT ![s] = @ + 1]
        /\ UNCHANGED <<next, queue, blocked, delivered, recorded, acks, closed>>
    BY <1>3 DEF Refuse
  <2>2. dropped' \in [Slices -> Nat]
    BY <1>0, <2>1 DEF TypeOK
  <2> QED
    BY <1>0, <2>1, <2>2, ConcludeTypeInv DEF TypeInv, TypeOK, OwnSlice, Holds
<1>4. CASE Deliver(s)
  <2>1. /\ stage[s] # "idle" /\ Conclude(s, FALSE)
        /\ delivered' = [delivered EXCEPT ![s] = @ + 1]
        /\ UNCHANGED <<next, queue, blocked, dropped, recorded, acks, closed>>
    BY <1>4 DEF Deliver
  <2>2. delivered' \in [Slices -> Nat]
    BY <1>0, <2>1 DEF TypeOK
  <2> QED
    BY <1>0, <2>1, <2>2, ConcludeTypeInv DEF TypeInv, TypeOK, OwnSlice, Holds
<1>5. CASE PutReport(s)
  <2>1. /\ stage[s] # "idle" /\ (stage[s] = "lost") \in BOOLEAN
        /\ Conclude(s, stage[s] = "lost")
        /\ UNCHANGED <<next, queue, blocked, delivered, dropped, recorded, acks, closed>>
    BY <1>5 DEF PutReport, Conclude
  <2> QED
    BY <1>0, <2>1, ConcludeTypeInv DEF TypeInv, TypeOK, OwnSlice, Holds
<1> QED
  BY <1>1, <1>2, <1>3, <1>4, <1>5 DEF Work

LEMMA NextTypeInv == TypeInv /\ [Next]_vars => TypeInv'
<1> SUFFICES ASSUME TypeInv, [Next]_vars PROVE TypeInv'
  OBVIOUS
<1>1. CASE \E f \in Flows : Enqueue(f)
  BY <1>1, EnqueueTypeInv
<1>2. CASE \E f \in Flows : Overflow(f)
  BY <1>2, OverflowTypeInv
<1>3. CASE \E f \in Flows : Disconnect(f)
  BY <1>3 DEF Disconnect, TypeInv, TypeOK, OwnSlice, Holds
<1>4. CASE \E p \in Packets : Resume(p)
  BY <1>4, ResumeTypeInv
<1>5. CASE \E s \in Slices : Work(s)
  BY <1>5, WorkTypeInv
<1>6. CASE Record
  <2>1. TypeOK
    BY DEF TypeInv
  <2>2. UNCHANGED <<next, queue, stage, hand, blocked, delivered, dropped, acks, closed>>
    BY <1>6 DEF Record
  <2> QED
    BY <1>6, <2>1, <2>2, RecordFacts DEF TypeInv, TypeOK, OwnSlice, Holds
<1>7. CASE UNCHANGED vars
  BY <1>7 DEF vars, TypeInv, TypeOK, OwnSlice, Holds
<1> QED
  BY <1>1, <1>2, <1>3, <1>4, <1>5, <1>6, <1>7 DEF Next

(* Whatever the handlers, the workers and the consumer do, the state keeps its
   types, and every packet waits and is served in the slice of its flow. *)
THEOREM TypeInvariance == Spec => []TypeInv
  BY InitTypeInv, NextTypeInv, PTL DEF Spec

(* In particular no queue outgrows its bound, and a worker holds a packet
   exactly while it is not waiting for one. *)
THEOREM TypeCorrect == Spec => []TypeOK
<1>1. TypeInv => TypeOK
  BY DEF TypeInv
<1> QED
  BY <1>1, TypeInvariance, PTL

-----------------------------------------------------------------------------
Hit(q, p) == IF q = p THEN 1 ELSE 0

LEMMA JournalType == TypeOK => Journal \in Seq(Reports)
  BY ConcatProperties DEF TypeOK, Journal

LEMMA SuspendedIs ==
    \A p : Suspended(p) = (IF p \in blocked THEN 1 ELSE 0)
<1> TAKE p
<1>1. CASE p \in blocked
  <2>1. blocked \intersect {p} = {p}
    BY <1>1
  <2> QED
    BY <1>1, <2>1, FS_Singleton DEF Suspended
<1>2. CASE p \notin blocked
  <2>1. blocked \intersect {p} = {}
    BY <1>2
  <2> QED
    BY <1>2, <2>1, FS_EmptySet DEF Suspended
<1> QED
  BY <1>1, <1>2

LEMMA CopiesTypes ==
    ASSUME TypeInv, NEW p \in Packets
    PROVE  Queued(p) \in Nat /\ InHand(p) \in Nat /\ Suspended(p) \in Nat /\ Reported(p) \in Nat
<1>0. SliceFor[p] \in Slices /\ TypeOK /\ OwnSlice
  BY SliceForType DEF TypeInv
<1>1. Queued(p) \in Nat
  <2>1. queue[SliceFor[p]] \in Seq(Packets)
    BY <1>0 DEF TypeOK
  <2> QED
    BY <2>1, CountType DEF Queued
<1>2. InHand(p) \in Nat
  <2>1. hand[SliceFor[p]] = <<>> \/ \E q \in Packets : hand[SliceFor[p]] = <<q>>
    BY <1>0 DEF TypeOK
  <2>2. CASE hand[SliceFor[p]] = <<>>
    BY <2>2, CountNone DEF InHand
  <2>3. CASE \E q \in Packets : hand[SliceFor[p]] = <<q>>
    <3>1. PICK q \in Packets : hand[SliceFor[p]] = <<q>>
      BY <2>3
    <3>2. InHand(p) = Count({p}, <<q>>)
      BY <3>1 DEF InHand
    <3> QED
      BY <3>2, CountOne
  <2> QED
    BY <2>1, <2>2, <2>3
<1>3. Suspended(p) \in Nat
  BY SuspendedIs
<1>4. Reported(p) \in Nat
  BY <1>0, JournalType, CountType DEF Reported
<1> QED
  BY <1>1, <1>2, <1>3, <1>4

LEMMA ReportedAfterPut ==
    ASSUME TypeOK, Room, NEW q \in Packets, NEW d \in BOOLEAN, Put(q, d),
           recorded' = recorded, NEW p \in Packets
    PROVE  Reported(p)' = Reported(p) + Hit(q, p)
<1>1. Journal' = Append(Journal, Report(q, d)) /\ Report(q, d) \in Reports
  BY PutFacts
<1>2. Count(AnyReportOf(p), Append(Journal, Report(q, d))) =
        Count(AnyReportOf(p), Journal)
          + (IF Report(q, d) \in AnyReportOf(p) THEN 1 ELSE 0)
  BY <1>1, JournalType, CountAppend
<1>3. Report(q, d) \in AnyReportOf(p) <=> q = p
  BY DEF Report, AnyReportOf
<1>4. Reported(p)' = Count(AnyReportOf(p), Append(Journal, Report(q, d)))
  BY <1>1 DEF Reported, Count, AnyReportOf
<1> QED
  BY <1>2, <1>3, <1>4 DEF Reported, Hit

LEMMA InHandAfter ==
    ASSUME TypeInv, NEW s \in Slices, NEW p \in Packets, stage[s] # "idle",
           hand' = [hand EXCEPT ![s] = <<>>]
    PROVE  InHand(p) = InHand(p)' + Hit(Holds(s), p)
<1>0. /\ hand[s] = <<Holds(s)>> /\ SliceFor[Holds(s)] = s /\ SliceFor[p] \in Slices
      /\ hand \in [Slices -> {<<>>} \union {<<q>> : q \in Packets}]
  BY HoldsFacts, SliceForType DEF TypeInv, TypeOK
<1>1. InHand(p)' = Count({p}, hand'[SliceFor[p]])
  BY DEF InHand, Count
<1>2. InHand(p) = Count({p}, hand[SliceFor[p]])
  BY DEF InHand
<1>3. CASE SliceFor[p] = s
  <2>1. InHand(p)' = 0
    BY <1>0, <1>1, <1>3, CountNone
  <2>2. InHand(p) = Count({p}, <<Holds(s)>>)
    BY <1>0, <1>2, <1>3
  <2>3. InHand(p) = IF Holds(s) \in {p} THEN 1 ELSE 0
    BY <2>2, CountOne
  <2> QED
    BY <2>1, <2>3 DEF Hit
<1>4. CASE SliceFor[p] # s
  <2>1. InHand(p)' = InHand(p) /\ InHand(p) \in Nat
    BY <1>0, <1>1, <1>2, <1>4, CopiesTypes
  <2>2. Holds(s) # p
    BY <1>0, <1>4
  <2> QED
    BY <2>1, <2>2 DEF Hit
<1> QED
  BY <1>3, <1>4

LEMMA SuspendedIsNext ==
    \A p : Suspended(p)' = (IF p \in blocked' THEN 1 ELSE 0)
<1> TAKE p
<1>1. CASE p \in blocked'
  <2>1. blocked' \intersect {p} = {p}
    BY <1>1
  <2> QED
    BY <1>1, <2>1, FS_Singleton DEF Suspended
<1>2. CASE p \notin blocked'
  <2>1. blocked' \intersect {p} = {}
    BY <1>2
  <2> QED
    BY <1>2, <2>1, FS_EmptySet DEF Suspended
<1> QED
  BY <1>1, <1>2

LEMMA Unmoved ==
    /\ queue' = queue => \A p \in Packets : Queued(p)' = Queued(p)
    /\ hand' = hand => \A p \in Packets : InHand(p)' = InHand(p)
    /\ blocked' = blocked => \A p \in Packets : Suspended(p)' = Suspended(p)
    /\ Journal' = Journal => \A p \in Packets : Reported(p)' = Reported(p)
    /\ next' = next => \A p \in Packets : Arrived(p)' = Arrived(p)
  BY DEF Queued, InHand, Suspended, Reported, Arrived, Count, AnyReportOf

LEMMA SameJournal == results' = results /\ recorded' = recorded => Journal' = Journal
  BY DEF Journal

LEMMA InitOnePlace == Init => OnePlace
<1> SUFFICES ASSUME Init, NEW p \in Packets
             PROVE  Copies(p) = IF Arrived(p) THEN 1 ELSE 0
  BY DEF OnePlace
<1>1. p[1] \in Flows /\ p[2] \in 1 .. Sends[p[1]] /\ SliceFor[p] \in Slices
  BY PacketShape, SliceForType
<1>2. ~Arrived(p)
  BY <1>1, PipelineAssumption DEF Init, Arrived
<1>3. Journal = <<>>
  BY ConcatEmptySeq, EmptySeq DEF Init, Journal
<1>4. Suspended(p) = 0
  BY SuspendedIs DEF Init
<1>5. Queued(p) = 0 /\ InHand(p) = 0 /\ Reported(p) = 0
  BY <1>1, <1>3, CountNone DEF Init, Queued, InHand, Reported
<1> QED
  BY <1>2, <1>4, <1>5 DEF Copies

LEMMA EnqueueOnePlace ==
    ASSUME TypeInv, OnePlace, NEW f \in Flows, Enqueue(f), NEW p \in Packets
    PROVE  Copies(p)' = IF Arrived(p)' THEN 1 ELSE 0
<1>0. TypeOK /\ OwnSlice /\ Starts(f)
  BY DEF TypeInv, Enqueue
<1>1. /\ Due(f) \in Packets /\ SliceFor[Due(f)] = SliceOf[f] /\ ~Arrived(Due(f))
      /\ SliceOf[f] \in Slices
      /\ Arrived(p)' <=> Arrived(p) \/ p = Due(f)
  BY <1>0, DueFacts
<1>2. /\ UNCHANGED <<hand, results, blocked, recorded>>
      /\ queue' = [queue EXCEPT ![SliceOf[f]] = Append(queue[SliceOf[f]], Due(f))]
      /\ queue \in [Slices -> Seq(Packets)]
      /\ SliceFor[p] \in Slices
  BY <1>0, SliceForType DEF Enqueue, TypeOK
<1>3. InHand(p)' = InHand(p) /\ Suspended(p)' = Suspended(p) /\ Reported(p)' = Reported(p)
  BY <1>2, Unmoved, SameJournal
<1>4. Queued(p)' = Queued(p) + Hit(Due(f), p)
  <2>1. Queued(p)' = Count({p}, queue'[SliceFor[p]])
    BY DEF Queued, Count
  <2>2. CASE SliceFor[p] = SliceOf[f]
    <3>1. queue'[SliceFor[p]] = Append(queue[SliceFor[p]], Due(f))
      BY <1>2, <2>2
    <3>2. queue[SliceFor[p]] \in Seq(Packets)
      BY <1>2
    <3>3. Count({p}, Append(queue[SliceFor[p]], Due(f))) =
            Count({p}, queue[SliceFor[p]]) + (IF Due(f) \in {p} THEN 1 ELSE 0)
      BY <1>1, <3>2, CountAppend
    <3> QED
      BY <2>1, <3>1, <3>3 DEF Queued, Hit
  <2>3. CASE SliceFor[p] # SliceOf[f]
    <3>1. queue'[SliceFor[p]] = queue[SliceFor[p]]
      BY <1>2, <2>3
    <3>2. Queued(p)' = Queued(p) /\ Queued(p) \in Nat
      BY <2>1, <3>1, CopiesTypes DEF Queued
    <3> QED
      BY <1>1, <2>3, <3>2 DEF Hit
  <2> QED
    BY <2>2, <2>3
<1>5. Copies(p) = (IF Arrived(p) THEN 1 ELSE 0)
  BY DEF OnePlace
<1> QED
  BY <1>1, <1>3, <1>4, <1>5, CopiesTypes DEF Copies, Hit

LEMMA OverflowOnePlace ==
    ASSUME TypeInv, OnePlace, NEW f \in Flows, Overflow(f), NEW p \in Packets
    PROVE  Copies(p)' = IF Arrived(p)' THEN 1 ELSE 0
<1>0. TypeOK /\ OwnSlice /\ Starts(f) /\ UNCHANGED <<queue, hand, recorded>>
  BY DEF TypeInv, Overflow
<1>1. /\ Due(f) \in Packets /\ ~Arrived(Due(f))
      /\ Arrived(p)' <=> Arrived(p) \/ p = Due(f)
  BY <1>0, DueFacts
<1>2. Queued(p)' = Queued(p) /\ InHand(p)' = InHand(p)
  BY <1>0, Unmoved
<1>3. /\ Copies(p) = (IF Arrived(p) THEN 1 ELSE 0)
      /\ Copies(Due(f)) = 0
  BY <1>1 DEF OnePlace
<1>4. Suspended(p)' + Reported(p)' = Suspended(p) + Reported(p) + Hit(Due(f), p)
  <2>1. CASE Room /\ Put(Due(f), TRUE) /\ UNCHANGED blocked
    <3>1. Reported(p)' = Reported(p) + Hit(Due(f), p)
      BY <1>0, <1>1, <2>1, ReportedAfterPut
    <3>2. Suspended(p)' = Suspended(p)
      BY <2>1, Unmoved
    <3> QED
      BY <3>1, <3>2, CopiesTypes DEF Hit
  <2>2. CASE blocked' = blocked \union {Due(f)} /\ UNCHANGED results
    <3>1. Reported(p)' = Reported(p)
      BY <1>0, <2>2, Unmoved, SameJournal
    <3>2. Due(f) \notin blocked
      BY <1>1, <1>3, CopiesTypes, SuspendedIs DEF Copies
    <3>3. Suspended(p)' = Suspended(p) + Hit(Due(f), p)
      BY <2>2, <3>2, SuspendedIs, SuspendedIsNext DEF Hit
    <3> QED
      BY <3>1, <3>3, CopiesTypes DEF Hit
  <2> QED
    BY <2>1, <2>2 DEF Overflow
<1>5. Suspended(p)' \in Nat /\ Reported(p)' \in Nat
  <2>1. TypeInv'
    BY OverflowTypeInv
  <2>2. Suspended(p)' \in Nat
    BY SuspendedIsNext
  <2>3. Journal' \in Seq(Reports)
    BY <2>1, ConcatProperties DEF TypeInv, TypeOK, Journal, Reports
  <2>4. Count(AnyReportOf(p), Journal') \in Nat
    BY <2>3, CountType
  <2> QED
    BY <2>2, <2>4 DEF Reported, Count, AnyReportOf
<1> QED
  BY <1>1, <1>2, <1>3, <1>4, <1>5, CopiesTypes DEF Copies, Hit

LEMMA ResumeOnePlace ==
    ASSUME TypeInv, OnePlace, NEW q \in Packets, Resume(q), NEW p \in Packets
    PROVE  Copies(p)' = IF Arrived(p)' THEN 1 ELSE 0
<1>0. /\ TypeOK /\ Room /\ Put(q, TRUE) /\ q \in blocked /\ blocked' = blocked \ {q}
      /\ UNCHANGED <<next, queue, hand, recorded>>
  BY DEF TypeInv, Resume
<1>1. Queued(p)' = Queued(p) /\ InHand(p)' = InHand(p) /\ Arrived(p)' = Arrived(p)
  BY <1>0, Unmoved
<1>2. Reported(p)' = Reported(p) + Hit(q, p)
  BY <1>0, ReportedAfterPut
<1>3. Suspended(p)' = Suspended(p) - Hit(q, p)
  BY <1>0, SuspendedIs, SuspendedIsNext DEF Hit
<1>4. Copies(p) = (IF Arrived(p) THEN 1 ELSE 0)
  BY DEF OnePlace
<1> QED
  BY <1>1, <1>2, <1>3, <1>4, CopiesTypes DEF Copies, Hit

LEMMA FetchOnePlace ==
    ASSUME TypeInv, OnePlace, NEW s \in Slices, Fetch(s), NEW p \in Packets
    PROVE  Copies(p)' = IF Arrived(p)' THEN 1 ELSE 0
<1>0. /\ TypeOK /\ OwnSlice
      /\ queue[s] # <<>> /\ hand[s] = <<>>
      /\ hand' = [hand EXCEPT ![s] = <<Head(queue[s])>>]
      /\ queue' = [queue EXCEPT ![s] = Tail(queue[s])]
      /\ UNCHANGED <<next, results, blocked, recorded>>
  BY DEF TypeInv, TypeOK, Fetch
<1>1. /\ queue[s] \in Seq(PacketsOf(s)) /\ SliceFor[p] \in Slices
      /\ queue \in [Slices -> Seq(Packets)]
      /\ hand \in [Slices -> {<<>>} \union {<<q>> : q \in Packets}]
  BY <1>0, SliceForType DEF OwnSlice, TypeOK
<1>2. Head(queue[s]) \in PacketsOf(s)
  BY <1>0, <1>1, HeadTailProperties
<1>3. Suspended(p)' = Suspended(p) /\ Reported(p)' = Reported(p) /\ Arrived(p)' = Arrived(p)
  BY <1>0, Unmoved, SameJournal
<1>4. Queued(p)' + InHand(p)' = Queued(p) + InHand(p)
  <2>1. /\ Queued(p)' = Count({p}, queue'[SliceFor[p]])
        /\ InHand(p)' = Count({p}, hand'[SliceFor[p]])
    BY DEF Queued, InHand, Count
  <2>2. CASE SliceFor[p] = s
    <3>1. Count({p}, queue[s]) =
            Count({p}, Tail(queue[s])) + (IF Head(queue[s]) \in {p} THEN 1 ELSE 0)
      BY <1>0, <1>1, CountHead
    <3>2. Count({p}, <<Head(queue[s])>>) = (IF Head(queue[s]) \in {p} THEN 1 ELSE 0)
      BY CountOne
    <3>3. queue'[s] = Tail(queue[s]) /\ hand'[s] = <<Head(queue[s])>>
      BY <1>0, <1>1, <2>2
    <3>4. InHand(p) = 0
      BY <1>0, <2>2, CountNone DEF InHand
    <3>5. Queued(p) = Count({p}, queue[s])
      BY <2>2 DEF Queued
    <3>6. Queued(p)' = Count({p}, Tail(queue[s])) /\ InHand(p)' = Count({p}, <<Head(queue[s])>>)
      BY <2>1, <2>2, <3>3
    <3>7. Count({p}, Tail(queue[s])) \in Nat
      <4>1. Tail(queue[s]) \in Seq(PacketsOf(s))
        BY <1>0, <1>1, HeadTailProperties
      <4> QED
        BY <4>1, CountType
    <3> QED
      BY <3>1, <3>2, <3>4, <3>5, <3>6, <3>7
  <2>3. CASE SliceFor[p] # s
    <3>1. queue'[SliceFor[p]] = queue[SliceFor[p]] /\ hand'[SliceFor[p]] = hand[SliceFor[p]]
      BY <1>0, <1>1, <2>3
    <3> QED
      BY <2>1, <3>1 DEF Queued, InHand
  <2> QED
    BY <2>2, <2>3
<1>5. Copies(p) = (IF Arrived(p) THEN 1 ELSE 0)
  BY DEF OnePlace
<1>6. TypeInv'
  BY FetchTypeInv
<1>7. Queued(p)' \in Nat /\ InHand(p)' \in Nat
  <2>1. queue'[SliceFor[p]] \in Seq(Packets)
    BY <1>1, <1>6 DEF TypeInv, TypeOK
  <2>2. Count({p}, queue'[SliceFor[p]]) \in Nat
    BY <2>1, CountType
  <2>3. hand'[SliceFor[p]] = <<>> \/ \E q \in Packets : hand'[SliceFor[p]] = <<q>>
    BY <1>1, <1>6 DEF TypeInv, TypeOK
  <2>4. Count({p}, hand'[SliceFor[p]]) \in Nat
    <3>1. CASE hand'[SliceFor[p]] = <<>>
      BY <3>1, CountNone
    <3>2. CASE \E q \in Packets : hand'[SliceFor[p]] = <<q>>
      <4>1. PICK q \in Packets : hand'[SliceFor[p]] = <<q>>
        BY <3>2
      <4>2. Count({p}, <<q>>) \in Nat
        BY CountOne
      <4> QED
        BY <4>1, <4>2
    <3> QED
      BY <2>3, <3>1, <3>2
  <2> QED
    BY <2>2, <2>4 DEF Queued, InHand, Count
<1> QED
  BY <1>3, <1>4, <1>5, <1>7, CopiesTypes DEF Copies

LEMMA ConcludeOnePlace ==
    ASSUME TypeInv, OnePlace, NEW s \in Slices, NEW d \in BOOLEAN, Conclude(s, d),
           stage[s] # "idle", UNCHANGED <<next, queue, blocked, recorded>>,
           NEW p \in Packets
    PROVE  Copies(p)' = IF Arrived(p)' THEN 1 ELSE 0
<1>0. TypeOK /\ Holds(s) \in Packets
  BY HoldsFacts DEF TypeInv
<1>1. Queued(p)' = Queued(p) /\ Suspended(p)' = Suspended(p) /\ Arrived(p)' = Arrived(p)
  BY Unmoved
<1>2. Copies(p) = (IF Arrived(p) THEN 1 ELSE 0)
  BY DEF OnePlace
<1>3. CASE Room /\ Put(Holds(s), d) /\ hand' = [hand EXCEPT ![s] = <<>>]
  <2>1. Reported(p)' = Reported(p) + Hit(Holds(s), p)
    BY <1>0, <1>3, ReportedAfterPut
  <2>2. InHand(p) = InHand(p)' + Hit(Holds(s), p)
    BY <1>3, InHandAfter
  <2>3. InHand(p)' \in Nat
    <3>1. SliceFor[p] \in Slices /\ hand \in [Slices -> {<<>>} \union {<<q>> : q \in Packets}]
      BY <1>0, SliceForType DEF TypeOK
    <3>2. InHand(p)' = Count({p}, hand'[SliceFor[p]])
      BY DEF InHand, Count
    <3>3. CASE SliceFor[p] = s
      BY <1>3, <3>1, <3>2, <3>3, CountNone
    <3>4. CASE SliceFor[p] # s
      <4>1. InHand(p)' = InHand(p)
        BY <1>3, <3>1, <3>2, <3>4 DEF InHand
      <4> QED
        BY <4>1, CopiesTypes
    <3> QED
      BY <3>3, <3>4
  <2> QED
    BY <1>1, <1>2, <2>1, <2>2, <2>3, CopiesTypes DEF Copies, Hit
<1>4. CASE UNCHANGED <<results, hand>>
  BY <1>1, <1>2, <1>4, Unmoved, SameJournal DEF Copies
<1> QED
  BY <1>3, <1>4 DEF Conclude

LEMMA WorkOnePlace ==
    ASSUME TypeInv, OnePlace, NEW s \in Slices, Work(s), NEW p \in Packets
    PROVE  Copies(p)' = IF Arrived(p)' THEN 1 ELSE 0
<1>1. CASE Fetch(s)
  BY <1>1, FetchOnePlace
<1>2. CASE Admit(s)
  <2>1. UNCHANGED <<next, queue, hand, results, blocked, recorded>>
    BY <1>2 DEF Admit
  <2> QED
    BY <2>1, Unmoved, SameJournal DEF Copies, OnePlace
<1>3. CASE Refuse(s)
  BY <1>3, ConcludeOnePlace DEF Refuse
<1>4. CASE Deliver(s)
  BY <1>4, ConcludeOnePlace DEF Deliver
<1>5. CASE PutReport(s)
  <2>1. /\ Conclude(s, stage[s] = "lost") /\ stage[s] # "idle"
        /\ (stage[s] = "lost") \in BOOLEAN
        /\ UNCHANGED <<next, queue, blocked, recorded>>
    BY <1>5 DEF PutReport, Conclude
  <2> QED
    BY <2>1, ConcludeOnePlace
<1> QED
  BY <1>1, <1>2, <1>3, <1>4, <1>5 DEF Work

LEMMA NextOnePlace == TypeInv /\ OnePlace /\ [Next]_vars => OnePlace'
<1> SUFFICES ASSUME TypeInv, OnePlace, [Next]_vars, NEW p \in Packets
             PROVE  Copies(p)' = IF Arrived(p)' THEN 1 ELSE 0
  BY DEF OnePlace, Packets, Flows
<1>1. CASE \E f \in Flows : Enqueue(f)
  BY <1>1, EnqueueOnePlace
<1>2. CASE \E f \in Flows : Overflow(f)
  BY <1>2, OverflowOnePlace
<1>3. CASE \E q \in Packets : Resume(q)
  BY <1>3, ResumeOnePlace
<1>4. CASE \E s \in Slices : Work(s)
  BY <1>4, WorkOnePlace
<1>5. CASE Record
  <2>1. Journal' = Journal
    BY <1>5, RecordFacts DEF TypeInv
  <2>2. UNCHANGED <<next, queue, hand, blocked>>
    BY <1>5 DEF Record
  <2> QED
    BY <2>1, <2>2, Unmoved DEF Copies, OnePlace
<1>6. CASE (\E f \in Flows : Disconnect(f)) \/ UNCHANGED vars
  <2>1. UNCHANGED <<next, queue, hand, results, blocked, recorded>>
    BY <1>6 DEF Disconnect, vars
  <2> QED
    BY <2>1, Unmoved, SameJournal DEF Copies, OnePlace
<1> QED
  BY <1>1, <1>2, <1>3, <1>4, <1>5, <1>6 DEF Next

(* A handled packet is in exactly one place, in the queue, in service, in the
   hands of a suspended handler or reported, for any sizes of the queues. *)
THEOREM EveryPacketOnePlace == Spec => []OnePlace
<1>1. Init => TypeInv /\ OnePlace
  BY InitTypeInv, InitOnePlace
<1>2. TypeInv /\ OnePlace /\ [Next]_vars => TypeInv' /\ OnePlace'
  BY NextTypeInv, NextOnePlace
<1> QED
  BY <1>1, <1>2, PTL DEF Spec

-----------------------------------------------------------------------------
LEMMA CounterTypes ==
    ASSUME TypeInv, NEW s \in Slices
    PROVE  /\ DeliveredTold(s) \in Nat /\ DroppedTold(s) \in Nat
           /\ Unreported(s) \in Nat
           /\ delivered[s] \in Nat /\ dropped[s] \in Nat
           /\ IsFiniteSet({p \in blocked : SliceFor[p] = s})
<1>0. TypeOK /\ OwnSlice
  BY DEF TypeInv
<1>1. DeliveredTold(s) \in Nat /\ DroppedTold(s) \in Nat
  <2>1. Journal \in Seq(Reports)
    BY <1>0, JournalType
  <2> QED
    BY <2>1, CountType DEF DeliveredTold, DroppedTold
<1>2. {p \in blocked : SliceFor[p] = s} \in SUBSET blocked
  OBVIOUS
<1>3. IsFiniteSet({p \in blocked : SliceFor[p] = s})
  BY <1>0, <1>2, FS_Subset DEF OwnSlice
<1>4. Unreported(s) \in Nat
  BY <1>3, FS_CardinalityType DEF Unreported
<1> QED
  BY <1>0, <1>1, <1>3, <1>4 DEF TypeOK

LEMMA ToldAfterPut ==
    ASSUME TypeOK, Room, NEW q \in Packets, NEW d \in BOOLEAN, Put(q, d),
           recorded' = recorded, NEW s \in Slices
    PROVE  /\ DeliveredTold(s)' = DeliveredTold(s) + (IF SliceFor[q] = s /\ ~d THEN 1 ELSE 0)
           /\ DroppedTold(s)' = DroppedTold(s) + (IF SliceFor[q] = s /\ d THEN 1 ELSE 0)
<1>1. Journal' = Append(Journal, Report(q, d)) /\ Report(q, d) \in Reports
  BY PutFacts
<1>2. ASSUME NEW e \in BOOLEAN
      PROVE  Count(ReportsOf(s, e), Append(Journal, Report(q, d))) =
               Count(ReportsOf(s, e), Journal)
                 + (IF Report(q, d) \in ReportsOf(s, e) THEN 1 ELSE 0)
  BY <1>1, JournalType, CountAppend
<1>3. /\ Report(q, d) \in ReportsOf(s, FALSE) <=> SliceFor[q] = s /\ ~d
      /\ Report(q, d) \in ReportsOf(s, TRUE) <=> SliceFor[q] = s /\ d
  BY <1>1 DEF Report, ReportsOf
<1>4. /\ DeliveredTold(s)' = Count(ReportsOf(s, FALSE), Append(Journal, Report(q, d)))
      /\ DroppedTold(s)' = Count(ReportsOf(s, TRUE), Append(Journal, Report(q, d)))
  BY <1>1 DEF DeliveredTold, DroppedTold, Count, ReportsOf, Reports, Packets, SliceFor, FlowOf
<1>5. DeliveredTold(s)' = DeliveredTold(s) + (IF SliceFor[q] = s /\ ~d THEN 1 ELSE 0)
  <2>1. Count(ReportsOf(s, FALSE), Append(Journal, Report(q, d))) =
               Count(ReportsOf(s, FALSE), Journal)
                 + (IF Report(q, d) \in ReportsOf(s, FALSE) THEN 1 ELSE 0)
    BY <1>2
  <2> QED
    BY <2>1, <1>3, <1>4 DEF DeliveredTold
<1>6. DroppedTold(s)' = DroppedTold(s) + (IF SliceFor[q] = s /\ d THEN 1 ELSE 0)
  <2>1. Count(ReportsOf(s, TRUE), Append(Journal, Report(q, d))) =
               Count(ReportsOf(s, TRUE), Journal)
                 + (IF Report(q, d) \in ReportsOf(s, TRUE) THEN 1 ELSE 0)
    BY <1>2
  <2> QED
    BY <2>1, <1>3, <1>4 DEF DroppedTold
<1> QED
  BY <1>5, <1>6

LEMMA ToldUnmoved ==
    Journal' = Journal =>
        \A s : DeliveredTold(s)' = DeliveredTold(s) /\ DroppedTold(s)' = DroppedTold(s)
  BY DEF DeliveredTold, DroppedTold, Count, ReportsOf, Reports, Packets, SliceFor, FlowOf

LEMMA UnreportedUnmoved ==
    blocked' = blocked => \A s : Unreported(s)' = Unreported(s)
  BY DEF Unreported

LEMMA UnreportedPlus ==
    ASSUME TypeInv, NEW q, q \notin blocked, blocked' = blocked \union {q},
           NEW s \in Slices
    PROVE  Unreported(s)' = Unreported(s) + (IF SliceFor[q] = s THEN 1 ELSE 0)
<1> DEFINE old == {p \in blocked : SliceFor[p] = s}
           new == {p \in blocked' : SliceFor[p] = s}
<1>0. IsFiniteSet(old) /\ Unreported(s) \in Nat
  BY CounterTypes
<1>1. Unreported(s) = Cardinality(old) /\ Unreported(s)' = Cardinality(new)
  BY DEF Unreported
<1>2. CASE SliceFor[q] = s
  <2>1. new = old \union {q} /\ q \notin old
    BY <1>2
  <2>2. Cardinality(old \union {q}) = Cardinality(old) + 1
    BY <1>0, <2>1, FS_AddElement
  <2> HIDE DEF new, old
  <2> QED
    BY <1>1, <1>2, <2>1, <2>2
<1>3. CASE SliceFor[q] # s
  <2>1. new = old
    BY <1>3
  <2> HIDE DEF new, old
  <2> QED
    BY <1>0, <1>1, <1>3, <2>1
<1> QED
  BY <1>2, <1>3

LEMMA UnreportedMinus ==
    ASSUME TypeInv, NEW q, q \in blocked, blocked' = blocked \ {q},
           NEW s \in Slices
    PROVE  Unreported(s)' + (IF SliceFor[q] = s THEN 1 ELSE 0) = Unreported(s)
<1> DEFINE old == {p \in blocked : SliceFor[p] = s}
           new == {p \in blocked' : SliceFor[p] = s}
<1>0. IsFiniteSet(old) /\ Unreported(s) \in Nat
  BY CounterTypes
<1>1. Unreported(s) = Cardinality(old) /\ Unreported(s)' = Cardinality(new)
  BY DEF Unreported
<1>2. CASE SliceFor[q] = s
  <2>1. new = old \ {q} /\ q \in old
    BY <1>2
  <2>2. Cardinality(old \ {q}) = Cardinality(old) - 1
    BY <1>0, <2>1, FS_RemoveElement
  <2> HIDE DEF new, old
  <2> QED
    BY <1>0, <1>1, <1>2, <2>1, <2>2
<1>3. CASE SliceFor[q] # s
  <2>1. new = old
    BY <1>3
  <2> HIDE DEF new, old
  <2> QED
    BY <1>0, <1>1, <1>3, <2>1
<1> QED
  BY <1>2, <1>3

LEMMA InitCounters == Init => CountersMatchReports
<1> SUFFICES ASSUME Init, NEW s \in Slices
             PROVE  /\ delivered[s] = DeliveredTold(s) + StuckAt(s, "late")
                    /\ dropped[s] = DroppedTold(s) + StuckAt(s, "lost") + Unreported(s)
  BY DEF CountersMatchReports
<1>1. Journal = <<>>
  BY ConcatEmptySeq, EmptySeq DEF Init, Journal
<1>2. DeliveredTold(s) = 0 /\ DroppedTold(s) = 0
  BY <1>1, CountNone DEF DeliveredTold, DroppedTold
<1>3. {p \in blocked : SliceFor[p] = s} = {}
  BY DEF Init
<1>4. Unreported(s) = 0
  BY <1>3, FS_EmptySet DEF Unreported
<1> QED
  BY <1>2, <1>4 DEF Init, StuckAt

LEMMA OverflowCounters ==
    ASSUME TypeInv, OnePlace, CountersMatchReports, NEW f \in Flows, Overflow(f),
           NEW s \in Slices
    PROVE  /\ delivered'[s] = DeliveredTold(s)' + StuckAt(s, "late")'
           /\ dropped'[s] = DroppedTold(s)' + StuckAt(s, "lost")' + Unreported(s)'
<1>0. /\ TypeOK /\ Starts(f) /\ UNCHANGED <<stage, delivered, recorded>>
      /\ dropped' = [dropped EXCEPT ![SliceOf[f]] = @ + 1]
  BY DEF TypeInv, Overflow
<1>1. /\ Due(f) \in Packets /\ ~Arrived(Due(f)) /\ SliceFor[Due(f)] = SliceOf[f]
  BY <1>0, DueFacts
<1>2. /\ delivered[s] = DeliveredTold(s) + StuckAt(s, "late")
      /\ dropped[s] = DroppedTold(s) + StuckAt(s, "lost") + Unreported(s)
      /\ StuckAt(s, "late")' = StuckAt(s, "late")
      /\ StuckAt(s, "lost")' = StuckAt(s, "lost")
      /\ StuckAt(s, "late") \in Nat /\ StuckAt(s, "lost") \in Nat
  BY <1>0 DEF CountersMatchReports, StuckAt
<1> DEFINE mine == IF SliceOf[f] = s THEN 1 ELSE 0
<1>3. dropped'[s] = dropped[s] + mine
  BY <1>0, CounterTypes DEF TypeOK, TypeInv
<1>4. CASE Room /\ Put(Due(f), TRUE) /\ UNCHANGED blocked
  <2>1. /\ DroppedTold(s)' = DroppedTold(s) + mine
        /\ DeliveredTold(s)' = DeliveredTold(s)
    <3>1. /\ DeliveredTold(s)' = DeliveredTold(s) + (IF SliceFor[Due(f)] = s /\ ~TRUE THEN 1 ELSE 0)
          /\ DroppedTold(s)' = DroppedTold(s) + (IF SliceFor[Due(f)] = s /\ TRUE THEN 1 ELSE 0)
      BY <1>0, <1>1, <1>4, ToldAfterPut
    <3>2. DeliveredTold(s) \in Nat
      BY CounterTypes
    <3> QED
      BY <1>1, <3>1, <3>2
  <2>2. Unreported(s)' = Unreported(s)
    BY <1>4, UnreportedUnmoved
  <2>3. delivered'[s] = DeliveredTold(s)' + StuckAt(s, "late")'
    <3>1. delivered'[s] = delivered[s]
      BY <1>0
    <3> QED
      BY <1>2, <2>1, <3>1
  <2>4. dropped'[s] = DroppedTold(s)' + StuckAt(s, "lost")' + Unreported(s)'
    <3>1. mine \in Nat
      OBVIOUS
    <3> HIDE DEF mine
    <3>2. DroppedTold(s) \in Nat /\ Unreported(s) \in Nat /\ StuckAt(s, "lost") \in Nat
      BY CounterTypes, <1>2
    <3>3. dropped'[s] = DroppedTold(s) + StuckAt(s, "lost") + Unreported(s) + mine
      BY <1>2, <1>3
    <3>4. DroppedTold(s)' = DroppedTold(s) + mine /\ Unreported(s)' = Unreported(s)
      BY <2>1, <2>2
    <3>5. StuckAt(s, "lost")' = StuckAt(s, "lost")
      BY <1>2
    <3> QED
      BY <3>1, <3>2, <3>3, <3>4, <3>5
  <2> QED
    BY <2>3, <2>4
<1>5. CASE blocked' = blocked \union {Due(f)} /\ UNCHANGED results
  <2>1. DroppedTold(s)' = DroppedTold(s) /\ DeliveredTold(s)' = DeliveredTold(s)
    BY <1>0, <1>5, ToldUnmoved, SameJournal
  <2>2. Copies(Due(f)) = 0
    BY <1>1 DEF OnePlace
  <2>3. Due(f) \notin blocked
    BY <1>1, <2>2, CopiesTypes, SuspendedIs DEF Copies
  <2>4. Unreported(s)' = Unreported(s) + (IF SliceFor[Due(f)] = s THEN 1 ELSE 0)
    BY <1>5, <2>3, UnreportedPlus
  <2>5. delivered'[s] = DeliveredTold(s)' + StuckAt(s, "late")'
    BY <1>0, <1>2, <2>1
  <2>6. dropped'[s] = DroppedTold(s)' + StuckAt(s, "lost")' + Unreported(s)'
    <3>1. mine \in Nat
      OBVIOUS
    <3>4. Unreported(s)' = Unreported(s) + mine
      BY <1>1, <2>4
    <3> HIDE DEF mine
    <3>2. DroppedTold(s) \in Nat /\ Unreported(s) \in Nat /\ StuckAt(s, "lost") \in Nat
      BY CounterTypes, <1>2
    <3>3. dropped'[s] = DroppedTold(s) + StuckAt(s, "lost") + Unreported(s) + mine
      BY <1>2, <1>3
    <3> QED
      BY <1>2, <2>1, <3>1, <3>2, <3>3, <3>4
  <2> QED
    BY <2>5, <2>6
<1> QED
  BY <1>4, <1>5 DEF Overflow

LEMMA ResumeCounters ==
    ASSUME TypeInv, CountersMatchReports, NEW q \in Packets, Resume(q), NEW s \in Slices
    PROVE  /\ delivered'[s] = DeliveredTold(s)' + StuckAt(s, "late")'
           /\ dropped'[s] = DroppedTold(s)' + StuckAt(s, "lost")' + Unreported(s)'
<1>0. /\ TypeOK /\ Room /\ Put(q, TRUE) /\ q \in blocked /\ blocked' = blocked \ {q}
      /\ UNCHANGED <<stage, delivered, dropped, recorded>>
  BY DEF TypeInv, Resume
<1>1. /\ delivered[s] = DeliveredTold(s) + StuckAt(s, "late")
      /\ dropped[s] = DroppedTold(s) + StuckAt(s, "lost") + Unreported(s)
      /\ StuckAt(s, "late")' = StuckAt(s, "late")
      /\ StuckAt(s, "lost")' = StuckAt(s, "lost")
      /\ StuckAt(s, "late") \in Nat /\ StuckAt(s, "lost") \in Nat
  BY <1>0 DEF CountersMatchReports, StuckAt
<1> DEFINE mine == IF SliceFor[q] = s THEN 1 ELSE 0
<1>2. /\ DroppedTold(s)' = DroppedTold(s) + mine
      /\ DeliveredTold(s)' = DeliveredTold(s)
  <2>1. /\ DeliveredTold(s)' = DeliveredTold(s) + (IF SliceFor[q] = s /\ ~TRUE THEN 1 ELSE 0)
        /\ DroppedTold(s)' = DroppedTold(s) + (IF SliceFor[q] = s /\ TRUE THEN 1 ELSE 0)
    BY <1>0, ToldAfterPut
  <2>2. DeliveredTold(s) \in Nat
    BY CounterTypes
  <2> QED
    BY <2>1, <2>2
<1>3. Unreported(s)' + mine = Unreported(s)
  BY <1>0, UnreportedMinus
<1>4. Unreported(s)' \in Nat
  <2>1. TypeInv'
    BY ResumeTypeInv
  <2>2. {p \in blocked' : SliceFor[p] = s} \in SUBSET blocked' /\ IsFiniteSet(blocked')
    BY <2>1 DEF TypeInv, OwnSlice
  <2>3. IsFiniteSet({p \in blocked' : SliceFor[p] = s})
    BY <2>2, FS_Subset
  <2> QED
    BY <2>3, FS_CardinalityType DEF Unreported
<1>5. delivered'[s] = DeliveredTold(s)' + StuckAt(s, "late")'
  BY <1>0, <1>1, <1>2
<1>6. dropped'[s] = DroppedTold(s)' + StuckAt(s, "lost")' + Unreported(s)'
  <2>1. mine \in Nat
    OBVIOUS
  <2> HIDE DEF mine
  <2>2. DroppedTold(s) \in Nat /\ Unreported(s) \in Nat /\ StuckAt(s, "lost") \in Nat
    BY CounterTypes, <1>1
  <2>3. dropped'[s] = DroppedTold(s) + StuckAt(s, "lost") + Unreported(s)
    BY <1>0, <1>1
  <2> QED
    BY <1>1, <1>2, <1>3, <1>4, <2>1, <2>2, <2>3
<1> QED
  BY <1>5, <1>6

LEMMA ConcludeTold ==
    ASSUME TypeInv, NEW s \in Slices, NEW d \in BOOLEAN, Conclude(s, d),
           stage[s] # "idle", recorded' = recorded, NEW t \in Slices
    PROVE  /\ DeliveredTold(t)' + StuckAt(t, "late")' =
                  DeliveredTold(t) + (IF t = s THEN IF d THEN 0 ELSE 1
                                               ELSE StuckAt(t, "late"))
           /\ DroppedTold(t)' + StuckAt(t, "lost")' =
                  DroppedTold(t) + (IF t = s THEN IF d THEN 1 ELSE 0
                                             ELSE StuckAt(t, "lost"))
<1>0. /\ TypeOK /\ Holds(s) \in Packets /\ SliceFor[Holds(s)] = s
      /\ stage \in [Slices -> Stages]
      /\ DeliveredTold(t) \in Nat /\ DroppedTold(t) \in Nat
  BY HoldsFacts, CounterTypes DEF TypeInv, TypeOK
<1>1. CASE Room /\ Put(Holds(s), d) /\ MoveTo(s, "idle")
  <2>1. /\ DeliveredTold(t)' = DeliveredTold(t) + (IF SliceFor[Holds(s)] = t /\ ~d THEN 1 ELSE 0)
        /\ DroppedTold(t)' = DroppedTold(t) + (IF SliceFor[Holds(s)] = t /\ d THEN 1 ELSE 0)
    BY <1>0, <1>1, ToldAfterPut
  <2>2. CASE t = s
    <3>1. StuckAt(t, "late")' = 0 /\ StuckAt(t, "lost")' = 0
      BY <1>0, <1>1, <2>2 DEF StuckAt, MoveTo
    <3> QED
      BY <1>0, <2>1, <2>2, <3>1
  <2>3. CASE t # s
    <3>1. StuckAt(t, "late")' = StuckAt(t, "late") /\ StuckAt(t, "lost")' = StuckAt(t, "lost")
      BY <1>0, <1>1, <2>3 DEF StuckAt, MoveTo
    <3>2. DeliveredTold(t)' = DeliveredTold(t) /\ DroppedTold(t)' = DroppedTold(t)
      BY <1>0, <2>1, <2>3
    <3> QED
      BY <2>3, <3>1, <3>2
  <2> QED
    BY <2>2, <2>3
<1>2. CASE MoveTo(s, IF d THEN "lost" ELSE "late") /\ UNCHANGED results
  <2>1. DeliveredTold(t)' = DeliveredTold(t) /\ DroppedTold(t)' = DroppedTold(t)
    BY <1>2, ToldUnmoved, SameJournal
  <2>2. /\ StuckAt(t, "late")' = (IF t = s THEN IF d THEN 0 ELSE 1 ELSE StuckAt(t, "late"))
        /\ StuckAt(t, "lost")' = (IF t = s THEN IF d THEN 1 ELSE 0 ELSE StuckAt(t, "lost"))
    BY <1>0, <1>2 DEF StuckAt, MoveTo
  <2> QED
    BY <2>1, <2>2
<1> QED
  BY <1>1, <1>2 DEF Conclude

LEMMA WorkCounters ==
    ASSUME TypeInv, CountersMatchReports, NEW s \in Slices, Work(s), NEW t \in Slices
    PROVE  /\ delivered'[t] = DeliveredTold(t)' + StuckAt(t, "late")'
           /\ dropped'[t] = DroppedTold(t)' + StuckAt(t, "lost")' + Unreported(t)'
<1>0. /\ TypeOK /\ stage \in [Slices -> Stages]
      /\ delivered \in [Slices -> Nat] /\ dropped \in [Slices -> Nat]
      /\ DeliveredTold(t) \in Nat /\ DroppedTold(t) \in Nat /\ Unreported(t) \in Nat
      /\ delivered[t] = DeliveredTold(t) + StuckAt(t, "late")
      /\ dropped[t] = DroppedTold(t) + StuckAt(t, "lost") + Unreported(t)
  BY CounterTypes DEF TypeInv, TypeOK, CountersMatchReports
<1>1. Unreported(t)' = Unreported(t)
  <2>1. blocked' = blocked
    BY DEF Work, Fetch, Admit, Refuse, Deliver, PutReport
  <2> QED
    BY <2>1, UnreportedUnmoved
<1>2. CASE Fetch(s) \/ Admit(s)
  <2>1. /\ UNCHANGED <<results, recorded, delivered, dropped>>
        /\ StuckAt(t, "late")' = StuckAt(t, "late")
        /\ StuckAt(t, "lost")' = StuckAt(t, "lost")
    BY <1>0, <1>2 DEF Fetch, Admit, MoveTo, StuckAt
  <2>2. DeliveredTold(t)' = DeliveredTold(t) /\ DroppedTold(t)' = DroppedTold(t)
    BY <2>1, ToldUnmoved, SameJournal
  <2> QED
    BY <1>0, <1>1, <2>1, <2>2
<1>3. ASSUME NEW d \in BOOLEAN, Conclude(s, d), stage[s] # "idle", recorded' = recorded,
             delivered'[t] = delivered[t] +
                (IF t = s THEN (IF d THEN 0 ELSE 1) - StuckAt(t, "late") ELSE 0),
             dropped'[t] = dropped[t] +
                (IF t = s THEN (IF d THEN 1 ELSE 0) - StuckAt(t, "lost") ELSE 0)
      PROVE  /\ delivered'[t] = DeliveredTold(t)' + StuckAt(t, "late")'
             /\ dropped'[t] = DroppedTold(t)' + StuckAt(t, "lost")' + Unreported(t)'
  <2>1. /\ DeliveredTold(t)' + StuckAt(t, "late")' =
                  DeliveredTold(t) + (IF t = s THEN IF d THEN 0 ELSE 1
                                               ELSE StuckAt(t, "late"))
        /\ DroppedTold(t)' + StuckAt(t, "lost")' =
                  DroppedTold(t) + (IF t = s THEN IF d THEN 1 ELSE 0
                                             ELSE StuckAt(t, "lost"))
    BY <1>3, ConcludeTold
  <2>2. StuckAt(t, "late") \in Nat /\ StuckAt(t, "lost") \in Nat
    BY DEF StuckAt
  <2>3. delivered'[t] = DeliveredTold(t)' + StuckAt(t, "late")'
    BY <1>0, <1>3, <2>1, <2>2
  <2>4. dropped'[t] = (DroppedTold(t)' + StuckAt(t, "lost")') + Unreported(t)
    BY <1>0, <1>3, <2>1, <2>2
  <2> QED
    BY <1>1, <2>3, <2>4
<1>4. CASE Refuse(s)
  <2>1. /\ Conclude(s, TRUE) /\ stage[s] = "taken" /\ recorded' = recorded
        /\ delivered' = delivered /\ dropped' = [dropped EXCEPT ![s] = @ + 1]
    BY <1>4 DEF Refuse
  <2>2. /\ delivered'[t] = delivered[t] + (IF t = s THEN 0 - StuckAt(t, "late") ELSE 0)
        /\ dropped'[t] = dropped[t] + (IF t = s THEN 1 - StuckAt(t, "lost") ELSE 0)
    BY <1>0, <2>1 DEF StuckAt
  <2> QED
    BY <1>3, <2>1, <2>2
<1>5. CASE Deliver(s)
  <2>1. /\ Conclude(s, FALSE) /\ stage[s] = "delay" /\ recorded' = recorded
        /\ dropped' = dropped /\ delivered' = [delivered EXCEPT ![s] = @ + 1]
    BY <1>5 DEF Deliver
  <2>2. /\ delivered'[t] = delivered[t] + (IF t = s THEN 1 - StuckAt(t, "late") ELSE 0)
        /\ dropped'[t] = dropped[t] + (IF t = s THEN 0 - StuckAt(t, "lost") ELSE 0)
    BY <1>0, <2>1 DEF StuckAt
  <2> QED
    BY <1>3, <2>1, <2>2
<1>6. CASE PutReport(s)
  <2> DEFINE d == stage[s] = "lost"
  <2>1. /\ Conclude(s, d) /\ d \in BOOLEAN
        /\ stage[s] \in {"late", "lost"} /\ UNCHANGED <<recorded, delivered, dropped>>
    BY <1>6 DEF PutReport, Conclude
  <2>2. /\ delivered'[t] = delivered[t] +
              (IF t = s THEN (IF d THEN 0 ELSE 1) - StuckAt(t, "late") ELSE 0)
        /\ dropped'[t] = dropped[t] +
              (IF t = s THEN (IF d THEN 1 ELSE 0) - StuckAt(t, "lost") ELSE 0)
    BY <1>0, <2>1 DEF StuckAt
  <2>3. stage[s] # "idle" /\ recorded' = recorded
    BY <2>1
  <2> HIDE DEF d
  <2> QED
    BY <1>3, <2>1, <2>2, <2>3
<1> QED
  BY <1>2, <1>4, <1>5, <1>6 DEF Work

LEMMA NextCounters ==
    TypeInv /\ OnePlace /\ CountersMatchReports /\ [Next]_vars => CountersMatchReports'
<1> SUFFICES ASSUME TypeInv, OnePlace, CountersMatchReports, [Next]_vars, NEW s \in Slices
             PROVE  /\ delivered'[s] = DeliveredTold(s)' + StuckAt(s, "late")'
                    /\ dropped'[s] = DroppedTold(s)' + StuckAt(s, "lost")' + Unreported(s)'
  BY DEF CountersMatchReports
<1>1. CASE \E f \in Flows : Overflow(f)
  BY <1>1, OverflowCounters
<1>2. CASE \E q \in Packets : Resume(q)
  BY <1>2, ResumeCounters
<1>3. CASE \E t \in Slices : Work(t)
  BY <1>3, WorkCounters
<1>4. ASSUME UNCHANGED <<stage, blocked, delivered, dropped>>, Journal' = Journal
      PROVE  /\ delivered'[s] = DeliveredTold(s)' + StuckAt(s, "late")'
             /\ dropped'[s] = DroppedTold(s)' + StuckAt(s, "lost")' + Unreported(s)'
  <2>1. DeliveredTold(s)' = DeliveredTold(s) /\ DroppedTold(s)' = DroppedTold(s)
        /\ Unreported(s)' = Unreported(s)
    BY <1>4, ToldUnmoved, UnreportedUnmoved
  <2>2. StuckAt(s, "late")' = StuckAt(s, "late") /\ StuckAt(s, "lost")' = StuckAt(s, "lost")
    BY <1>4 DEF StuckAt
  <2>3. delivered'[s] = delivered[s] /\ dropped'[s] = dropped[s]
    BY <1>4
  <2> QED
    BY <2>1, <2>2, <2>3 DEF CountersMatchReports
<1>5. CASE \E f \in Flows : Enqueue(f) \/ Disconnect(f)
  <2>1. UNCHANGED <<stage, blocked, delivered, dropped, results, recorded>>
    BY <1>5 DEF Enqueue, Disconnect
  <2> QED
    BY <1>4, <2>1, SameJournal
<1>6. CASE Record
  <2>1. UNCHANGED <<stage, blocked, delivered, dropped>>
    BY <1>6 DEF Record
  <2>2. Journal' = Journal
    BY <1>6, RecordFacts DEF TypeInv
  <2> QED
    BY <1>4, <2>1, <2>2
<1>7. CASE UNCHANGED vars
  <2>1. UNCHANGED <<stage, blocked, delivered, dropped, results, recorded>>
    BY <1>7 DEF vars
  <2> QED
    BY <1>4, <2>1, SameJournal
<1> QED
  BY <1>1, <1>2, <1>3, <1>5, <1>6, <1>7 DEF Next

(* The delivered and dropped counters of a slice are what it has reported, with
   what a suspended worker or handler has counted and not yet reported. *)
THEOREM CountersAreReports == Spec => []CountersMatchReports
<1>1. Init => TypeInv /\ OnePlace /\ CountersMatchReports
  BY InitTypeInv, InitOnePlace, InitCounters
<1>2. TypeInv /\ OnePlace /\ CountersMatchReports /\ [Next]_vars
        => TypeInv' /\ OnePlace' /\ CountersMatchReports'
  BY NextTypeInv, NextOnePlace, NextCounters
<1> QED
  BY <1>1, <1>2, PTL DEF Spec

-----------------------------------------------------------------------------
Before(p, q) == p[1] = q[1] => p[2] < q[2]

(* The worker holds a packet that may still be, or already is, delivered. *)
Passing(s) == stage[s] \in {"taken", "delay", "late"}

QueueInOrder ==
    \A s \in Slices :
        /\ \A i \in DOMAIN queue[s] : Arrived(queue[s][i])
        /\ \A i, j \in DOMAIN queue[s] : i < j => Before(queue[s][i], queue[s][j])

HandFirst ==
    \A s \in Slices : Passing(s) =>
        /\ Arrived(Holds(s))
        /\ \A i \in DOMAIN queue[s] : Before(Holds(s), queue[s][i])

JournalFirst ==
    \A k \in DOMAIN Journal : ~Journal[k].dropped =>
        /\ Arrived(Journal[k].packet)
        /\ \A s \in Slices :
            /\ \A i \in DOMAIN queue[s] : Before(Journal[k].packet, queue[s][i])
            /\ Passing(s) => Before(Journal[k].packet, Holds(s))

JournalInOrder ==
    \A i, j \in DOMAIN Journal :
        i < j /\ ~Journal[i].dropped /\ ~Journal[j].dropped
            => Before(Journal[i].packet, Journal[j].packet)

OrderInv == QueueInOrder /\ HandFirst /\ JournalFirst /\ JournalInOrder

LEMMA InitOrderInv == Init => OrderInv
<1> SUFFICES ASSUME Init PROVE OrderInv
  OBVIOUS
<1>1. Journal = <<>>
  BY ConcatEmptySeq, EmptySeq DEF Init, Journal
<1> QED
  BY <1>1 DEF Init, OrderInv, QueueInOrder, HandFirst, JournalFirst, JournalInOrder, Passing

LEMMA JournalEntries ==
    TypeOK => /\ Len(Journal) \in Nat /\ DOMAIN Journal = 1 .. Len(Journal)
              /\ \A k \in DOMAIN Journal : /\ Journal[k] \in Reports
                                          /\ Journal[k].packet \in Packets
                                          /\ Journal[k].dropped \in BOOLEAN
<1> SUFFICES ASSUME TypeOK
             PROVE  /\ Len(Journal) \in Nat /\ DOMAIN Journal = 1 .. Len(Journal)
                    /\ \A k \in DOMAIN Journal : /\ Journal[k] \in Reports
                                                /\ Journal[k].packet \in Packets
                                                /\ Journal[k].dropped \in BOOLEAN
  OBVIOUS
<1>1. Journal \in Seq(Reports)
  BY JournalType
<1>2. /\ Len(Journal) \in Nat /\ DOMAIN Journal = 1 .. Len(Journal)
      /\ Journal \in [1 .. Len(Journal) -> Reports]
  BY <1>1, LenProperties
<1> QED
  BY <1>2 DEF Reports

LEMMA PutEntries ==
    ASSUME TypeOK, Room, NEW q \in Packets, NEW d \in BOOLEAN, Put(q, d),
           recorded' = recorded
    PROVE  /\ DOMAIN Journal' = 1 .. Len(Journal) + 1
           /\ \A k \in DOMAIN Journal : Journal'[k] = Journal[k]
           /\ Journal'[Len(Journal) + 1].packet = q
           /\ Journal'[Len(Journal) + 1].dropped = d
<1>1. Journal' = Append(Journal, Report(q, d)) /\ Report(q, d) \in Reports
  BY PutFacts
<1>2. /\ Append(Journal, Report(q, d)) \in Seq(Reports)
      /\ Len(Append(Journal, Report(q, d))) = Len(Journal) + 1
      /\ \A i \in 1 .. Len(Journal) : Append(Journal, Report(q, d))[i] = Journal[i]
      /\ Append(Journal, Report(q, d))[Len(Journal) + 1] = Report(q, d)
  BY <1>1, JournalType, AppendProperties
<1>3. DOMAIN Append(Journal, Report(q, d)) = 1 .. Len(Journal) + 1
  BY <1>2, LenProperties
<1> QED
  BY <1>1, <1>2, <1>3, JournalEntries DEF Report

(* Once the journal has one more entry, a dropped packet or one that comes
   after what was delivered and before what waits, it is still in order. *)
LEMMA PutOrder ==
    ASSUME TypeOK, OrderInv, Room, NEW q \in Packets, NEW d \in BOOLEAN, Put(q, d),
           recorded' = recorded, UNCHANGED queue,
           \A p \in Packets : Arrived(p) => Arrived(p)',
           \A s \in Slices : Passing(s)' => Passing(s) /\ Holds(s)' = Holds(s),
           ~d => /\ Arrived(q)
                 /\ \A k \in DOMAIN Journal :
                        ~Journal[k].dropped => Before(Journal[k].packet, q)
                 /\ \A s \in Slices :
                        /\ \A i \in DOMAIN queue[s] : Before(q, queue[s][i])
                        /\ Passing(s)' => Before(q, Holds(s))
    PROVE  JournalFirst' /\ JournalInOrder'
<1> DEFINE n == Len(Journal)
<1>1. /\ DOMAIN Journal' = 1 .. n + 1
      /\ \A k \in DOMAIN Journal : Journal'[k] = Journal[k]
      /\ Journal'[n + 1].packet = q
      /\ Journal'[n + 1].dropped = d
  BY PutEntries
<1>2. /\ n \in Nat /\ DOMAIN Journal = 1 .. n
      /\ \A k \in DOMAIN Journal : Journal[k].packet \in Packets
  BY JournalEntries
<1>3. JournalFirst /\ JournalInOrder
  BY DEF OrderInv
<1>6. \A p \in Packets : p[2] < next[p[1]] => p[2] < next'[p[1]]
  BY DEF Arrived
<1>7. \A s \in Slices : queue'[s] = queue[s]
  OBVIOUS
<1> HIDE DEF n
<1>4. ASSUME NEW k \in DOMAIN Journal', ~Journal'[k].dropped
      PROVE  /\ Journal'[k].packet[2] < next'[Journal'[k].packet[1]]
             /\ \A s \in Slices :
                 /\ \A i \in DOMAIN queue'[s] : Before(Journal'[k].packet, queue'[s][i])
                 /\ Passing(s)' => Before(Journal'[k].packet, Holds(s)')
  <2>1. CASE k = n + 1
    <3>1. Journal'[k].packet = q /\ ~d
      BY <1>1, <1>4, <2>1
    <3>2. /\ q[2] < next[q[1]]
          /\ \A s \in Slices :
              /\ \A i \in DOMAIN queue[s] : Before(q, queue[s][i])
              /\ Passing(s)' => Before(q, Holds(s))
      BY <3>1 DEF Arrived
    <3> QED
      BY <1>6, <1>7, <3>1, <3>2
  <2>2. CASE k \in DOMAIN Journal
    <3>1. Journal'[k] = Journal[k] /\ Journal[k].packet \in Packets
      BY <1>1, <1>2, <2>2
    <3>2. /\ Journal[k].packet[2] < next[Journal[k].packet[1]]
          /\ \A s \in Slices :
              /\ \A i \in DOMAIN queue[s] : Before(Journal[k].packet, queue[s][i])
              /\ Passing(s) => Before(Journal[k].packet, Holds(s))
      BY <1>3, <1>4, <2>2, <3>1 DEF JournalFirst, Arrived
    <3> QED
      BY <1>6, <1>7, <3>1, <3>2
  <2> QED
    BY <1>1, <1>2, <2>1, <2>2
<1>5. ASSUME NEW i \in DOMAIN Journal', NEW j \in DOMAIN Journal', i < j,
             ~Journal'[i].dropped, ~Journal'[j].dropped
      PROVE  Before(Journal'[i].packet, Journal'[j].packet)
  <2>0. i \in DOMAIN Journal /\ Journal'[i] = Journal[i]
    BY <1>1, <1>2, <1>5
  <2>1. CASE j = n + 1
    BY <1>1, <1>5, <2>0, <2>1
  <2>2. CASE j \in DOMAIN Journal
    <3>1. Journal'[j] = Journal[j]
      BY <1>1, <2>2
    <3> QED
      BY <1>3, <1>5, <2>0, <2>2, <3>1 DEF JournalInOrder
  <2> QED
    BY <1>1, <1>2, <2>1, <2>2
<1> QED
  BY <1>4, <1>5 DEF JournalFirst, JournalInOrder, Before, Arrived

LEMMA QueueTypes ==
    TypeInv => \A s \in Slices :
        /\ DOMAIN queue[s] = 1 .. Len(queue[s]) /\ Len(queue[s]) \in Nat
        /\ \A i \in DOMAIN queue[s] : queue[s][i] \in Packets /\ SliceFor[queue[s][i]] = s
<1> SUFFICES ASSUME TypeInv, NEW s \in Slices
             PROVE  /\ DOMAIN queue[s] = 1 .. Len(queue[s]) /\ Len(queue[s]) \in Nat
                    /\ \A i \in DOMAIN queue[s] :
                          queue[s][i] \in Packets /\ SliceFor[queue[s][i]] = s
  OBVIOUS
<1>1. queue[s] \in Seq(PacketsOf(s))
  BY DEF TypeInv, OwnSlice
<1>2. /\ DOMAIN queue[s] = 1 .. Len(queue[s]) /\ Len(queue[s]) \in Nat
      /\ queue[s] \in [1 .. Len(queue[s]) -> PacketsOf(s)]
  BY <1>1, LenProperties
<1> QED
  BY <1>2 DEF PacketsOf

LEMMA QueueKeepsOrder ==
    ASSUME TypeInv, OrderInv, UNCHANGED queue,
           \A p \in Packets : Arrived(p) => Arrived(p)',
           \A s \in Slices : Passing(s)' => Passing(s) /\ Holds(s)' = Holds(s)
    PROVE  QueueInOrder' /\ HandFirst'
<1>1. \A p \in Packets : p[2] < next[p[1]] => p[2] < next'[p[1]]
  BY DEF Arrived
<1>2. QueueInOrder'
  BY <1>1, QueueTypes DEF OrderInv, QueueInOrder, Arrived, Before
<1>3. ASSUME NEW s \in Slices, Passing(s)'
      PROVE  /\ Holds(s)'[2] < next'[Holds(s)'[1]]
             /\ \A i \in DOMAIN queue'[s] : Before(Holds(s)', queue'[s][i])
  <2>1. Passing(s) /\ Holds(s)' = Holds(s) /\ stage[s] # "idle"
    BY <1>3 DEF Passing
  <2>2. Holds(s) \in Packets
    BY <2>1, HoldsFacts
  <2>3. Holds(s)[2] < next[Holds(s)[1]] /\ \A i \in DOMAIN queue[s] : Before(Holds(s), queue[s][i])
    BY <2>1 DEF OrderInv, HandFirst, Arrived
  <2> QED
    BY <1>1, <2>1, <2>2, <2>3
<1> QED
  BY <1>2, <1>3 DEF HandFirst, Arrived, Before

LEMMA JournalKeepsOrder ==
    ASSUME TypeInv, OrderInv, Journal' = Journal, UNCHANGED queue,
           \A p \in Packets : Arrived(p) => Arrived(p)',
           \A s \in Slices : Passing(s)' => Passing(s) /\ Holds(s)' = Holds(s)
    PROVE  OrderInv'
<1>1. QueueInOrder' /\ HandFirst'
  BY QueueKeepsOrder
<1>2. JournalInOrder'
  BY DEF OrderInv, JournalInOrder, Before
<1>3. \A p \in Packets : p[2] < next[p[1]] => p[2] < next'[p[1]]
  BY DEF Arrived
<1>4. \A k \in DOMAIN Journal : Journal[k].packet \in Packets
  BY JournalEntries DEF TypeInv
<1>5. ASSUME NEW k \in DOMAIN Journal, ~Journal[k].dropped
      PROVE  /\ Journal[k].packet[2] < next'[Journal[k].packet[1]]
             /\ \A s \in Slices :
                 /\ \A i \in DOMAIN queue'[s] : Before(Journal[k].packet, queue'[s][i])
                 /\ Passing(s)' => Before(Journal[k].packet, Holds(s)')
  BY <1>3, <1>4, <1>5 DEF OrderInv, JournalFirst, Arrived
<1>6. JournalFirst'
  BY <1>5 DEF JournalFirst, Arrived, Before
<1> QED
  BY <1>1, <1>2, <1>6 DEF OrderInv

LEMMA ArrivedBeforeDue ==
    ASSUME TypeOK, NEW f \in Flows, Starts(f), NEW p \in Packets, Arrived(p)
    PROVE  Before(p, Due(f))
  BY DEF Arrived, Before, Due

LEMMA EnqueueOrder ==
    ASSUME TypeInv, OrderInv, NEW f \in Flows, Enqueue(f)
    PROVE  OrderInv'
<1> DEFINE t == SliceOf[f]
           n == Len(queue[t])
<1>0. /\ TypeOK /\ Starts(f)
      /\ UNCHANGED <<stage, hand, results, recorded>>
      /\ queue' = [queue EXCEPT ![t] = Append(queue[t], Due(f))]
      /\ queue \in [Slices -> Seq(Packets)]
  BY DEF TypeInv, TypeOK, Enqueue
<1>1. /\ Due(f) \in Packets /\ SliceFor[Due(f)] = t /\ t \in Slices
      /\ \A p \in Packets : Arrived(p)' <=> Arrived(p) \/ p = Due(f)
  BY <1>0, DueFacts
<1>2. /\ \A p \in Packets : p[2] < next[p[1]] => p[2] < next'[p[1]]
      /\ Due(f)[2] < next'[Due(f)[1]]
  BY <1>1 DEF Arrived
<1>3. \A p \in Packets : p[2] < next[p[1]] => Before(p, Due(f))
  BY <1>0, ArrivedBeforeDue DEF Arrived
<1>4. /\ Append(queue[t], Due(f)) \in Seq(Packets)
      /\ DOMAIN Append(queue[t], Due(f)) = 1 .. n + 1
      /\ n \in Nat /\ DOMAIN queue[t] = 1 .. n
      /\ \A i \in 1 .. n : Append(queue[t], Due(f))[i] = queue[t][i]
      /\ Append(queue[t], Due(f))[n + 1] = Due(f)
  BY <1>0, <1>1, AppendProperties, LenProperties
<1> HIDE DEF t, n
<1>5. ASSUME NEW s \in Slices, NEW i \in DOMAIN queue'[s]
      PROVE  \/ i \in DOMAIN queue[s] /\ queue'[s][i] = queue[s][i]
             \/ s = t /\ i = n + 1 /\ queue'[s][i] = Due(f)
  BY <1>0, <1>1, <1>4, <1>5
<1>6. \A s \in Slices : \A i \in DOMAIN queue[s] :
        queue[s][i] \in Packets /\ queue[s][i][2] < next[queue[s][i][1]]
  BY QueueTypes DEF OrderInv, QueueInOrder, Arrived
<1>7. QueueInOrder'
  <2>1. ASSUME NEW s \in Slices, NEW i \in DOMAIN queue'[s]
        PROVE  queue'[s][i][2] < next'[queue'[s][i][1]]
    BY <1>2, <1>5, <1>6
  <2>2. ASSUME NEW s \in Slices, NEW i \in DOMAIN queue'[s], NEW j \in DOMAIN queue'[s], i < j
        PROVE  Before(queue'[s][i], queue'[s][j])
    <3>1. i \in DOMAIN queue[s] /\ queue'[s][i] = queue[s][i]
      <4>1. CASE s = t
        <5>1. DOMAIN queue'[s] = 1 .. n + 1 /\ DOMAIN queue[s] = 1 .. n
          BY <1>0, <1>1, <1>4, <4>1
        <5>2. i # n + 1
          BY <1>4, <2>2, <5>1
        <5> QED
          BY <1>5, <5>2
      <4>2. CASE s # t
        BY <1>5, <4>2
      <4> QED
        BY <4>1, <4>2
    <3>2. CASE j \in DOMAIN queue[s] /\ queue'[s][j] = queue[s][j]
      BY <2>2, <3>1, <3>2 DEF OrderInv, QueueInOrder
    <3>3. CASE queue'[s][j] = Due(f)
      BY <1>3, <1>6, <3>1, <3>3
    <3> QED
      BY <1>5, <3>2, <3>3
  <2> QED
    BY <2>1, <2>2 DEF QueueInOrder, Arrived, Before
<1>8. HandFirst'
  <2>1. ASSUME NEW s \in Slices, Passing(s)
        PROVE  /\ Holds(s)[2] < next'[Holds(s)[1]]
               /\ \A i \in DOMAIN queue'[s] : Before(Holds(s), queue'[s][i])
    <3>1. Holds(s) \in Packets
      BY <2>1, HoldsFacts DEF Passing
    <3>2. /\ Holds(s)[2] < next[Holds(s)[1]]
          /\ \A i \in DOMAIN queue[s] : Before(Holds(s), queue[s][i])
      BY <2>1 DEF OrderInv, HandFirst, Arrived
    <3> QED
      BY <1>2, <1>3, <1>5, <3>1, <3>2
  <2> QED
    BY <1>0, <2>1 DEF HandFirst, Passing, Holds, Arrived, Before
<1>9. Journal' = Journal
  BY <1>0, SameJournal
<1>10. JournalFirst'
  <2>1. ASSUME NEW k \in DOMAIN Journal, ~Journal[k].dropped
        PROVE  /\ Journal[k].packet[2] < next'[Journal[k].packet[1]]
               /\ \A s \in Slices :
                   /\ \A i \in DOMAIN queue'[s] : Before(Journal[k].packet, queue'[s][i])
                   /\ Passing(s) => Before(Journal[k].packet, Holds(s))
    <3>1. Journal[k].packet \in Packets
      BY <1>0, JournalEntries
    <3>2. /\ Journal[k].packet[2] < next[Journal[k].packet[1]]
          /\ \A s \in Slices :
                /\ \A i \in DOMAIN queue[s] : Before(Journal[k].packet, queue[s][i])
                /\ Passing(s) => Before(Journal[k].packet, Holds(s))
      BY <2>1 DEF OrderInv, JournalFirst, Arrived
    <3> QED
      BY <1>2, <1>3, <1>5, <3>1, <3>2
  <2>2. \A s \in Slices : Passing(s)' = Passing(s) /\ Holds(s)' = Holds(s)
    BY <1>0 DEF Passing, Holds
  <2>3. ASSUME NEW k \in DOMAIN Journal', ~Journal'[k].dropped
        PROVE  /\ Journal'[k].packet[2] < next'[Journal'[k].packet[1]]
               /\ \A s \in Slices :
                   /\ \A i \in DOMAIN queue'[s] : Before(Journal'[k].packet, queue'[s][i])
                   /\ Passing(s)' => Before(Journal'[k].packet, Holds(s)')
    BY <1>9, <2>1, <2>2, <2>3
  <2> QED
    BY <2>3 DEF JournalFirst, Arrived, Before
<1>11. JournalInOrder'
  BY <1>9 DEF OrderInv, JournalInOrder, Before
<1> QED
  BY <1>7, <1>8, <1>10, <1>11 DEF OrderInv

LEMMA FetchOrder ==
    ASSUME TypeInv, OrderInv, NEW t \in Slices, Fetch(t)
    PROVE  OrderInv'
<1> DEFINE n == Len(queue[t])
<1>0. /\ TypeOK
      /\ queue[t] # <<>>
      /\ hand' = [hand EXCEPT ![t] = <<Head(queue[t])>>]
      /\ queue' = [queue EXCEPT ![t] = Tail(queue[t])]
      /\ stage' = [stage EXCEPT ![t] = "taken"]
      /\ queue \in [Slices -> Seq(Packets)]
      /\ stage \in [Slices -> Stages]
      /\ hand \in [Slices -> {<<>>} \union {<<q>> : q \in Packets}]
      /\ UNCHANGED <<next, results, recorded>>
  BY DEF TypeInv, TypeOK, Fetch, MoveTo
<1>1. /\ n \in Nat \ {0} /\ DOMAIN queue[t] = 1 .. n
      /\ DOMAIN Tail(queue[t]) = 1 .. n - 1
      /\ \A i \in 1 .. n - 1 : Tail(queue[t])[i] = queue[t][i + 1]
      /\ Head(queue[t]) = queue[t][1]
  <2>1. queue[t] \in Seq(Packets)
    BY <1>0
  <2>2. n \in Nat \ {0} /\ DOMAIN queue[t] = 1 .. n
    BY <1>0, <2>1, LenProperties, EmptySeq
  <2>3. /\ Tail(queue[t]) \in Seq(Packets) /\ Len(Tail(queue[t])) = n - 1
        /\ \A i \in 1 .. Len(Tail(queue[t])) : Tail(queue[t])[i] = queue[t][i + 1]
    BY <1>0, <2>1, HeadTailProperties
  <2>4. DOMAIN Tail(queue[t]) = 1 .. Len(Tail(queue[t]))
    BY <2>3, LenProperties
  <2> QED
    BY <2>1, <2>2, <2>3, <2>4
<1> HIDE DEF n
<1>2. /\ \A s \in Slices : s # t => queue'[s] = queue[s]
      /\ DOMAIN queue'[t] = 1 .. n - 1
      /\ \A i \in 1 .. n - 1 : i + 1 \in DOMAIN queue[t] /\ queue'[t][i] = queue[t][i + 1]
      /\ 1 \in DOMAIN queue[t]
  BY <1>0, <1>1
<1>3. /\ Passing(t)' /\ Holds(t)' = queue[t][1]
      /\ \A s \in Slices : s # t => Passing(s)' = Passing(s) /\ Holds(s)' = Holds(s)
  BY <1>0, <1>1 DEF Passing, Holds
<1>4. QueueInOrder /\ HandFirst /\ JournalFirst /\ JournalInOrder
  BY DEF OrderInv
<1>5. QueueInOrder'
  <2>1. ASSUME NEW s \in Slices
        PROVE  /\ \A i \in DOMAIN queue'[s] : queue'[s][i][2] < next[queue'[s][i][1]]
               /\ \A i, j \in DOMAIN queue'[s] : i < j => Before(queue'[s][i], queue'[s][j])
    <3>1. CASE s = t
      <4>1. \A i \in DOMAIN queue'[s] : queue'[s][i][2] < next[queue'[s][i][1]]
        BY <1>2, <1>4, <3>1 DEF QueueInOrder, Arrived
      <4>2. ASSUME NEW i \in DOMAIN queue'[s], NEW j \in DOMAIN queue'[s], i < j
            PROVE  Before(queue'[s][i], queue'[s][j])
        <5>1. i + 1 \in DOMAIN queue[t] /\ j + 1 \in DOMAIN queue[t] /\ i + 1 < j + 1
          BY <1>1, <1>2, <3>1, <4>2
        <5>2. Before(queue[t][i + 1], queue[t][j + 1])
          BY <1>4, <5>1 DEF QueueInOrder
        <5> QED
          BY <1>2, <3>1, <5>2
      <4> QED
        BY <4>1, <4>2
    <3>2. CASE s # t
      BY <1>2, <1>4, <3>2 DEF QueueInOrder, Arrived
    <3> QED
      BY <3>1, <3>2
  <2> QED
    BY <1>0, <2>1 DEF QueueInOrder, Arrived, Before
<1>6. HandFirst'
  <2>1. ASSUME NEW s \in Slices, Passing(s)'
        PROVE  /\ Holds(s)'[2] < next[Holds(s)'[1]]
               /\ \A i \in DOMAIN queue'[s] : Before(Holds(s)', queue'[s][i])
    <3>1. CASE s = t
      <4>1. \A i \in 1 .. n - 1 : Before(queue[t][1], queue[t][i + 1])
        BY <1>1, <1>2, <1>4 DEF QueueInOrder
      <4> QED
        BY <1>2, <1>3, <1>4, <3>1, <4>1 DEF QueueInOrder, Arrived
    <3>2. CASE s # t
      BY <1>2, <1>3, <1>4, <2>1, <3>2 DEF HandFirst, Arrived
    <3> QED
      BY <3>1, <3>2
  <2> QED
    BY <1>0, <2>1 DEF HandFirst, Arrived, Before
<1>7. Journal' = Journal
  BY <1>0, SameJournal
<1>8. JournalFirst'
  <2>1. ASSUME NEW k \in DOMAIN Journal', ~Journal'[k].dropped
        PROVE  /\ Journal'[k].packet[2] < next[Journal'[k].packet[1]]
               /\ \A s \in Slices :
                   /\ \A i \in DOMAIN queue'[s] : Before(Journal'[k].packet, queue'[s][i])
                   /\ Passing(s)' => Before(Journal'[k].packet, Holds(s)')
    <3>1. /\ Journal[k].packet[2] < next[Journal[k].packet[1]]
          /\ \A s \in Slices :
                /\ \A i \in DOMAIN queue[s] : Before(Journal[k].packet, queue[s][i])
                /\ Passing(s) => Before(Journal[k].packet, Holds(s))
      BY <1>4, <1>7, <2>1 DEF JournalFirst, Arrived
    <3>2. ASSUME NEW s \in Slices
          PROVE  /\ \A i \in DOMAIN queue'[s] : Before(Journal[k].packet, queue'[s][i])
                 /\ Passing(s)' => Before(Journal[k].packet, Holds(s)')
      <4>1. CASE s = t
        BY <1>2, <1>3, <3>1, <4>1
      <4>2. CASE s # t
        BY <1>2, <1>3, <3>1, <4>2
      <4> QED
        BY <4>1, <4>2
    <3> QED
      BY <1>7, <3>1, <3>2
  <2> QED
    BY <1>0, <2>1 DEF JournalFirst, Arrived, Before
<1>9. JournalInOrder'
  BY <1>4, <1>7 DEF JournalInOrder, Before
<1> QED
  BY <1>5, <1>6, <1>8, <1>9 DEF OrderInv

LEMMA OverflowOrder ==
    ASSUME TypeInv, OrderInv, NEW f \in Flows, Overflow(f)
    PROVE  OrderInv'
<1>0. /\ TypeOK /\ Starts(f) /\ UNCHANGED <<queue, stage, hand, recorded>>
  BY DEF TypeInv, Overflow
<1>1. /\ Due(f) \in Packets
      /\ \A p \in Packets : Arrived(p)' <=> Arrived(p) \/ p = Due(f)
  BY <1>0, DueFacts
<1>2. \A p \in Packets : Arrived(p) => Arrived(p)'
  BY <1>1
<1>3. \A s \in Slices : Passing(s)' => Passing(s) /\ Holds(s)' = Holds(s)
  BY <1>0 DEF Passing, Holds
<1>4. CASE Room /\ Put(Due(f), TRUE)
  <2>1. JournalFirst' /\ JournalInOrder'
    BY <1>0, <1>1, <1>2, <1>3, <1>4, PutOrder
  <2>2. QueueInOrder' /\ HandFirst'
    BY <1>0, <1>2, <1>3, QueueKeepsOrder
  <2> QED
    BY <2>1, <2>2 DEF OrderInv
<1>5. CASE UNCHANGED results
  <2>1. Journal' = Journal
    BY <1>0, <1>5, SameJournal
  <2> QED
    BY <1>0, <1>2, <1>3, <2>1, JournalKeepsOrder
<1> QED
  BY <1>4, <1>5 DEF Overflow

LEMMA ResumeOrder ==
    ASSUME TypeInv, OrderInv, NEW q \in Packets, Resume(q)
    PROVE  OrderInv'
<1>0. /\ TypeOK /\ Room /\ Put(q, TRUE) /\ UNCHANGED <<next, queue, stage, hand, recorded>>
  BY DEF TypeInv, Resume
<1>2. \A p \in Packets : Arrived(p) => Arrived(p)'
  BY <1>0 DEF Arrived
<1>3. \A s \in Slices : Passing(s)' => Passing(s) /\ Holds(s)' = Holds(s)
  BY <1>0 DEF Passing, Holds
<1>4. JournalFirst' /\ JournalInOrder'
  BY <1>0, <1>2, <1>3, PutOrder
<1>5. QueueInOrder' /\ HandFirst'
  BY <1>0, <1>2, <1>3, QueueKeepsOrder
<1> QED
  BY <1>4, <1>5 DEF OrderInv

LEMMA ConcludeOrder ==
    ASSUME TypeInv, OrderInv, NEW s \in Slices, NEW d \in BOOLEAN, Conclude(s, d),
           stage[s] # "idle", ~d => stage[s] \in {"delay", "late"},
           UNCHANGED <<next, queue, recorded>>
    PROVE  OrderInv'
<1>0. /\ TypeOK /\ Holds(s) \in Packets /\ SliceFor[Holds(s)] = s
      /\ stage \in [Slices -> Stages]
      /\ hand \in [Slices -> {<<>>} \union {<<q>> : q \in Packets}]
  BY HoldsFacts DEF TypeInv, TypeOK
<1>1. \A p \in Packets : Arrived(p) => Arrived(p)'
  BY DEF Arrived
<1>2. CASE Room /\ Put(Holds(s), d) /\ hand' = [hand EXCEPT ![s] = <<>>]
           /\ MoveTo(s, "idle")
  <2>1. \A t \in Slices : Passing(t)' => t # s /\ Passing(t) /\ Holds(t)' = Holds(t)
    BY <1>0, <1>2 DEF Passing, Holds, MoveTo
  <2>2. ASSUME ~d
        PROVE  /\ Arrived(Holds(s))
               /\ \A k \in DOMAIN Journal :
                      ~Journal[k].dropped => Before(Journal[k].packet, Holds(s))
               /\ \A t \in Slices :
                      /\ \A i \in DOMAIN queue[t] : Before(Holds(s), queue[t][i])
                      /\ Passing(t)' => Before(Holds(s), Holds(t))
    <3>1. Passing(s)
      BY <2>2 DEF Passing
    <3>2. Arrived(Holds(s)) /\ \A k \in DOMAIN Journal :
                      ~Journal[k].dropped => Before(Journal[k].packet, Holds(s))
      BY <3>1 DEF OrderInv, HandFirst, JournalFirst
    <3>3. ASSUME NEW t \in Slices, NEW i \in DOMAIN queue[t]
          PROVE  Before(Holds(s), queue[t][i])
      <4>1. CASE t = s
        BY <3>1, <3>3, <4>1 DEF OrderInv, HandFirst
      <4>2. CASE t # s
        <5>1. queue[t][i] \in Packets /\ SliceFor[queue[t][i]] = t
          BY QueueTypes
        <5> QED
          BY <1>0, <4>2, <5>1, SliceForType DEF Before
      <4> QED
        BY <4>1, <4>2
    <3>4. ASSUME NEW t \in Slices, Passing(t)'
          PROVE  Before(Holds(s), Holds(t))
      <4>1. t # s /\ stage[t] # "idle"
        BY <2>1, <3>4 DEF Passing
      <4>2. Holds(t) \in Packets /\ SliceFor[Holds(t)] = t
        BY <4>1, HoldsFacts
      <4> QED
        BY <1>0, <4>1, <4>2, SliceForType DEF Before
    <3> QED
      BY <3>2, <3>3, <3>4
  <2>3. QueueInOrder' /\ HandFirst'
    BY <1>1, <2>1, QueueKeepsOrder
  <2>4. JournalFirst' /\ JournalInOrder'
    BY <1>0, <1>1, <1>2, <2>1, <2>2, PutOrder
  <2> QED
    BY <2>3, <2>4 DEF OrderInv
<1>3. CASE MoveTo(s, IF d THEN "lost" ELSE "late") /\ UNCHANGED <<results, hand>>
  <2>1. \A t \in Slices : Passing(t)' => Passing(t) /\ Holds(t)' = Holds(t)
    BY <1>0, <1>3 DEF Passing, Holds, MoveTo
  <2>2. Journal' = Journal
    BY <1>3, SameJournal
  <2> QED
    BY <1>1, <2>1, <2>2, JournalKeepsOrder
<1> QED
  BY <1>2, <1>3 DEF Conclude

LEMMA NextOrder == TypeInv /\ OrderInv /\ [Next]_vars => OrderInv'
<1> SUFFICES ASSUME TypeInv, OrderInv, [Next]_vars
             PROVE  OrderInv'
  OBVIOUS
<1>0. TypeOK /\ stage \in [Slices -> Stages]
  BY DEF TypeInv, TypeOK
<1>1. ASSUME UNCHANGED <<next, queue, hand>>, Journal' = Journal,
             \A s \in Slices : Passing(s)' => Passing(s)
      PROVE  OrderInv'
  <2>1. \A p \in Packets : Arrived(p) => Arrived(p)'
    BY <1>1 DEF Arrived
  <2>2. \A s \in Slices : Passing(s)' => Passing(s) /\ Holds(s)' = Holds(s)
    BY <1>1 DEF Holds
  <2> QED
    BY <1>1, <2>1, <2>2, JournalKeepsOrder
<1>2. ASSUME NEW f \in Flows, Enqueue(f) \/ Overflow(f) \/ Disconnect(f)
      PROVE  OrderInv'
  <2>1. CASE Disconnect(f)
    <3>1. UNCHANGED <<next, queue, hand, stage, results, recorded>>
      BY <2>1 DEF Disconnect
    <3> QED
      BY <1>1, <3>1, SameJournal DEF Passing
  <2> QED
    BY <1>2, <2>1, EnqueueOrder, OverflowOrder
<1>3. ASSUME NEW s \in Slices, Work(s)
      PROVE  OrderInv'
  <2>1. CASE Fetch(s)
    BY <2>1, FetchOrder
  <2>2. CASE Admit(s)
    <3>1. UNCHANGED <<next, queue, hand, results, recorded>>
      BY <2>2 DEF Admit
    <3>2. \A t \in Slices : Passing(t)' => Passing(t)
      BY <1>0, <2>2 DEF Admit, MoveTo, Passing
    <3> QED
      BY <1>1, <3>1, <3>2, SameJournal
  <2>3. CASE Refuse(s)
    <3>1. Conclude(s, TRUE) /\ stage[s] # "idle" /\ UNCHANGED <<next, queue, recorded>>
      BY <2>3 DEF Refuse
    <3> QED
      BY <3>1, ConcludeOrder
  <2>4. CASE Deliver(s)
    <3>1. /\ Conclude(s, FALSE) /\ stage[s] # "idle" /\ stage[s] \in {"delay", "late"}
          /\ UNCHANGED <<next, queue, recorded>>
      BY <2>4 DEF Deliver
    <3> QED
      BY <3>1, ConcludeOrder
  <2>5. CASE PutReport(s)
    <3> DEFINE d == stage[s] = "lost"
    <3>1. /\ Conclude(s, d) /\ stage[s] # "idle" /\ d \in BOOLEAN
          /\ ~d => stage[s] \in {"delay", "late"}
          /\ UNCHANGED <<next, queue, recorded>>
      BY <2>5 DEF PutReport, Conclude
    <3> HIDE DEF d
    <3> QED
      BY <3>1, ConcludeOrder
  <2> QED
    BY <1>3, <2>1, <2>2, <2>3, <2>4, <2>5 DEF Work
<1>4. CASE Record
  <2>1. UNCHANGED <<next, queue, hand, stage>>
    BY <1>4 DEF Record
  <2>2. Journal' = Journal
    BY <1>0, <1>4, RecordFacts
  <2> QED
    BY <1>1, <2>1, <2>2 DEF Passing
<1>5. CASE UNCHANGED vars
  <2>1. UNCHANGED <<next, queue, hand, stage, results, recorded>>
    BY <1>5 DEF vars
  <2> QED
    BY <1>1, <2>1, SameJournal DEF Passing
<1>6. CASE \E q \in Packets : Resume(q)
  BY <1>6, ResumeOrder
<1> QED
  BY <1>2, <1>3, <1>4, <1>5, <1>6 DEF Next

(* Telemetry hears of the delivered packets of a flow in the order they were
   sent, although handlers and workers overtake each other on the full queue
   of results. *)
THEOREM DeliveryInOrder == Spec => []DeliveredInOrder
<1>1. Init => TypeInv /\ OrderInv
  BY InitTypeInv, InitOrderInv
<1>2. TypeInv /\ OrderInv /\ [Next]_vars => TypeInv' /\ OrderInv'
  BY NextTypeInv, NextOrder
<1>3. OrderInv => DeliveredInOrder
  BY DEF OrderInv, JournalInOrder, DeliveredInOrder, Before, FlowOf
<1> QED
  BY <1>1, <1>2, <1>3, PTL DEF Spec
-----------------------------------------------------------------------------
(* Where a packet is, without counting. *)
InQueue(p) == \E i \in DOMAIN queue[SliceFor[p]] : queue[SliceFor[p]][i] = p
Served(p) == stage[SliceFor[p]] # "idle" /\ Holds(SliceFor[p]) = p
InJournal(p) == \E k \in DOMAIN Journal : Journal[k].packet = p

LEMMA CountPositive ==
    ASSUME NEW X, NEW seq \in Seq(X), NEW hits, NEW i \in DOMAIN seq, seq[i] \in hits
    PROVE  Count(hits, seq) >= 1
<1> DEFINE h == {j \in DOMAIN seq : seq[j] \in hits}
<1>1. IsFiniteSet(h) /\ Cardinality(h) \in Nat /\ Count(hits, seq) = Cardinality(h)
  BY CountType DEF Count
<1>2. h # {}
  OBVIOUS
<1> HIDE DEF h
<1>3. Cardinality(h) # 0
  BY <1>1, <1>2, FS_EmptySet
<1> QED
  BY <1>1, <1>3

LEMMA CountTwo ==
    ASSUME NEW X, NEW seq \in Seq(X), NEW hits,
           NEW i \in DOMAIN seq, NEW j \in DOMAIN seq, i # j, seq[i] \in hits, seq[j] \in hits
    PROVE  Count(hits, seq) >= 2
<1> DEFINE h == {k \in DOMAIN seq : seq[k] \in hits}
<1>1. IsFiniteSet(h) /\ Cardinality(h) \in Nat /\ Count(hits, seq) = Cardinality(h)
  BY CountType DEF Count
<1>2. i \in h /\ j \in h \ {i}
  OBVIOUS
<1> HIDE DEF h
<1>3. IsFiniteSet(h \ {i}) /\ Cardinality(h \ {i}) = Cardinality(h) - 1
  BY <1>1, <1>2, FS_RemoveElement
<1>4. h \ {i} # {}
  BY <1>2
<1>5. Cardinality(h \ {i}) # 0
  BY <1>3, <1>4, FS_EmptySet
<1>6. Cardinality(h \ {i}) \in Nat
  BY <1>3, FS_CardinalityType
<1> QED
  BY <1>1, <1>3, <1>5, <1>6

(* A packet is in at most one place, nowhere before it has arrived, and at most
   once in the journal. *)
LEMMA PlacesExclude ==
    ASSUME TypeInv, OnePlace, NEW p \in Packets
    PROVE  /\ InQueue(p) => ~Served(p) /\ p \notin blocked /\ ~InJournal(p)
           /\ Served(p) => p \notin blocked /\ ~InJournal(p)
           /\ p \in blocked => ~InJournal(p)
           /\ ~Arrived(p) => ~InQueue(p) /\ ~Served(p) /\ p \notin blocked /\ ~InJournal(p)
           /\ \A k, l \in DOMAIN Journal :
                Journal[k].packet = p /\ Journal[l].packet = p => k = l
<1> DEFINE s == SliceFor[p]
<1>0. TypeOK /\ s \in Slices /\ queue[s] \in Seq(Packets) /\ Journal \in Seq(Reports)
  BY SliceForType, JournalType DEF TypeInv, TypeOK
<1>1. InQueue(p) => Queued(p) >= 1
  <2>1. SUFFICES ASSUME NEW i \in DOMAIN queue[s], queue[s][i] \in {p}
                 PROVE  Count({p}, queue[s]) >= 1
    BY DEF InQueue, Queued
  <2> QED
    BY <1>0, <2>1, CountPositive
<1>2. Served(p) => InHand(p) >= 1
  <2>1. SUFFICES ASSUME Served(p) PROVE InHand(p) >= 1
    OBVIOUS
  <2>2. hand[s] = <<p>>
    BY <1>0, <2>1, HoldsFacts DEF Served
  <2>3. InHand(p) = Count({p}, <<p>>)
    BY <2>2 DEF InHand
  <2> QED
    BY <2>3, CountOne
<1>3. p \in blocked => Suspended(p) >= 1
  BY SuspendedIs
<1>4. \A k \in DOMAIN Journal : Journal[k].packet = p => Journal[k] \in AnyReportOf(p)
  BY <1>0, JournalEntries DEF AnyReportOf, Reports
<1>5. InJournal(p) => Reported(p) >= 1
  <2>1. SUFFICES ASSUME NEW k \in DOMAIN Journal, Journal[k].packet = p
                 PROVE  Count(AnyReportOf(p), Journal) >= 1
    BY DEF InJournal, Reported
  <2>2. Journal[k] \in AnyReportOf(p)
    BY <1>4, <2>1
  <2> QED
    BY <1>0, <2>2, CountPositive
<1>6. ASSUME NEW k \in DOMAIN Journal, NEW l \in DOMAIN Journal,
             Journal[k].packet = p, Journal[l].packet = p, k # l
      PROVE  Reported(p) >= 2
  <2>1. Journal[k] \in AnyReportOf(p) /\ Journal[l] \in AnyReportOf(p)
    BY <1>4, <1>6
  <2>2. Count(AnyReportOf(p), Journal) >= 2
    BY <1>0, <1>6, <2>1, CountTwo
  <2> QED
    BY <2>2 DEF Reported
<1>7. Queued(p) + InHand(p) + Suspended(p) + Reported(p) = (IF Arrived(p) THEN 1 ELSE 0)
  BY DEF OnePlace, Copies
<1>8. Queued(p) \in Nat /\ InHand(p) \in Nat /\ Suspended(p) \in Nat /\ Reported(p) \in Nat
  BY CopiesTypes
<1>9. \A k, l \in DOMAIN Journal : Journal[k].packet = p /\ Journal[l].packet = p => k = l
  BY <1>6, <1>7, <1>8
<1> HIDE DEF s
<1> QED
  BY <1>1, <1>2, <1>3, <1>5, <1>7, <1>8, <1>9

IsDelivered(p) ==
    \/ \E k \in DOMAIN Journal : Journal[k].packet = p /\ ~Journal[k].dropped
    \/ Served(p) /\ stage[SliceFor[p]] = "late"
IsDropped(p) ==
    \/ \E k \in DOMAIN Journal : Journal[k].packet = p /\ Journal[k].dropped
    \/ Served(p) /\ stage[SliceFor[p]] = "lost"
    \/ p \in blocked
IsWaiting(p) ==
    \/ InQueue(p)
    \/ Served(p) /\ stage[SliceFor[p]] \in {"taken", "delay"}

OutcomesTell ==
    \A p \in Packets :
        /\ OutcomeOf(p) = "delivered" <=> IsDelivered(p)
        /\ OutcomeOf(p) = "dropped" <=> IsDropped(p)
        /\ OutcomeOf(p) = "waiting" <=> IsWaiting(p)
        /\ OutcomeOf(p) = "unseen" <=> ~IsDelivered(p) /\ ~IsDropped(p) /\ ~IsWaiting(p)
        /\ OutcomeOf(p) \in {"delivered", "dropped", "waiting", "unseen"}

LEMMA WaitingEntries ==
    ASSUME TypeInv, NEW s \in Slices
    PROVE  /\ WaitingIn(s) \in Seq(Packets)
           /\ \A p : (\E i \in DOMAIN WaitingIn(s) : WaitingIn(s)[i] = p) <=>
                \/ stage[s] \in {"taken", "delay"} /\ Holds(s) = p
                \/ \E i \in DOMAIN queue[s] : queue[s][i] = p
<1>0. queue[s] \in Seq(Packets)
  BY DEF TypeInv, TypeOK
<1>1. CASE stage[s] \in {"taken", "delay"}
  <2>1. WaitingIn(s) = <<Holds(s)>> \o queue[s] /\ Holds(s) \in Packets
    BY <1>1, HoldsFacts DEF WaitingIn
  <2>2. <<Holds(s)>> \in Seq(Packets) /\ Len(<<Holds(s)>>) = 1
    BY <2>1
  <2>3. /\ <<Holds(s)>> \o queue[s] \in Seq(Packets)
        /\ Len(<<Holds(s)>> \o queue[s]) = 1 + Len(queue[s])
        /\ \A i \in 1 .. 1 + Len(queue[s]) : (<<Holds(s)>> \o queue[s])[i] =
             IF i <= 1 THEN <<Holds(s)>>[i] ELSE queue[s][i - 1]
    BY <1>0, <2>2, ConcatProperties
  <2>4. /\ DOMAIN WaitingIn(s) = 1 .. 1 + Len(queue[s])
        /\ Len(queue[s]) \in Nat /\ DOMAIN queue[s] = 1 .. Len(queue[s])
    BY <1>0, <2>1, <2>3, LenProperties
  <2>5. /\ WaitingIn(s)[1] = Holds(s)
        /\ \A i \in DOMAIN queue[s] : i + 1 \in DOMAIN WaitingIn(s) /\ WaitingIn(s)[i + 1] = queue[s][i]
        /\ \A i \in DOMAIN WaitingIn(s) : i # 1 =>
              i - 1 \in DOMAIN queue[s] /\ WaitingIn(s)[i] = queue[s][i - 1]
    BY <2>1, <2>3, <2>4
  <2>6. 1 \in DOMAIN WaitingIn(s)
    BY <2>4
  <2>7. WaitingIn(s) \in Seq(Packets)
    BY <2>1, <2>3
  <2>8. ASSUME NEW p
        PROVE  (\E i \in DOMAIN WaitingIn(s) : WaitingIn(s)[i] = p) <=>
                  Holds(s) = p \/ \E i \in DOMAIN queue[s] : queue[s][i] = p
    BY <2>5, <2>6
  <2> QED
    BY <1>1, <2>7, <2>8
<1>2. CASE stage[s] \notin {"taken", "delay"}
  <2>1. WaitingIn(s) = queue[s]
    BY <1>0, <1>2, ConcatEmptySeq DEF WaitingIn
  <2> QED
    BY <1>0, <1>2, <2>1
<1> QED
  BY <1>1, <1>2

LEMMA OutcomesOf == TypeInv /\ OnePlace => OutcomesTell
<1> SUFFICES ASSUME TypeInv, OnePlace, NEW p \in Packets
             PROVE  /\ OutcomeOf(p) = "delivered" <=> IsDelivered(p)
                    /\ OutcomeOf(p) = "dropped" <=> IsDropped(p)
                    /\ OutcomeOf(p) = "waiting" <=> IsWaiting(p)
                    /\ OutcomeOf(p) = "unseen" <=>
                         ~IsDelivered(p) /\ ~IsDropped(p) /\ ~IsWaiting(p)
                    /\ OutcomeOf(p) \in {"delivered", "dropped", "waiting", "unseen"}
  BY DEF OutcomesTell
<1>0. SliceFor[p] \in Slices /\ TypeOK
  BY SliceForType DEF TypeInv
<1>1. \A s \in Slices : stage[s] # "idle" /\ Holds(s) = p => SliceFor[p] = s
  BY HoldsFacts
<1>2. \A s \in Slices : \A i \in DOMAIN queue[s] : queue[s][i] = p => SliceFor[p] = s
  BY QueueTypes
<1>3. p \in ToldBy(Journal, FALSE) \union HeldAs("late") <=> IsDelivered(p)
  <2>1. p \in ToldBy(Journal, FALSE) <=>
            \E k \in DOMAIN Journal : Journal[k].packet = p /\ ~Journal[k].dropped
    BY <1>0, JournalEntries DEF ToldBy
  <2>2. p \in HeldAs("late") <=> Served(p) /\ stage[SliceFor[p]] = "late"
    BY <1>0, <1>1 DEF HeldAs, Served
  <2> QED
    BY <2>1, <2>2 DEF IsDelivered
<1>4. p \in ToldBy(Journal, TRUE) \union HeldAs("lost") \union blocked <=> IsDropped(p)
  <2>1. p \in ToldBy(Journal, TRUE) <=>
            \E k \in DOMAIN Journal : Journal[k].packet = p /\ Journal[k].dropped
    BY <1>0, JournalEntries DEF ToldBy
  <2>2. p \in HeldAs("lost") <=> Served(p) /\ stage[SliceFor[p]] = "lost"
    BY <1>0, <1>1 DEF HeldAs, Served
  <2> QED
    BY <2>1, <2>2 DEF IsDropped
<1>5. (\E s \in Slices : \E i \in DOMAIN WaitingIn(s) : WaitingIn(s)[i] = p) <=> IsWaiting(p)
  <2>1. (\E s \in Slices : \E i \in DOMAIN WaitingIn(s) : WaitingIn(s)[i] = p) <=>
          \E s \in Slices : \/ stage[s] \in {"taken", "delay"} /\ Holds(s) = p
                            \/ \E i \in DOMAIN queue[s] : queue[s][i] = p
    BY WaitingEntries
  <2> QED
    BY <1>0, <1>1, <1>2, <2>1 DEF IsWaiting, InQueue, Served
<1>6. /\ ~(IsDelivered(p) /\ IsDropped(p))
      /\ ~(IsDelivered(p) /\ IsWaiting(p))
      /\ ~(IsDropped(p) /\ IsWaiting(p))
  BY PlacesExclude DEF IsDelivered, IsDropped, IsWaiting, InJournal
<1> DEFINE a == p \in ToldBy(Journal, FALSE) \union HeldAs("late")
           b == p \in ToldBy(Journal, TRUE) \union HeldAs("lost") \union blocked
           c == \E s \in Slices : \E i \in DOMAIN WaitingIn(s) : WaitingIn(s)[i] = p
<1>7. OutcomeOf(p) = CASE a -> "delivered" [] b -> "dropped" [] c -> "waiting"
                       [] OTHER -> "unseen"
  BY DEF OutcomeOf
<1>8. (a <=> IsDelivered(p)) /\ (b <=> IsDropped(p)) /\ (c <=> IsWaiting(p))
  BY <1>3, <1>4, <1>5
<1> HIDE DEF a, b, c
<1> QED
  BY <1>6, <1>7, <1>8

LEMMA OutcomesNext == TypeInv' /\ OnePlace' => OutcomesTell'
  BY OutcomesOf, PTL
(* What telemetry has been told, as PacketLedger sees it. *)
Heard == {recorded[i].packet : i \in DOMAIN recorded}

ToldDelivered(p) == \E k \in DOMAIN Journal : Journal[k].packet = p /\ ~Journal[k].dropped
ToldDropped(p) == \E k \in DOMAIN Journal : Journal[k].packet = p /\ Journal[k].dropped

LEMMA JoinMaps ==
    ASSUME NEW q \in Packets,
           OutcomeOf(q) = "unseen", OutcomeOf(q)' = "waiting",
           \A p \in Packets : p # q => OutcomeOf(p)' = OutcomeOf(p),
           WaitingIn(SliceFor[q])' = Append(WaitingIn(SliceFor[q]), q),
           \A s \in Slices : s # SliceFor[q] => WaitingIn(s)' = WaitingIn(s),
           Heard' = Heard
    PROVE  Ledger!Join(q)
<1>1. [p \in Packets |-> OutcomeOf(p)]' =
        [[p \in Packets |-> OutcomeOf(p)] EXCEPT ![q] = "waiting"]
  OBVIOUS
<1>2. [s \in Slices |-> WaitingIn(s)]' =
        [[s \in Slices |-> WaitingIn(s)] EXCEPT
            ![SliceFor[q]] = Append([s \in Slices |-> WaitingIn(s)][SliceFor[q]], q)]
  BY SliceForType
<1> QED
  BY <1>1, <1>2 DEF Ledger!Join, Heard

LEMMA TurnAwayMaps ==
    ASSUME NEW q \in Packets,
           OutcomeOf(q) = "unseen", OutcomeOf(q)' = "dropped",
           \A p \in Packets : p # q => OutcomeOf(p)' = OutcomeOf(p),
           \A s \in Slices : WaitingIn(s)' = WaitingIn(s),
           Heard' = Heard
    PROVE  Ledger!TurnAway(q)
<1>1. [p \in Packets |-> OutcomeOf(p)]' =
        [[p \in Packets |-> OutcomeOf(p)] EXCEPT ![q] = "dropped"]
  OBVIOUS
<1>2. [s \in Slices |-> WaitingIn(s)]' = [s \in Slices |-> WaitingIn(s)]
  OBVIOUS
<1> QED
  BY <1>1, <1>2 DEF Ledger!TurnAway, Heard

LEMMA DecideMaps ==
    ASSUME NEW s \in Slices, NEW q \in Packets, WaitingIn(s) # <<>>, q = Head(WaitingIn(s)),
           OutcomeOf(q)' \in {"delivered", "dropped"},
           \A p \in Packets : p # q => OutcomeOf(p)' = OutcomeOf(p),
           WaitingIn(s)' = Tail(WaitingIn(s)),
           \A t \in Slices : t # s => WaitingIn(t)' = WaitingIn(t),
           Heard' = Heard
    PROVE  Ledger!Decide(s)
<1> DEFINE line == [t \in Slices |-> WaitingIn(t)]
           outcome == [p \in Packets |-> OutcomeOf(p)]
<1>1. PICK v \in {"delivered", "dropped"} : OutcomeOf(q)' = v
  OBVIOUS
<1>2. outcome' = [outcome EXCEPT ![q] = v]
  BY <1>1
<1>3. line' = [line EXCEPT ![s] = Tail(line[s])]
  OBVIOUS
<1>4. line[s] # <<>> /\ Head(line[s]) = q
  OBVIOUS
<1>5. outcome' = [outcome EXCEPT ![Head(line[s])] = v]
  BY <1>2, <1>4
<1> QED
  BY <1>3, <1>4, <1>5 DEF Ledger!Decide, Heard

LEMMA TellMaps ==
    ASSUME NEW q \in Packets, OutcomeOf(q) \in {"delivered", "dropped"}, q \notin Heard,
           \A p \in Packets : OutcomeOf(p)' = OutcomeOf(p),
           \A s \in Slices : WaitingIn(s)' = WaitingIn(s),
           Heard' = Heard \union {q}
    PROVE  Ledger!Tell(q)
<1>1. [p \in Packets |-> OutcomeOf(p)]' = [p \in Packets |-> OutcomeOf(p)]
  OBVIOUS
<1>2. [s \in Slices |-> WaitingIn(s)]' = [s \in Slices |-> WaitingIn(s)]
  OBVIOUS
<1> QED
  BY <1>1, <1>2 DEF Ledger!Tell, Heard

LEMMA StutterMaps ==
    ASSUME \A p \in Packets : OutcomeOf(p)' = OutcomeOf(p),
           \A s \in Slices : WaitingIn(s)' = WaitingIn(s),
           Heard' = Heard
    PROVE  UNCHANGED Ledger!lvars
<1>1. [p \in Packets |-> OutcomeOf(p)]' = [p \in Packets |-> OutcomeOf(p)]
  OBVIOUS
<1>2. [s \in Slices |-> WaitingIn(s)]' = [s \in Slices |-> WaitingIn(s)]
  OBVIOUS
<1> QED
  BY <1>1, <1>2 DEF Ledger!lvars, Heard
LEMMA SameOutcome ==
    ASSUME OutcomesTell, OutcomesTell', NEW p \in Packets,
           IsDelivered(p)' <=> IsDelivered(p),
           IsDropped(p)' <=> IsDropped(p),
           IsWaiting(p)' <=> IsWaiting(p)
    PROVE  OutcomeOf(p)' = OutcomeOf(p)
<1>1. /\ OutcomeOf(p) = "delivered" <=> IsDelivered(p)
      /\ OutcomeOf(p) = "dropped" <=> IsDropped(p)
      /\ OutcomeOf(p) = "waiting" <=> IsWaiting(p)
      /\ OutcomeOf(p) \in {"delivered", "dropped", "waiting", "unseen"}
  BY DEF OutcomesTell
<1>2. /\ OutcomeOf(p)' = "delivered" <=> IsDelivered(p)'
      /\ OutcomeOf(p)' = "dropped" <=> IsDropped(p)'
      /\ OutcomeOf(p)' = "waiting" <=> IsWaiting(p)'
      /\ OutcomeOf(p)' \in {"delivered", "dropped", "waiting", "unseen"}
  BY DEF OutcomesTell
<1> QED
  BY <1>1, <1>2

LEMMA JournalTells ==
    ASSUME TypeOK, Room, NEW q \in Packets, NEW d \in BOOLEAN, Put(q, d),
           recorded' = recorded, NEW p \in Packets
    PROVE  /\ ToldDelivered(p)' <=> ToldDelivered(p) \/ (p = q /\ ~d)
           /\ ToldDropped(p)' <=> ToldDropped(p) \/ (p = q /\ d)
<1> DEFINE n == Len(Journal)
<1>1. /\ DOMAIN Journal' = 1 .. n + 1
      /\ \A k \in DOMAIN Journal : Journal'[k] = Journal[k]
      /\ Journal'[n + 1].packet = q
      /\ Journal'[n + 1].dropped = d
      /\ n \in Nat /\ DOMAIN Journal = 1 .. n
  BY PutEntries, JournalEntries
<1> HIDE DEF n
<1>2. \A k \in DOMAIN Journal' : k \in DOMAIN Journal \/ k = n + 1
  BY <1>1
<1>3. DOMAIN Journal \subseteq DOMAIN Journal' /\ n + 1 \in DOMAIN Journal'
  BY <1>1
<1>4. ToldDelivered(p)' <=> \E k \in DOMAIN Journal' : Journal'[k].packet = p /\ ~Journal'[k].dropped
  BY DEF ToldDelivered
<1>5. ToldDropped(p)' <=> \E k \in DOMAIN Journal' : Journal'[k].packet = p /\ Journal'[k].dropped
  BY DEF ToldDropped
<1>6. ToldDelivered(p)' <=> ToldDelivered(p) \/ (p = q /\ ~d)
  BY <1>1, <1>2, <1>3, <1>4 DEF ToldDelivered
<1>7. ToldDropped(p)' <=> ToldDropped(p) \/ (p = q /\ d)
  BY <1>1, <1>2, <1>3, <1>5 DEF ToldDropped
<1> QED
  BY <1>6, <1>7

LEMMA JournalTellsSame ==
    Journal' = Journal =>
        \A p : (ToldDelivered(p)' <=> ToldDelivered(p)) /\ (ToldDropped(p)' <=> ToldDropped(p))
  BY DEF ToldDelivered, ToldDropped

LEMMA OutcomeByTold ==
    \A p : /\ IsDelivered(p) <=> ToldDelivered(p) \/ (Served(p) /\ stage[SliceFor[p]] = "late")
           /\ IsDropped(p) <=> \/ ToldDropped(p)
                               \/ Served(p) /\ stage[SliceFor[p]] = "lost"
                               \/ p \in blocked
  BY DEF IsDelivered, IsDropped, ToldDelivered, ToldDropped

LEMMA OutcomeByToldNext ==
    \A p : /\ IsDelivered(p)' <=> ToldDelivered(p)' \/ (Served(p)' /\ stage'[SliceFor[p]] = "late")
           /\ IsDropped(p)' <=> \/ ToldDropped(p)'
                                \/ Served(p)' /\ stage'[SliceFor[p]] = "lost"
                                \/ p \in blocked'
  BY DEF IsDelivered, IsDropped, ToldDelivered, ToldDropped

(* Nothing but the places tells the outcome. *)
LEMMA PlacesTell ==
    ASSUME OutcomesTell, OutcomesTell', NEW p \in Packets,
           Journal' = Journal,
           UNCHANGED stage,
           Served(p)' <=> Served(p), InQueue(p)' <=> InQueue(p),
           p \in blocked' <=> p \in blocked
    PROVE  OutcomeOf(p)' = OutcomeOf(p)
<1>1. (ToldDelivered(p)' <=> ToldDelivered(p)) /\ (ToldDropped(p)' <=> ToldDropped(p))
  BY JournalTellsSame
<1>2. (IsDelivered(p)' <=> IsDelivered(p)) /\ (IsDropped(p)' <=> IsDropped(p))
  BY <1>1, OutcomeByTold, OutcomeByToldNext
<1>3. IsWaiting(p)' <=> IsWaiting(p)
  BY DEF IsWaiting
<1> QED
  BY <1>2, <1>3, SameOutcome

LEMMA LinesKept ==
    UNCHANGED <<stage, hand, queue>> => \A s \in Slices : WaitingIn(s)' = WaitingIn(s)
  BY DEF WaitingIn

LEMMA HeardKept == recorded' = recorded => Heard' = Heard
  BY DEF Heard

LEMMA EnqueueRefines ==
    ASSUME TypeInv, OnePlace, OutcomesTell, OutcomesTell', NEW f \in Flows, Enqueue(f)
    PROVE  \E q \in Packets : Ledger!Join(q)
<1> DEFINE q == Due(f)
           t == SliceOf[f]
           n == Len(queue[t])
<1>0. /\ TypeOK /\ Starts(f)
      /\ UNCHANGED <<stage, hand, results, recorded, blocked>>
      /\ queue' = [queue EXCEPT ![t] = Append(queue[t], q)]
      /\ queue \in [Slices -> Seq(Packets)]
  BY DEF TypeInv, TypeOK, Enqueue
<1>1. /\ q \in Packets /\ SliceFor[q] = t /\ t \in Slices /\ ~Arrived(q)
  BY <1>0, DueFacts
<1>2. /\ Append(queue[t], q) \in Seq(Packets)
      /\ DOMAIN Append(queue[t], q) = 1 .. n + 1
      /\ n \in Nat /\ DOMAIN queue[t] = 1 .. n
      /\ \A i \in 1 .. n : Append(queue[t], q)[i] = queue[t][i]
      /\ Append(queue[t], q)[n + 1] = q
  BY <1>0, <1>1, AppendProperties, LenProperties
<1>3. PICK p0 \in Packets : p0 = q
  BY <1>1
<1> HIDE DEF q, t, n
<1>4. ~InQueue(p0) /\ ~Served(p0) /\ p0 \notin blocked /\ ~InJournal(p0)
  BY <1>1, <1>3, PlacesExclude
<1>5. OutcomeOf(p0) = "unseen"
  BY <1>4 DEF OutcomesTell, IsDelivered, IsDropped, IsWaiting, InJournal
<1>6. queue'[SliceFor[p0]] = Append(queue[SliceFor[p0]], p0)
  BY <1>0, <1>1, <1>3
<1>7. InQueue(p0)'
  <2>1. n + 1 \in DOMAIN queue'[SliceFor[p0]] /\ queue'[SliceFor[p0]][n + 1] = p0
    BY <1>1, <1>2, <1>3, <1>6
  <2> QED
    BY <2>1 DEF InQueue
<1>8. OutcomeOf(p0)' = "waiting"
  BY <1>7 DEF OutcomesTell, IsWaiting
<1>9. Journal' = Journal
  BY <1>0, SameJournal
<1>10. ASSUME NEW p \in Packets, p # p0
       PROVE  OutcomeOf(p)' = OutcomeOf(p)
  <2>1. Served(p)' <=> Served(p)
    BY <1>0 DEF Served, Holds
  <2>2. InQueue(p)' <=> InQueue(p)
    <3>1. CASE SliceFor[p] = t
      <4>1. queue'[SliceFor[p]] = Append(queue[t], q)
        BY <1>0, <1>1, <3>1
      <4>2. (\E i \in 1 .. n + 1 : Append(queue[t], q)[i] = p) <=> \E i \in 1 .. n : queue[t][i] = p
        BY <1>2, <1>3, <1>10
      <4> QED
        BY <1>2, <3>1, <4>1, <4>2 DEF InQueue
    <3>2. CASE SliceFor[p] # t
      <4>1. queue'[SliceFor[p]] = queue[SliceFor[p]]
        BY <1>0, <1>1, <3>2, SliceForType
      <4> QED
        BY <4>1 DEF InQueue
    <3> QED
      BY <3>1, <3>2
  <2>3. UNCHANGED stage /\ (p \in blocked' <=> p \in blocked)
    BY <1>0
  <2> QED
    BY <1>9, <2>1, <2>2, <2>3, PlacesTell
<1>11. WaitingIn(SliceFor[p0])' = Append(WaitingIn(SliceFor[p0]), p0)
  <2> DEFINE s == SliceFor[p0]
             ahead == IF stage[s] \in {"taken", "delay"} THEN hand[s] ELSE <<>>
  <2>1. s \in Slices /\ queue[s] \in Seq(Packets) /\ ahead \in Seq(Packets)
    <3>1. s \in Slices /\ hand[s] \in {<<>>} \union {<<p>> : p \in Packets}
      BY <1>0, SliceForType DEF TypeOK
    <3>2. \A p \in Packets : <<p>> \in Seq(Packets)
      OBVIOUS
    <3>3. <<>> \in Seq(Packets)
      BY EmptySeq
    <3>4. hand[s] \in Seq(Packets)
      BY <3>1, <3>2, <3>3
    <3>5. ahead \in Seq(Packets)
      BY <3>3, <3>4
    <3>6. queue[s] \in Seq(Packets)
      BY <1>0, <3>1
    <3> QED
      BY <3>1, <3>5, <3>6
  <2>2. WaitingIn(s) = ahead \o queue[s] /\ WaitingIn(s)' = ahead \o queue'[s]
    BY <1>0 DEF WaitingIn
  <2> HIDE DEF s, ahead
  <2>3. ahead \o Append(queue[s], p0) = Append(ahead \o queue[s], p0)
    BY <2>1, ConcatAppend
  <2> QED
    BY <1>6, <2>2, <2>3 DEF s
<1>12. \A s \in Slices : s # SliceFor[p0] => WaitingIn(s)' = WaitingIn(s)
  BY <1>0, <1>1, <1>3 DEF WaitingIn
<1>13. Heard' = Heard
  BY <1>0, HeardKept
<1>14. Ledger!Join(p0)
  BY <1>5, <1>8, <1>10, <1>11, <1>12, <1>13, JoinMaps
<1> QED
  BY <1>14

LEMMA OverflowRefines ==
    ASSUME TypeInv, OnePlace, OutcomesTell, OutcomesTell', NEW f \in Flows, Overflow(f)
    PROVE  \E q \in Packets : Ledger!TurnAway(q)
<1>0. /\ TypeOK /\ Starts(f)
      /\ UNCHANGED <<stage, hand, queue, recorded>>
  BY DEF TypeInv, Overflow
<1>1. Due(f) \in Packets /\ ~Arrived(Due(f))
  BY <1>0, DueFacts
<1>2. PICK q \in Packets : q = Due(f)
  BY <1>1
<1>3. ~InQueue(q) /\ ~Served(q) /\ q \notin blocked /\ ~InJournal(q)
  BY <1>1, <1>2, PlacesExclude
<1>4. OutcomeOf(q) = "unseen"
  BY <1>3 DEF OutcomesTell, IsDelivered, IsDropped, IsWaiting, InJournal
<1>5. \A p \in Packets : (Served(p)' <=> Served(p)) /\ (InQueue(p)' <=> InQueue(p))
  BY <1>0 DEF Served, Holds, InQueue
<1>6. /\ IsDropped(q)'
      /\ \A p \in Packets : p # q =>
            (IsDelivered(p)' <=> IsDelivered(p)) /\ (IsDropped(p)' <=> IsDropped(p))
  <2>1. CASE Room /\ Put(q, TRUE) /\ UNCHANGED blocked
    <3>1. \A p \in Packets : /\ ToldDelivered(p)' <=> ToldDelivered(p)
                             /\ ToldDropped(p)' <=> ToldDropped(p) \/ p = q
      BY <1>0, <2>1, JournalTells
    <3> QED
      BY <1>0, <1>5, <2>1, <3>1, OutcomeByTold, OutcomeByToldNext
  <2>2. CASE blocked' = blocked \union {q} /\ UNCHANGED results
    <3>1. Journal' = Journal
      BY <1>0, <2>2, SameJournal
    <3>2. \A p : (ToldDelivered(p)' <=> ToldDelivered(p)) /\ (ToldDropped(p)' <=> ToldDropped(p))
      BY <3>1, JournalTellsSame
    <3> QED
      BY <1>0, <1>5, <2>2, <3>2, OutcomeByTold, OutcomeByToldNext
  <2> QED
    BY <1>2, <2>1, <2>2 DEF Overflow
<1>7. \A p \in Packets : IsWaiting(p)' <=> IsWaiting(p)
  BY <1>0, <1>5 DEF IsWaiting
<1>8. \A p \in Packets : p # q => OutcomeOf(p)' = OutcomeOf(p)
  BY <1>6, <1>7, SameOutcome
<1>9. OutcomeOf(q)' = "dropped"
  BY <1>6 DEF OutcomesTell
<1>10. Heard' = Heard /\ \A s \in Slices : WaitingIn(s)' = WaitingIn(s)
  BY <1>0, HeardKept, LinesKept
<1>11. Ledger!TurnAway(q)
  BY <1>4, <1>8, <1>9, <1>10, TurnAwayMaps
<1> QED
  BY <1>11

LEMMA ResumeRefines ==
    ASSUME TypeInv, OnePlace, OutcomesTell, OutcomesTell', NEW q \in Packets, Resume(q)
    PROVE  UNCHANGED Ledger!lvars
<1>0. /\ TypeOK /\ Room /\ Put(q, TRUE) /\ q \in blocked /\ blocked' = blocked \ {q}
      /\ UNCHANGED <<stage, hand, queue, recorded>>
  BY DEF TypeInv, Resume
<1>1. \A p \in Packets : (Served(p)' <=> Served(p)) /\ (InQueue(p)' <=> InQueue(p))
  BY <1>0 DEF Served, Holds, InQueue
<1>2. \A p \in Packets : /\ ToldDelivered(p)' <=> ToldDelivered(p)
                         /\ ToldDropped(p)' <=> ToldDropped(p) \/ p = q
  BY <1>0, JournalTells
<1>3. \A p \in Packets : (IsDelivered(p)' <=> IsDelivered(p)) /\ (IsDropped(p)' <=> IsDropped(p))
  BY <1>0, <1>1, <1>2, OutcomeByTold, OutcomeByToldNext
<1>4. \A p \in Packets : IsWaiting(p)' <=> IsWaiting(p)
  BY <1>0, <1>1 DEF IsWaiting
<1>5. \A p \in Packets : OutcomeOf(p)' = OutcomeOf(p)
  BY <1>3, <1>4, SameOutcome
<1>6. Heard' = Heard /\ \A s \in Slices : WaitingIn(s)' = WaitingIn(s)
  BY <1>0, HeardKept, LinesKept
<1> QED
  BY <1>5, <1>6, StutterMaps

LEMMA ConsFacts ==
    ASSUME NEW X, NEW e \in X, NEW t \in Seq(X)
    PROVE  <<e>> \o t # <<>> /\ Head(<<e>> \o t) = e /\ Tail(<<e>> \o t) = t
<1> DEFINE c == <<e>> \o t
<1>1. <<e>> \in Seq(X) /\ Len(<<e>>) = 1 /\ <<e>>[1] = e
  OBVIOUS
<1>2. Len(t) \in Nat
  BY LenProperties
<1>3. /\ c \in Seq(X)
      /\ Len(c) = 1 + Len(t)
      /\ \A i \in 1 .. 1 + Len(t) : c[i] = IF i <= 1 THEN <<e>>[i] ELSE t[i - 1]
  BY <1>1, ConcatProperties
<1> HIDE DEF c
<1>4. c # <<>>
  <2>1. Len(<<>>) = 0
    BY EmptySeq
  <2> QED
    BY <1>2, <1>3, <2>1
<1>5. Head(c) = e
  <2>1. c[1] = e
    BY <1>1, <1>2, <1>3
  <2> QED
    BY <1>3, <1>4, <2>1
<1>6. Tail(c) = t
  <2>1. /\ Tail(c) \in Seq(X) /\ Len(Tail(c)) = Len(c) - 1
        /\ \A i \in 1 .. Len(Tail(c)) : Tail(c)[i] = c[i + 1]
    BY <1>3, <1>4, HeadTailProperties
  <2>2. Len(Tail(c)) = Len(t)
    BY <1>2, <1>3, <2>1
  <2>3. ASSUME NEW i \in 1 .. Len(t)
        PROVE  Tail(c)[i] = t[i]
    <3>1. i + 1 \in 1 .. 1 + Len(t) /\ ~(i + 1 <= 1) /\ (i + 1) - 1 = i
      BY <1>2
    <3>2. c[i + 1] = t[i]
      BY <1>3, <3>1
    <3> QED
      BY <2>1, <2>2, <3>2
  <2> QED
    BY <2>1, <2>2, <2>3, SeqEqual
<1> QED
  BY <1>4, <1>5, <1>6 DEF c

LEMMA HeadAndTail ==
    ASSUME NEW X, NEW t \in Seq(X), t # <<>>
    PROVE  <<Head(t)>> \o Tail(t) = t
<1>1. <<>> \in Seq(X) /\ Head(t) \in X /\ Tail(t) \in Seq(X)
  BY EmptySeq, HeadTailProperties
<1>2. Append(<<>>, Head(t)) \o Tail(t) = <<>> \o t
  BY <1>1, ConcatMove
<1>3. Append(<<>>, Head(t)) = <<>> \o <<Head(t)>> /\ <<Head(t)>> \in Seq(X)
  BY <1>1, AppendIsConcat
<1> QED
  BY <1>2, <1>3, ConcatEmptySeq

LEMMA LineOf ==
    ASSUME TypeInv, NEW s \in Slices
    PROVE  /\ stage[s] \in {"taken", "delay"} => WaitingIn(s) = <<Holds(s)>> \o queue[s]
           /\ stage[s] \notin {"taken", "delay"} => WaitingIn(s) = queue[s]
<1>1. queue[s] \in Seq(Packets)
  BY DEF TypeInv, TypeOK
<1>2. CASE stage[s] \in {"taken", "delay"}
  BY <1>2, HoldsFacts DEF WaitingIn
<1>3. CASE stage[s] \notin {"taken", "delay"}
  BY <1>1, <1>3, ConcatEmptySeq DEF WaitingIn
<1> QED
  BY <1>2, <1>3

(* A packet waits exactly when it stands in the line of its slice. *)
InLine(p) ==
    \E i \in DOMAIN WaitingIn(SliceFor[p]) : WaitingIn(SliceFor[p])[i] = p
LinesTell == \A p \in Packets : IsWaiting(p) <=> InLine(p)

LEMMA LinesOf == TypeInv => LinesTell
<1> SUFFICES ASSUME TypeInv, NEW p \in Packets PROVE IsWaiting(p) <=> InLine(p)
  BY DEF LinesTell
<1>1. SliceFor[p] \in Slices
  BY SliceForType
<1>2. InLine(p) <=>
        \/ stage[SliceFor[p]] \in {"taken", "delay"} /\ Holds(SliceFor[p]) = p
        \/ InQueue(p)
  BY <1>1, WaitingEntries DEF InLine, InQueue
<1> QED
  BY <1>2 DEF IsWaiting, Served

LEMMA LinesNext == TypeInv' => LinesTell'
  BY LinesOf, PTL

(* What moves a packet inside its line, and reports nothing, is not seen. *)
LEMMA QuietRefines ==
    ASSUME TypeInv, TypeInv', OutcomesTell, OutcomesTell', NEW s \in Slices,
           UNCHANGED <<results, blocked, recorded>>,
           stage[s] \notin {"late", "lost"}, stage'[s] \notin {"late", "lost"},
           \A t \in Slices : t # s => stage'[t] = stage[t] /\ hand'[t] = hand[t],
           \A t \in Slices : WaitingIn(t)' = WaitingIn(t)
    PROVE  UNCHANGED Ledger!lvars
<1>1. Journal' = Journal
  BY SameJournal
<1>2. \A p : (ToldDelivered(p)' <=> ToldDelivered(p)) /\ (ToldDropped(p)' <=> ToldDropped(p))
  BY <1>1, JournalTellsSame
<1>3. ASSUME NEW p \in Packets
      PROVE  OutcomeOf(p)' = OutcomeOf(p)
  <2>1. SliceFor[p] \in Slices
    BY SliceForType
  <2>2. /\ Served(p)' /\ stage'[SliceFor[p]] = "late" <=> Served(p) /\ stage[SliceFor[p]] = "late"
        /\ Served(p)' /\ stage'[SliceFor[p]] = "lost" <=> Served(p) /\ stage[SliceFor[p]] = "lost"
    <3>1. CASE SliceFor[p] = s
      BY <3>1
    <3>2. CASE SliceFor[p] # s
      BY <2>1, <3>2 DEF Served, Holds
    <3> QED
      BY <3>1, <3>2
  <2>3. (IsDelivered(p)' <=> IsDelivered(p)) /\ (IsDropped(p)' <=> IsDropped(p))
    BY <1>2, <2>2, OutcomeByTold, OutcomeByToldNext
  <2>4. InLine(p)' <=> InLine(p)
    BY <2>1 DEF InLine
  <2>5. IsWaiting(p)' <=> IsWaiting(p)
    BY <2>4, LinesOf, LinesNext DEF LinesTell
  <2> QED
    BY <2>3, <2>5, SameOutcome
<1>4. Heard' = Heard
  BY HeardKept
<1> QED
  BY <1>3, <1>4, StutterMaps

LEMMA FetchRefines ==
    ASSUME TypeInv, TypeInv', OutcomesTell, OutcomesTell', NEW s \in Slices, Fetch(s)
    PROVE  UNCHANGED Ledger!lvars
<1>1. /\ stage \in [Slices -> Stages] /\ hand \in [Slices -> {<<>>} \union {<<p>> : p \in Packets}]
      /\ queue \in [Slices -> Seq(Packets)]
  BY DEF TypeInv, TypeOK
<1>2. /\ stage[s] = "idle" /\ queue[s] # <<>>
      /\ hand' = [hand EXCEPT ![s] = <<Head(queue[s])>>]
      /\ queue' = [queue EXCEPT ![s] = Tail(queue[s])]
      /\ stage' = [stage EXCEPT ![s] = "taken"]
      /\ UNCHANGED <<results, blocked, recorded>>
  BY DEF Fetch, MoveTo
<1>3. stage'[s] = "taken" /\ hand'[s] = <<Head(queue[s])>> /\ queue'[s] = Tail(queue[s])
  BY <1>1, <1>2
<1>4. \A t \in Slices : t # s =>
        stage'[t] = stage[t] /\ hand'[t] = hand[t] /\ queue'[t] = queue[t]
  BY <1>1, <1>2
<1>5. WaitingIn(s)' = WaitingIn(s)
  <2>1. WaitingIn(s) = queue[s]
    BY <1>2, LineOf
  <2>2. WaitingIn(s)' = <<Head(queue[s])>> \o Tail(queue[s])
    BY <1>3 DEF WaitingIn
  <2> QED
    BY <1>1, <1>2, <2>1, <2>2, HeadAndTail
<1>6. \A t \in Slices : t # s => WaitingIn(t)' = WaitingIn(t)
  BY <1>4 DEF WaitingIn
<1> QED
  BY <1>2, <1>3, <1>4, <1>5, <1>6, QuietRefines

LEMMA AdmitRefines ==
    ASSUME TypeInv, TypeInv', OutcomesTell, OutcomesTell', NEW s \in Slices, Admit(s)
    PROVE  UNCHANGED Ledger!lvars
<1>1. stage \in [Slices -> Stages]
  BY DEF TypeInv, TypeOK
<1>2. /\ stage[s] = "taken"
      /\ stage' = [stage EXCEPT ![s] = "delay"]
      /\ UNCHANGED <<hand, queue, results, blocked, recorded>>
  BY DEF Admit, MoveTo
<1>3. stage'[s] = "delay" /\ \A t \in Slices : t # s => stage'[t] = stage[t]
  BY <1>1, <1>2
<1>4. \A t \in Slices : stage'[t] \in {"taken", "delay"} <=> stage[t] \in {"taken", "delay"}
  BY <1>2, <1>3
<1>5. \A t \in Slices : WaitingIn(t)' = WaitingIn(t)
  BY <1>2, <1>4 DEF WaitingIn
<1> QED
  BY <1>2, <1>3, <1>5, QuietRefines

(* Concluding a packet settles it and nothing else. *)
LEMMA ConcludeSettles ==
    ASSUME TypeInv, OutcomesTell, OutcomesTell', NEW s \in Slices, stage[s] # "idle",
           NEW d \in BOOLEAN, Conclude(s, d), UNCHANGED <<queue, blocked, recorded>>,
           NEW q \in Packets, q = Holds(s)
    PROVE  /\ OutcomeOf(q)' = IF d THEN "dropped" ELSE "delivered"
           /\ \A p \in Packets : p # q => OutcomeOf(p)' = OutcomeOf(p)
           /\ WaitingIn(s)' = queue[s]
           /\ \A t \in Slices : t # s => WaitingIn(t)' = WaitingIn(t)
<1>1. /\ TypeOK /\ stage \in [Slices -> Stages] /\ queue[s] \in Seq(Packets)
      /\ hand \in [Slices -> {<<>>} \union {<<p>> : p \in Packets}]
      /\ SliceFor[q] = s
  BY HoldsFacts DEF TypeInv, TypeOK
<1>2. \A t \in Slices : t # s => stage'[t] = stage[t] /\ hand'[t] = hand[t]
  BY <1>1 DEF Conclude, MoveTo
<1>3. stage'[s] \in {"idle", "late", "lost"}
  BY <1>1 DEF Conclude, MoveTo
<1>4. WaitingIn(s)' = queue[s]
  <2>1. WaitingIn(s)' = <<>> \o queue[s]
    BY <1>3 DEF WaitingIn
  <2> QED
    BY <1>1, <2>1, ConcatEmptySeq
<1>5. \A t \in Slices : t # s => WaitingIn(t)' = WaitingIn(t)
  BY <1>2 DEF WaitingIn
<1>6. \A p \in Packets : InQueue(p)' <=> InQueue(p)
  BY DEF InQueue
<1>7. \A p \in Packets : p # q => (Served(p)' <=> Served(p))
  <2> SUFFICES ASSUME NEW p \in Packets, p # q PROVE Served(p)' <=> Served(p)
    OBVIOUS
  <2>1. CASE SliceFor[p] # s
    BY <1>2, <2>1, SliceForType DEF Served, Holds
  <2>2. CASE SliceFor[p] = s
    <3>1. ~Served(p)
      BY <2>2 DEF Served
    <3>2. stage'[s] = "idle" \/ hand' = hand
      BY <1>1 DEF Conclude, MoveTo
    <3> QED
      BY <2>2, <3>1, <3>2 DEF Served, Holds
  <2> QED
    BY <2>1, <2>2
<1>8. \A p \in Packets : p # q /\ Served(p) => SliceFor[p] # s /\ SliceFor[p] \in Slices
  BY SliceForType DEF Served
<1>9. \A p \in Packets : p # q => (IsWaiting(p)' <=> IsWaiting(p))
  BY <1>2, <1>6, <1>7, <1>8 DEF IsWaiting
<1>10. \A p \in Packets : p # q =>
          (ToldDelivered(p)' <=> ToldDelivered(p)) /\ (ToldDropped(p)' <=> ToldDropped(p))
  <2>1. CASE Room /\ Put(q, d)
    BY <1>1, <2>1, JournalTells
  <2>2. CASE UNCHANGED results
    <3>1. Journal' = Journal
      BY <2>2, SameJournal
    <3> QED
      BY <3>1, JournalTellsSame
  <2> QED
    BY <2>1, <2>2 DEF Conclude
<1>11. \A p \in Packets : p # q =>
          (IsDelivered(p)' <=> IsDelivered(p)) /\ (IsDropped(p)' <=> IsDropped(p))
  BY <1>2, <1>7, <1>8, <1>10, OutcomeByTold, OutcomeByToldNext
<1>12. \A p \in Packets : p # q => OutcomeOf(p)' = OutcomeOf(p)
  BY <1>9, <1>11, SameOutcome
<1>13. (d => IsDropped(q)') /\ (~d => IsDelivered(q)')
  <2>1. CASE Room /\ Put(q, d)
    BY <1>1, <2>1, JournalTells, OutcomeByToldNext
  <2>2. CASE MoveTo(s, IF d THEN "lost" ELSE "late") /\ UNCHANGED hand
    <3>1. stage'[s] = IF d THEN "lost" ELSE "late"
      BY <1>1, <2>2 DEF MoveTo
    <3>2. Served(q)'
      BY <1>1, <2>2, <3>1 DEF Served, Holds
    <3> QED
      BY <1>1, <3>1, <3>2, OutcomeByToldNext
  <2> QED
    BY <2>1, <2>2 DEF Conclude
<1>14. OutcomeOf(q)' = IF d THEN "dropped" ELSE "delivered"
  BY <1>13 DEF OutcomesTell
<1> QED
  BY <1>4, <1>5, <1>12, <1>14

LEMMA VerdictRefines ==
    ASSUME TypeInv, OutcomesTell, OutcomesTell', NEW s \in Slices, Refuse(s) \/ Deliver(s)
    PROVE  Ledger!Decide(s)
<1>1. /\ stage[s] \in {"taken", "delay"} /\ stage[s] # "idle"
      /\ UNCHANGED <<queue, blocked, recorded>>
  BY DEF Refuse, Deliver
<1>2. PICK d \in BOOLEAN : Conclude(s, d)
  BY DEF Refuse, Deliver
<1>3. PICK q \in Packets : q = Holds(s)
  BY <1>1, HoldsFacts
<1>4. queue[s] \in Seq(Packets) /\ WaitingIn(s) = <<q>> \o queue[s]
  BY <1>1, <1>3, LineOf DEF TypeInv, TypeOK
<1>5. /\ WaitingIn(s) # <<>> /\ Head(WaitingIn(s)) = q /\ Tail(WaitingIn(s)) = queue[s]
  BY <1>4, ConsFacts
<1>6. /\ OutcomeOf(q)' \in {"delivered", "dropped"}
      /\ \A p \in Packets : p # q => OutcomeOf(p)' = OutcomeOf(p)
      /\ WaitingIn(s)' = queue[s]
      /\ \A t \in Slices : t # s => WaitingIn(t)' = WaitingIn(t)
  BY <1>1, <1>2, <1>3, ConcludeSettles
<1>7. Heard' = Heard
  BY <1>1, HeardKept
<1> QED
  BY <1>5, <1>6, <1>7, DecideMaps

LEMMA PutReportRefines ==
    ASSUME TypeInv, OutcomesTell, OutcomesTell', NEW s \in Slices, PutReport(s)
    PROVE  UNCHANGED Ledger!lvars
<1>1. /\ stage[s] \in {"late", "lost"} /\ stage[s] # "idle"
      /\ stage[s] \notin {"taken", "delay"}
      /\ UNCHANGED <<queue, blocked, recorded>>
  BY DEF PutReport
<1>2. PICK d \in BOOLEAN : d = (stage[s] = "lost")
  OBVIOUS
<1>3. Conclude(s, d)
  BY <1>2 DEF PutReport, Conclude
<1>4. PICK q \in Packets : q = Holds(s)
  BY <1>1, HoldsFacts
<1>5. SliceFor[q] = s /\ Served(q)
  BY <1>1, <1>4, HoldsFacts DEF Served
<1>6. /\ OutcomeOf(q)' = IF d THEN "dropped" ELSE "delivered"
      /\ \A p \in Packets : p # q => OutcomeOf(p)' = OutcomeOf(p)
      /\ WaitingIn(s)' = queue[s]
      /\ \A t \in Slices : t # s => WaitingIn(t)' = WaitingIn(t)
  BY <1>1, <1>3, <1>4, ConcludeSettles
<1>7. OutcomeOf(q)' = OutcomeOf(q)
  <2>1. CASE stage[s] = "lost"
    BY <1>2, <1>5, <1>6, <2>1 DEF OutcomesTell, IsDropped
  <2>2. CASE stage[s] = "late"
    BY <1>2, <1>5, <1>6, <2>2 DEF OutcomesTell, IsDelivered
  <2> QED
    BY <1>1, <2>1, <2>2
<1>8. \A p \in Packets : OutcomeOf(p)' = OutcomeOf(p)
  BY <1>6, <1>7
<1>9. \A t \in Slices : WaitingIn(t)' = WaitingIn(t)
  BY <1>1, <1>6, LineOf
<1>10. Heard' = Heard
  BY <1>1, HeardKept
<1> QED
  BY <1>8, <1>9, <1>10, StutterMaps

LEMMA RecordRefines ==
    ASSUME TypeInv, OnePlace, OutcomesTell, OutcomesTell', Record
    PROVE  \E q \in Packets : Ledger!Tell(q)
<1> DEFINE n == Len(recorded)
<1>1. /\ TypeOK /\ results \in Seq(Reports) /\ results # <<>> /\ recorded \in Seq(Reports)
      /\ recorded' = Append(recorded, Head(results))
      /\ UNCHANGED <<queue, stage, hand, blocked>>
  BY DEF TypeInv, TypeOK, Record
<1>2. Journal' = Journal
  BY <1>1, RecordFacts
<1>3. /\ n \in Nat /\ DOMAIN recorded = 1 .. n
      /\ Len(results) \in Nat \ {0} /\ Head(results) = results[1]
      /\ Head(results) \in Reports
  BY <1>1, LenProperties, EmptySeq, HeadTailProperties
<1>4. PICK q \in Packets : q = Head(results).packet
  BY <1>3 DEF Reports
<1>5. /\ Len(Journal) = n + Len(results)
      /\ \A i \in 1 .. n + Len(results) : Journal[i] =
            IF i <= n THEN recorded[i] ELSE results[i - n]
  BY <1>1, ConcatProperties DEF Journal
<1>6. DOMAIN Journal = 1 .. n + Len(results)
  BY <1>1, <1>5, JournalEntries
<1>7. /\ DOMAIN recorded' = 1 .. n + 1
      /\ \A i \in 1 .. n : recorded'[i] = recorded[i]
      /\ recorded'[n + 1] = Head(results)
  <2>1. /\ Append(recorded, Head(results)) \in Seq(Reports)
        /\ Len(Append(recorded, Head(results))) = n + 1
        /\ \A i \in 1 .. n : Append(recorded, Head(results))[i] = recorded[i]
        /\ Append(recorded, Head(results))[n + 1] = Head(results)
    BY <1>1, <1>3, AppendProperties
  <2>2. DOMAIN Append(recorded, Head(results)) = 1 .. n + 1
    BY <2>1, LenProperties
  <2> QED
    BY <1>1, <2>1, <2>2
<1> HIDE DEF n
<1>8. n + 1 \in DOMAIN Journal /\ Journal[n + 1].packet = q
  <2>1. n + 1 \in 1 .. n + Len(results) /\ ~(n + 1 <= n) /\ (n + 1) - n = 1
    BY <1>3
  <2>2. Journal[n + 1] = results[1]
    BY <1>5, <2>1
  <2> QED
    BY <1>3, <1>4, <1>6, <2>1, <2>2
<1>9. q \notin Heard
  <2>1. SUFFICES ASSUME NEW i \in DOMAIN recorded, recorded[i].packet = q PROVE FALSE
    BY DEF Heard
  <2>2. i \in 1 .. n + Len(results) /\ i <= n /\ i # n + 1
    BY <1>3
  <2>3. i \in DOMAIN Journal /\ Journal[i].packet = q
    BY <1>5, <1>6, <2>1, <2>2
  <2> QED
    BY <1>8, <2>2, <2>3, PlacesExclude
<1>10. OutcomeOf(q) \in {"delivered", "dropped"}
  <2>1. IsDelivered(q) \/ IsDropped(q)
    BY <1>8 DEF IsDelivered, IsDropped
  <2> QED
    BY <2>1 DEF OutcomesTell
<1>11. \A p \in Packets : OutcomeOf(p)' = OutcomeOf(p)
  <2>1. \A p \in Packets : (Served(p)' <=> Served(p)) /\ (InQueue(p)' <=> InQueue(p))
    BY <1>1 DEF Served, Holds, InQueue
  <2> QED
    BY <1>1, <1>2, <2>1, PlacesTell
<1>12. Heard' = Heard \union {q}
  <2>1. Heard' = {recorded'[i].packet : i \in 1 .. n + 1}
    BY <1>7 DEF Heard
  <2>2. Heard = {recorded[i].packet : i \in 1 .. n}
    BY <1>3 DEF Heard
  <2>3. 1 .. n + 1 = (1 .. n) \union {n + 1}
    BY <1>3
  <2> QED
    BY <1>4, <1>7, <2>1, <2>2, <2>3
<1>13. \A s \in Slices : WaitingIn(s)' = WaitingIn(s)
  BY <1>1, LinesKept
<1>14. Ledger!Tell(q)
  BY <1>9, <1>10, <1>11, <1>12, <1>13, TellMaps
<1> QED
  BY <1>14

LEMMA UnseenRefines ==
    ASSUME UNCHANGED <<queue, stage, hand, results, blocked, recorded>>
    PROVE  UNCHANGED Ledger!lvars
<1>1. Journal' = Journal
  BY SameJournal
<1>2. \A s \in Slices : WaitingIn(s)' = WaitingIn(s)
  BY LinesKept
<1>3. \A p \in Packets : OutcomeOf(p)' = OutcomeOf(p)
  BY <1>1, <1>2 DEF OutcomeOf, ToldBy, HeldAs, Holds
<1>4. Heard' = Heard
  BY HeardKept
<1> QED
  BY <1>2, <1>3, <1>4, StutterMaps

LEMMA InitRefines == Init => Ledger!LInit
<1> SUFFICES ASSUME Init PROVE Ledger!LInit
  OBVIOUS
<1>1. Journal = <<>> /\ <<>> \o <<>> = <<>>
  BY ConcatEmptySeq, EmptySeq DEF Init, Journal
<1>2. \A s \in Slices : WaitingIn(s) = <<>>
  BY <1>1 DEF Init, WaitingIn
<1>3. \A p \in Packets : OutcomeOf(p) = "unseen"
  <2> SUFFICES ASSUME NEW p \in Packets PROVE OutcomeOf(p) = "unseen"
    OBVIOUS
  <2>1. ToldBy(Journal, FALSE) = {} /\ ToldBy(Journal, TRUE) = {}
    BY <1>1 DEF ToldBy
  <2>2. HeldAs("late") = {} /\ HeldAs("lost") = {} /\ blocked = {}
    BY DEF Init, HeldAs
  <2>3. ~\E s \in Slices : \E i \in DOMAIN WaitingIn(s) : WaitingIn(s)[i] = p
    BY <1>2
  <2> QED
    BY <2>1, <2>2, <2>3 DEF OutcomeOf
<1>4. {recorded[i].packet : i \in DOMAIN recorded} = {}
  BY DEF Init
<1> QED
  BY <1>2, <1>3, <1>4 DEF Ledger!LInit

LEMMA NextRefines ==
    TypeInv /\ OnePlace /\ [Next]_vars => [Ledger!LNext]_(Ledger!lvars)
<1> SUFFICES ASSUME TypeInv, OnePlace, [Next]_vars PROVE [Ledger!LNext]_(Ledger!lvars)
  OBVIOUS
<1>1. TypeInv' /\ OnePlace'
  BY NextTypeInv, NextOnePlace
<1>2. OutcomesTell /\ OutcomesTell'
  BY <1>1, OutcomesOf, OutcomesNext
<1>3. CASE \E f \in Flows : Enqueue(f)
  BY <1>2, <1>3, EnqueueRefines DEF Ledger!LNext
<1>4. CASE \E f \in Flows : Overflow(f)
  BY <1>2, <1>4, OverflowRefines DEF Ledger!LNext
<1>5. CASE \E f \in Flows : Disconnect(f)
  BY <1>5, UnseenRefines DEF Disconnect
<1>6. CASE \E p \in Packets : Resume(p)
  BY <1>2, <1>6, ResumeRefines
<1>7. ASSUME NEW s \in Slices, Work(s) PROVE [Ledger!LNext]_(Ledger!lvars)
  <2>1. CASE Fetch(s)
    BY <1>1, <1>2, <2>1, FetchRefines
  <2>2. CASE Admit(s)
    BY <1>1, <1>2, <2>2, AdmitRefines
  <2>3. CASE Refuse(s) \/ Deliver(s)
    BY <1>2, <2>3, VerdictRefines DEF Ledger!LNext
  <2>4. CASE PutReport(s)
    BY <1>2, <2>4, PutReportRefines
  <2> QED
    BY <1>7, <2>1, <2>2, <2>3, <2>4 DEF Work
<1>8. CASE Record
  BY <1>2, <1>8, RecordRefines DEF Ledger!LNext
<1>9. CASE UNCHANGED vars
  BY <1>9, UnseenRefines DEF vars
<1> QED
  BY <1>3, <1>4, <1>5, <1>6, <1>7, <1>8, <1>9 DEF Next

(* The slicer with its bounded queues keeps the promise of PacketLedger:
   whatever a handler or a worker does, a packet joins its line or is turned
   away, is decided once and in turn, and telemetry is told once. *)
THEOREM PipelineImplementsLedger == Spec => ImplementsLedger
<1>1. Init => TypeInv /\ OnePlace
  BY InitTypeInv, InitOnePlace
<1>2. TypeInv /\ OnePlace /\ [Next]_vars => TypeInv' /\ OnePlace'
  BY NextTypeInv, NextOnePlace
<1> QED
  BY <1>1, <1>2, InitRefines, NextRefines, PTL
  DEF Spec, ImplementsLedger, Ledger!LSpec

=============================================================================
