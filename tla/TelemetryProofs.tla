--------------------------- MODULE TelemetryProofs ---------------------------
(* Proofs about telemetry.  First the score: whichever loop writes the snapshot
   last, it shows the latest score, and a late inference never replaces a score
   by an older one.  Then types and the bounds of the windows, the breaches of
   the engine, and what the rolling windows say of the results consumed. *)
EXTENDS Telemetry, Induction

(* The newest tick of the window is the last one taken; what an inference
   works on ends with a tick at least as new as the one of the current score. *)
WindowCurrent ==
    /\ window \in Seq(Nat) /\ Len(window) <= MlWindow
    /\ window # <<>> => window[Len(window)] = ticks
    /\ lastScore \in Nat /\ ticks \in Nat
    /\ lastScore <= ticks

InferenceAhead ==
    /\ inference # <<>> =>
         /\ ScoreOf(inference[1]) \in Nat
         /\ lastScore <= ScoreOf(inference[1])
         /\ ScoreOf(inference[1]) <= ticks

(* The snapshot has its four fields. *)
IsSnapshot(s) ==
    s = [tick |-> s.tick, over |-> s.over, score |-> s.score, depth |-> s.depth]
StateIsSnapshot == state # <<>> => IsSnapshot(state[1])

ScoreInv == WindowCurrent /\ InferenceAhead /\ StateIsSnapshot /\ ScoreKept

LEMMA PushLast ==
    ASSUME NEW d \in Seq(Nat), NEW x \in Nat, NEW maxlen \in Nat \ {0},
           Len(d) <= maxlen
    PROVE  /\ Push(d, x, maxlen) \in Seq(Nat)
           /\ Len(Push(d, x, maxlen)) <= maxlen
           /\ Push(d, x, maxlen) # <<>>
           /\ Push(d, x, maxlen)[Len(Push(d, x, maxlen))] = x
<1>1. CASE Len(d) < maxlen
  BY <1>1 DEF Push
<1>2. CASE ~(Len(d) < maxlen)
  <2>1. Len(d) = maxlen /\ d # <<>>
    BY <1>2
  <2>2. Tail(d) \in Seq(Nat) /\ Len(Tail(d)) = maxlen - 1
    BY <2>1
  <2> QED
    BY <1>2, <2>2 DEF Push
<1> QED
  BY <1>1, <1>2

LEMMA InitScoreInv == Init => ScoreInv
  BY TelemetryAssumption DEF Init, ScoreInv, WindowCurrent, InferenceAhead,
        StateIsSnapshot, ScoreKept

LEMMA NextScoreInv == ScoreInv /\ [Next]_vars => ScoreInv' /\ lastScore <= lastScore'
<1> SUFFICES ASSUME ScoreInv, [Next]_vars
             PROVE  ScoreInv' /\ lastScore <= lastScore'
  OBVIOUS
<1>0. /\ MlWindow \in Nat \ {0} /\ MinWindow \in 1 .. MlWindow
      /\ window \in Seq(Nat) /\ Len(window) <= MlWindow
      /\ lastScore \in Nat /\ ticks \in Nat /\ lastScore <= ticks
  BY TelemetryAssumption DEF ScoreInv, WindowCurrent
<1>1. ASSUME NEW isLost, NEW l, NEW at, Record(isLost, l, at)
      PROVE  UNCHANGED <<state, ticks, window, lastScore, inference>>
  BY <1>1 DEF Record
<1>2. CASE UNCHANGED <<state, ticks, window, lastScore, inference>>
  BY <1>0, <1>2
  DEF ScoreInv, WindowCurrent, InferenceAhead, StateIsSnapshot, ScoreKept
<1>3. CASE Elapse
  BY <1>2, <1>3 DEF Elapse
<1>4. CASE TelemetryTick
  <2>1. /\ ticks' = ticks + 1 /\ lastScore' = lastScore /\ inference' = inference
        /\ window' = Push(window, ticks + 1, MlWindow)
        /\ state' = <<Snapshot(lastScore, 0)>>
    BY <1>4 DEF TelemetryTick
  <2>2. WindowCurrent'
    BY <1>0, <2>1, PushLast DEF WindowCurrent
  <2>3. InferenceAhead'
    BY <1>0, <2>1 DEF ScoreInv, InferenceAhead
  <2>4. StateIsSnapshot' /\ ScoreKept'
    BY <2>1 DEF StateIsSnapshot, IsSnapshot, ScoreKept, Snapshot
  <2> QED
    BY <1>0, <2>1, <2>2, <2>3, <2>4 DEF ScoreInv
<1>5. CASE InferenceStarts
  <2>1. /\ inference' = <<window>> /\ Len(window) >= MinWindow
        /\ UNCHANGED <<state, ticks, window, lastScore>>
    BY <1>5 DEF InferenceStarts
  <2>2. window # <<>> /\ ScoreOf(window) = ticks
    BY <1>0, <2>1 DEF ScoreInv, WindowCurrent, ScoreOf, Last
  <2>3. inference'[1] = window
    BY <2>1
  <2>4. InferenceAhead'
    BY <1>0, <2>1, <2>2, <2>3 DEF InferenceAhead
  <2> QED
    BY <1>0, <2>1, <2>4 DEF ScoreInv, WindowCurrent, StateIsSnapshot, ScoreKept
<1>6. CASE InferenceEnds
  <2>1. /\ inference # <<>> /\ inference' = <<>>
        /\ lastScore' = ScoreOf(inference[1])
        /\ state' = IF state = <<>> THEN state
                    ELSE <<[state[1] EXCEPT !.score = lastScore']>>
        /\ UNCHANGED <<ticks, window>>
    BY <1>6 DEF InferenceEnds
  <2>2. lastScore' \in Nat /\ lastScore <= lastScore' /\ lastScore' <= ticks
    BY <2>1 DEF ScoreInv, InferenceAhead
  <2>3. StateIsSnapshot' /\ ScoreKept'
    <3>1. CASE state = <<>>
      BY <2>1, <3>1 DEF StateIsSnapshot, ScoreKept
    <3>2. CASE state # <<>>
      <4>1. /\ IsSnapshot(state[1])
            /\ state' = <<[state[1] EXCEPT !.score = lastScore']>>
        BY <2>1, <3>2 DEF ScoreInv, StateIsSnapshot
      <4>2. state' = <<[tick |-> state[1].tick, over |-> state[1].over,
                        score |-> lastScore', depth |-> state[1].depth]>>
        BY <4>1 DEF IsSnapshot
      <4> QED
        BY <4>2 DEF StateIsSnapshot, IsSnapshot, ScoreKept
    <3> QED
      BY <3>1, <3>2
  <2> QED
    BY <1>0, <2>1, <2>2, <2>3 DEF ScoreInv, WindowCurrent, InferenceAhead
<1>7. ASSUME NEW d, EngineChecks(d)
      PROVE  ScoreInv' /\ lastScore <= lastScore'
  <2>1. /\ state # <<>> /\ state' = <<[state[1] EXCEPT !.depth = d]>>
        /\ UNCHANGED <<ticks, window, lastScore, inference>>
    BY <1>7 DEF EngineChecks
  <2>2. IsSnapshot(state[1]) /\ state[1].score = lastScore
    BY <2>1 DEF ScoreInv, StateIsSnapshot, ScoreKept
  <2>3. state' = <<[tick |-> state[1].tick, over |-> state[1].over,
                    score |-> state[1].score, depth |-> d]>>
    BY <2>1, <2>2 DEF IsSnapshot
  <2>4. StateIsSnapshot' /\ ScoreKept'
    BY <2>1, <2>2, <2>3 DEF StateIsSnapshot, IsSnapshot, ScoreKept
  <2> QED
    BY <1>0, <2>1, <2>4 DEF ScoreInv, WindowCurrent, InferenceAhead
<1>8. CASE UNCHANGED vars
  BY <1>2, <1>8 DEF vars
<1> QED
  BY <1>1, <1>2, <1>3, <1>4, <1>5, <1>6, <1>7, <1>8 DEF Next

(* The invariant holds of every behaviour, for all windows and any input. *)
THEOREM Invariance == Spec => []ScoreInv
<1> QED
  BY InitScoreInv, NextScoreInv, PTL DEF Spec

(* A telemetry tick never resets the score: the current snapshot always shows
   the latest one, whichever loop wrote last. *)
THEOREM LatestScoreShown == Spec => []ScoreKept
<1>1. ScoreInv => ScoreKept
  BY DEF ScoreInv
<1> QED
  BY Invariance, <1>1, PTL

(* However long the inference thread takes, it never replaces a score by one
   from older ticks. *)
THEOREM ScoresMoveForward == Spec => ScoreNeverGoesBack
<1>1. ScoreInv /\ [Next]_vars => [lastScore <= lastScore']_vars
  BY NextScoreInv
<1> QED
  BY Invariance, <1>1, PTL DEF Spec, ScoreNeverGoesBack

-----------------------------------------------------------------------------
(* Types.  An inference works on a window that was not empty. *)
TypeInv ==
    /\ TypeOK
    /\ inference # <<>> => inference[1] \in Seq(1 .. MaxTicks) /\ inference[1] # <<>>

LEMMA PushType ==
    ASSUME NEW S, NEW d \in Seq(S), NEW x \in S, NEW maxlen \in Nat \ {0},
           Len(d) <= maxlen
    PROVE  Push(d, x, maxlen) \in Seq(S) /\ Len(Push(d, x, maxlen)) <= maxlen
<1>1. CASE Len(d) < maxlen
  BY <1>1 DEF Push
<1>2. CASE ~(Len(d) < maxlen)
  <2>1. Len(d) = maxlen /\ d # <<>>
    BY <1>2
  <2>2. Tail(d) \in Seq(S) /\ Len(Tail(d)) = maxlen - 1
    BY <2>1
  <2> QED
    BY <1>2, <2>2 DEF Push
<1> QED
  BY <1>1, <1>2

LEMMA InitTypeInv == Init => TypeInv
  BY TelemetryAssumption DEF Init, TypeInv, TypeOK

LEMMA NextTypeInv == TypeInv /\ [Next]_vars => TypeInv'
<1> SUFFICES ASSUME TypeInv, [Next]_vars
             PROVE  TypeInv'
  OBVIOUS
<1>0. /\ Window \in Nat \ {0} /\ MlWindow \in Nat \ {0} /\ MinWindow \in 1 .. MlWindow
      /\ MaxTime \in Nat /\ MaxTicks \in Nat /\ MaxChecks \in Nat
  BY TelemetryAssumption
<1>1. ASSUME NEW isLost \in BOOLEAN, NEW l, isLost \/ l \in Latencies, NEW at \in Stamps,
             Record(isLost, l, at)
      PROVE  TypeInv'
  <2>1. at \in 0 .. MaxTime
    BY <1>0 DEF Stamps, TypeInv, TypeOK
  <2>2. stamps' \in Seq(0 .. MaxTime) /\ Len(stamps') <= Window
    BY <1>0, <1>1, <2>1, PushType DEF Record, TypeInv, TypeOK
  <2>3. lost' \in Seq({0, 1}) /\ Len(lost') <= Window
    <3>1. PICK x \in {0, 1} : lost' = Push(lost, x, Window)
      BY <1>1 DEF Record
    <3> QED
      BY <1>0, <3>1, PushType DEF TypeInv, TypeOK
  <2>4. latencies' \in Seq(Latencies) /\ Len(latencies') <= Window
    BY <1>0, <1>1, PushType DEF Record, TypeInv, TypeOK
  <2>5. sizes' \in Seq({Bytes}) /\ Len(sizes') <= Window
    BY <1>0, <1>1, PushType DEF Record, TypeInv, TypeOK
  <2>6. UNCHANGED <<now, state, ticks, window, lastScore, inference, breaches, logged>>
    BY <1>1 DEF Record
  <2> QED
    BY <2>2, <2>3, <2>4, <2>5, <2>6 DEF TypeInv, TypeOK
<1>2. CASE Elapse
  BY <1>0, <1>2 DEF Elapse, TypeInv, TypeOK
<1>3. CASE TelemetryTick
  <2>1. /\ ticks' = ticks + 1 /\ ticks < MaxTicks /\ Len(state') = 1
        /\ window' = Push(window, ticks + 1, MlWindow)
        /\ UNCHANGED <<stats, lastScore, inference, breaches, logged>>
    BY <1>3 DEF TelemetryTick
  <2>2. ticks' \in 1 .. MaxTicks
    BY <1>0, <2>1 DEF TypeInv, TypeOK
  <2>3. window' \in Seq(1 .. MaxTicks) /\ Len(window') <= MlWindow
    BY <1>0, <2>1, <2>2, PushType DEF TypeInv, TypeOK
  <2> QED
    BY <1>0, <2>1, <2>2, <2>3 DEF TypeInv, TypeOK, stats
<1>4. CASE InferenceStarts
  <2>1. /\ inference' = <<window>> /\ Len(window) >= MinWindow
        /\ UNCHANGED <<stats, state, ticks, window, lastScore, breaches, logged>>
    BY <1>4 DEF InferenceStarts
  <2>2. inference'[1] = window /\ Len(inference') = 1
    BY <2>1
  <2>3. window \in Seq(1 .. MaxTicks) /\ window # <<>>
    BY <1>0, <2>1 DEF TypeInv, TypeOK
  <2> QED
    BY <2>1, <2>2, <2>3 DEF TypeInv, TypeOK, stats
<1>5. CASE InferenceEnds
  <2>1. /\ inference # <<>> /\ inference' = <<>>
        /\ lastScore' = ScoreOf(inference[1])
        /\ Len(state') <= 1
        /\ UNCHANGED <<stats, ticks, window, breaches, logged>>
    BY <1>5 DEF InferenceEnds, TypeInv, TypeOK
  <2>2. lastScore' \in 1 .. MaxTicks
    <3>1. PICK w : w = inference[1]
      OBVIOUS
    <3>2. w \in Seq(1 .. MaxTicks) /\ w # <<>>
      BY <2>1, <3>1 DEF TypeInv
    <3>3. w[Len(w)] \in 1 .. MaxTicks
      <4>1. Len(w) \in Nat /\ Len(w) # 0 /\ w \in [1 .. Len(w) -> 1 .. MaxTicks]
        BY <3>2, LenProperties, EmptySeq
      <4>2. Len(w) \in 1 .. Len(w)
        BY <4>1
      <4> QED
        BY <4>1, <4>2
    <3> QED
      BY <2>1, <3>1, <3>3 DEF ScoreOf, Last
  <2> QED
    BY <1>0, <2>1, <2>2 DEF TypeInv, TypeOK, stats
<1>6. ASSUME NEW d, EngineChecks(d)
      PROVE  TypeInv'
  <2>1. /\ Len(state') = 1
        /\ UNCHANGED <<stats, ticks, window, lastScore, inference>>
    BY <1>6 DEF EngineChecks
  <2>2. breaches \in Nat /\ logged \in Nat /\ logged <= breaches /\ breaches < MaxChecks
    BY <1>0, <1>6 DEF EngineChecks, TypeInv, TypeOK
  <2>3. \/ breaches' = breaches + 1 /\ logged' = logged
        \/ breaches' = breaches + 1 /\ logged' = logged + 1
        \/ breaches' = breaches /\ logged' = logged
    <3>1. CASE state[1].over
      BY <1>6, <3>1 DEF EngineChecks
    <3>2. CASE ~state[1].over
      BY <1>6, <3>2 DEF EngineChecks
    <3> QED
      BY <3>1, <3>2
  <2>4. breaches' \in 0 .. MaxChecks /\ logged' \in 0 .. breaches'
    BY <1>0, <2>2, <2>3
  <2> QED
    BY <2>1, <2>4 DEF TypeInv, TypeOK, stats
<1>7. CASE UNCHANGED vars
  BY <1>7 DEF vars, stats, TypeInv, TypeOK
<1> QED
  BY <1>1, <1>2, <1>3, <1>4, <1>5, <1>6, <1>7 DEF Next

(* Every variable keeps its type: no rolling window outgrows its bound, and no
   more SLA events are logged than breaches are counted, for any order of
   results, ticks, inferences and decisions. *)
THEOREM TypeCorrect == Spec => []TypeOK
<1>1. TypeInv => TypeOK
  BY DEF TypeInv
<1> QED
  BY InitTypeInv, NextTypeInv, <1>1, PTL DEF Spec

(* What is kept of a result that telemetry consumed. *)
Results == [at : Nat, lost : BOOLEAN, latency : Nat]

(* What the engine hears of: the window of latencies holds latencies of results,
   a snapshot over budget has one of them to show for it, and of the breaches
   counted every fifth is logged. *)
LatenciesOfPast ==
    \A k \in 1 .. Len(latencies) :
        \E i \in DOMAIN past : latencies[k] = past[i].latency
OverExplained ==
    state # <<>> /\ state[1].over => \E i \in DOMAIN past : past[i].latency > Budget

BreachInv ==
    /\ past \in Seq(Results)
    /\ LatenciesOfPast
    /\ OverExplained
    /\ BreachesExplained

(* Samples that add up to more than the budget allows include one over it. *)
LEMMA OneOverBudget ==
    ASSUME NEW s \in Seq(Nat), NEW b \in Nat, SumOf(s) > b * Len(s)
    PROVE  \E k \in 1 .. Len(s) : s[k] > b
<1>1. s \in Seq(Int)
  BY SeqMonotonic
<1>2. Len(s) \in Nat /\ \A k \in 1 .. Len(s) : s[k] \in Nat
  BY LenProperties, ElementOfSeq
<1>3. SUFFICES ASSUME \A k \in 1 .. Len(s) : ~(s[k] > b)
               PROVE  FALSE
  OBVIOUS
<1>4. \A k \in 1 .. Len(s) : 0 <= s[k] /\ s[k] <= b
  BY <1>2, <1>3
<1>5. \A i \in 0 .. Len(s) : Totals(s)[i] \in Nat /\ Totals(s)[i] <= b * i
  BY <1>1, <1>4, SumBounded
<1>6. SumOf(s) = Totals(s)[Len(s)] /\ Len(s) \in 0 .. Len(s)
  BY <1>1, <1>2, TotalsSteps
<1>7. PICK n \in 0 .. Len(s) : n = Len(s)
  BY <1>6
<1>8. Totals(s)[n] \in Nat /\ Totals(s)[n] <= b * n
  BY <1>5
<1>9. SumOf(s) = Totals(s)[n] /\ SumOf(s) > b * n
  BY <1>6, <1>7, Zenon
<1>10. PICK x \in Int, y \in Int : x = Totals(s)[n] /\ y = b * n
  BY <1>2, <1>8
<1> QED
  BY <1>8, <1>9, <1>10

(* What Push keeps of a deque, and where the rest comes from. *)
LEMMA PushElements ==
    ASSUME NEW S, NEW d \in Seq(S), NEW x \in S, NEW maxlen \in Nat \ {0},
           Len(d) <= maxlen, NEW k \in 1 .. Len(Push(d, x, maxlen))
    PROVE  \/ Push(d, x, maxlen)[k] = x
           \/ \E j \in 1 .. Len(d) : Push(d, x, maxlen)[k] = d[j]
<1>1. CASE Len(d) < maxlen
  BY <1>1 DEF Push
<1>2. CASE ~(Len(d) < maxlen)
  <2>1. Len(d) = maxlen /\ d # <<>>
    BY <1>2
  <2>2. PICK t \in Seq(S) : /\ t = Tail(d) /\ Len(t) = maxlen - 1
                            /\ \A j \in 1 .. Len(t) : t[j] = d[j + 1]
    BY <2>1, HeadTailProperties
  <2>3. Push(d, x, maxlen) = Append(t, x)
    BY <1>2, <2>2 DEF Push
  <2>4. /\ Len(Append(t, x)) = maxlen
        /\ \A j \in 1 .. Len(t) : Append(t, x)[j] = t[j]
        /\ Append(t, x)[Len(t) + 1] = x
    BY <2>2, AppendProperties
  <2>5. CASE k = maxlen
    BY <2>2, <2>3, <2>4, <2>5
  <2>6. CASE k # maxlen
    <3>1. k \in 1 .. Len(t) /\ k + 1 \in 1 .. Len(d)
      BY <2>1, <2>2, <2>3, <2>4, <2>6
    <3>2. Push(d, x, maxlen)[k] = d[k + 1]
      BY <2>2, <2>3, <2>4, <3>1
    <3> QED
      BY <3>1, <3>2
  <2> QED
    BY <2>5, <2>6
<1> QED
  BY <1>1, <1>2

(* What recording a result appends to. *)
LEMMA PastGrows ==
    ASSUME NEW p \in Seq(Results), NEW e \in Results, NEW q, q = Append(p, e)
    PROVE  /\ q \in Seq(Results) /\ Len(q) = Len(p) + 1 /\ Len(p) \in Nat
           /\ DOMAIN p = 1 .. Len(p) /\ DOMAIN q = 1 .. Len(q)
           /\ q[Len(q)] = e
           /\ \A i \in 1 .. Len(p) : q[i] = p[i] /\ p[i] \in Results
<1>1. Len(p) \in Nat /\ DOMAIN p = 1 .. Len(p)
  BY LenProperties
<1>2. /\ q \in Seq(Results) /\ Len(q) = Len(p) + 1
      /\ \A i \in 1 .. Len(p) : q[i] = p[i]
      /\ q[Len(p) + 1] = e
  BY AppendProperties
<1>3. DOMAIN q = 1 .. Len(q)
  BY <1>2, LenProperties
<1>4. \A i \in 1 .. Len(p) : p[i] \in Results
  BY ElementOfSeq
<1> QED
  BY <1>1, <1>2, <1>3, <1>4

LEMMA RecordedResult ==
    ASSUME TypeInv, NEW isLost \in BOOLEAN, NEW l \in Nat, NEW at \in Stamps,
           Record(isLost, l, at)
    PROVE  \E e \in Results : /\ e.at = at /\ e.lost = isLost /\ e.latency = l
                              /\ past' = Append(past, e)
<1>1. at \in Nat
  BY TelemetryAssumption DEF Stamps, TypeInv, TypeOK
<1>2. PICK e : e = [at |-> at, lost |-> isLost, latency |-> l]
  OBVIOUS
<1>3. e \in Results
  BY <1>1, <1>2 DEF Results
<1>4. e.at = at /\ e.latency = l
  BY <1>2
<1>5. e.lost = isLost
  BY <1>2, Zenon
<1>6. past' = Append(past, e)
  BY <1>2 DEF Record
<1> QED
  BY <1>3, <1>4, <1>5, <1>6, Zenon

LEMMA InitBreachInv == Init => BreachInv
<1> SUFFICES ASSUME Init
             PROVE  BreachInv
  OBVIOUS
<1>1. past = <<>> /\ latencies = <<>> /\ state = <<>> /\ breaches = 0 /\ logged = 0
  BY DEF Init
<1>2. Len(latencies) = 0
  BY <1>1, EmptySeq
<1>3. past \in Seq(Results)
  BY <1>1, EmptySeq
<1>4. LatenciesOfPast
  BY <1>2 DEF LatenciesOfPast
<1>5. OverExplained /\ BreachesExplained
  BY <1>1 DEF OverExplained, BreachesExplained
<1> QED
  BY <1>3, <1>4, <1>5 DEF BreachInv

LEMMA NextBreachInv ==
    ASSUME TypeInv, StateIsSnapshot, BreachInv, [Next]_vars
    PROVE  BreachInv'
<1>0. /\ past \in Seq(Results) /\ LatenciesOfPast /\ OverExplained /\ BreachesExplained
      /\ Budget \in Nat /\ Latencies \subseteq Nat /\ Window \in Nat \ {0}
      /\ latencies \in Seq(Latencies) /\ Len(latencies) <= Window
      /\ breaches \in Nat /\ logged \in Nat
  BY TelemetryAssumption DEF BreachInv, TypeInv, TypeOK
<1>1. ASSUME NEW isLost \in BOOLEAN, NEW l \in Nat, isLost \/ l \in Latencies,
             NEW at \in Stamps, Record(isLost, l, at)
      PROVE  BreachInv'
  <2>1. PICK e \in Results : /\ e.at = at /\ e.lost = isLost /\ e.latency = l
                             /\ past' = Append(past, e)
    BY <1>1, RecordedResult
  <2>2. PICK p \in Seq(Results), q \in Seq(Results) : p = past /\ q = past' /\ q = Append(p, e)
    BY <1>0, <2>1, PastGrows
  <2>3. /\ Len(q) = Len(p) + 1 /\ Len(p) \in Nat
        /\ DOMAIN p = 1 .. Len(p) /\ DOMAIN q = 1 .. Len(q)
        /\ q[Len(q)] = e
        /\ \A i \in 1 .. Len(p) : q[i] = p[i]
    BY <2>2, PastGrows
  <2>4. DOMAIN p \subseteq DOMAIN q /\ Len(q) \in DOMAIN q /\ \A i \in DOMAIN p : q[i] = p[i]
    BY <2>3
  <2>5. UNCHANGED <<state, breaches, logged>>
    BY <1>1 DEF Record
  <2>6. OverExplained' /\ BreachesExplained'
    <3>1. (\E i \in DOMAIN past : past[i].latency > Budget)
            => (\E i \in DOMAIN past : past[i].latency > Budget)'
      BY <2>2, <2>4
    <3> QED
      BY <1>0, <2>5, <3>1 DEF OverExplained, BreachesExplained
  <2>7. LatenciesOfPast'
    <3>1. CASE isLost
      <4>1. latencies' = latencies
        BY <1>1, <3>1 DEF Record
      <4> QED
        BY <1>0, <2>2, <2>4, <4>1 DEF LatenciesOfPast
    <3>2. CASE ~isLost
      <4>1. latencies' = Push(latencies, l, Window) /\ l \in Latencies
        BY <1>1, <3>2 DEF Record
      <4>2. ASSUME NEW k \in 1 .. Len(latencies')
            PROVE  \E i \in DOMAIN q : latencies'[k] = q[i].latency
        <5>1. \/ latencies'[k] = l
              \/ \E j \in 1 .. Len(latencies) : latencies'[k] = latencies[j]
          BY <1>0, <4>1, PushElements
        <5>2. CASE latencies'[k] = l
          BY <2>1, <2>3, <2>4, <5>2
        <5>3. CASE \E j \in 1 .. Len(latencies) : latencies'[k] = latencies[j]
          BY <1>0, <2>2, <2>4, <5>3 DEF LatenciesOfPast
        <5> QED
          BY <5>1, <5>2, <5>3
      <4> QED
        BY <2>2, <4>2 DEF LatenciesOfPast
    <3> QED
      BY <3>1, <3>2
  <2> QED
    BY <2>2, <2>6, <2>7 DEF BreachInv
<1>2. CASE TelemetryTick
  <2>1. /\ UNCHANGED <<past, latencies, breaches, logged>>
        /\ state' = <<Snapshot(lastScore, 0)>>
    BY <1>2 DEF TelemetryTick, stats
  <2>2. state'[1] = Snapshot(lastScore, 0)
    BY <2>1
  <2>3. state'[1].over = OverBudget
    <3>1. PICK o : o = OverBudget
      OBVIOUS
    <3>2. Snapshot(lastScore, 0)
            = [tick |-> ticks', over |-> o, score |-> lastScore, depth |-> 0]
      BY <3>1, Zenon DEF Snapshot
    <3>3. state'[1].over = o
      BY <2>2, <3>2
    <3> QED
      BY <3>1, <3>3, Zenon
  <2>4. ASSUME OverBudget
        PROVE  \E i \in DOMAIN past : past[i].latency > Budget
    <3>1. latencies \in Seq(Nat)
      BY <1>0, SeqMonotonic
    <3>2. \E k \in 1 .. Len(latencies) : latencies[k] > Budget
      BY <1>0, <2>4, <3>1, OneOverBudget DEF OverBudget
    <3> QED
      BY <1>0, <3>2 DEF LatenciesOfPast
  <2>5. OverExplained'
    <3>1. SUFFICES ASSUME state'[1].over
                   PROVE  (\E i \in DOMAIN past : past[i].latency > Budget)'
      BY DEF OverExplained
    <3>2. OverBudget
      BY <2>3, <3>1, Zenon
    <3> QED
      BY <2>1, <2>4, <3>2
  <2> QED
    BY <1>0, <2>1, <2>5 DEF BreachInv, LatenciesOfPast, BreachesExplained
<1>3. CASE InferenceEnds
  <2>1. /\ UNCHANGED <<past, latencies, breaches, logged>>
        /\ state' = IF state = <<>> THEN state
                    ELSE <<[state[1] EXCEPT !.score = lastScore']>>
    BY <1>3 DEF InferenceEnds, stats
  <2>2. OverExplained'
    <3>1. CASE state = <<>>
      BY <1>0, <2>1, <3>1 DEF OverExplained
    <3>2. CASE state # <<>>
      <4>1. /\ IsSnapshot(state[1])
            /\ state' = <<[state[1] EXCEPT !.score = lastScore']>>
        BY <2>1, <3>2 DEF StateIsSnapshot
      <4>2. state' = <<[tick |-> state[1].tick, over |-> state[1].over,
                        score |-> lastScore', depth |-> state[1].depth]>>
        BY <4>1 DEF IsSnapshot
      <4>3. state'[1] = [tick |-> state[1].tick, over |-> state[1].over,
                         score |-> lastScore', depth |-> state[1].depth]
        BY <4>2
      <4>4. state'[1].over = state[1].over
        BY <4>3
      <4> QED
        BY <1>0, <2>1, <3>2, <4>4, Zenon DEF OverExplained
    <3> QED
      BY <3>1, <3>2
  <2> QED
    BY <1>0, <2>1, <2>2 DEF BreachInv, LatenciesOfPast, BreachesExplained
<1>4. ASSUME NEW d, EngineChecks(d)
      PROVE  BreachInv'
  <2>1. /\ state # <<>> /\ state' = <<[state[1] EXCEPT !.depth = d]>>
        /\ UNCHANGED <<past, latencies>>
    BY <1>4 DEF EngineChecks, stats
  <2>2. state' = <<[tick |-> state[1].tick, over |-> state[1].over,
                    score |-> state[1].score, depth |-> d]>>
    BY <2>1 DEF StateIsSnapshot, IsSnapshot
  <2>3. state'[1] = [tick |-> state[1].tick, over |-> state[1].over,
                     score |-> state[1].score, depth |-> d]
    BY <2>2
  <2>4. state'[1].over = state[1].over
    BY <2>3
  <2>5. OverExplained'
    BY <1>0, <2>1, <2>4, Zenon DEF OverExplained
  <2>6. 5 * (logged - 1) < breaches /\ breaches <= 5 * logged
    BY <1>0 DEF BreachesExplained
  <2>7. BreachesExplained'
    <3>1. CASE state[1].over
      <4>1. breaches' = breaches + 1
            /\ logged' = IF breaches' % 5 = 1 THEN logged + 1 ELSE logged
        BY <1>4, <3>1 DEF EngineChecks
      <4>2. 5 * (logged' - 1) < breaches' /\ breaches' <= 5 * logged'
        <5>1. CASE (breaches + 1) % 5 = 1
          BY <1>0, <2>6, <4>1, <5>1
        <5>2. CASE (breaches + 1) % 5 # 1
          BY <1>0, <2>6, <4>1, <5>2
        <5> QED
          BY <5>1, <5>2
      <4>3. \E i \in DOMAIN past : past[i].latency > Budget
        BY <1>0, <2>1, <3>1 DEF OverExplained
      <4> QED
        BY <2>1, <4>2, <4>3 DEF BreachesExplained
    <3>2. CASE ~state[1].over
      <4>1. UNCHANGED <<breaches, logged>>
        BY <1>4, <3>2 DEF EngineChecks
      <4> QED
        BY <1>0, <2>1, <4>1 DEF BreachesExplained
    <3> QED
      BY <3>1, <3>2
  <2> QED
    BY <1>0, <2>1, <2>5, <2>7 DEF BreachInv, LatenciesOfPast
<1>5. CASE UNCHANGED <<past, latencies, state, breaches, logged>>
  BY <1>0, <1>5 DEF BreachInv, LatenciesOfPast, OverExplained, BreachesExplained
<1>6. CASE Elapse \/ InferenceStarts \/ UNCHANGED vars
  BY <1>5, <1>6 DEF Elapse, InferenceStarts, vars, stats
<1>7. ASSUME NEW l \in Latencies, NEW at \in Stamps, Record(FALSE, l, at)
      PROVE  BreachInv'
  <2>1. l \in Nat
    BY <1>0
  <2> QED
    BY <1>1, <1>7, <2>1
<1>8. ASSUME NEW at \in Stamps, Record(TRUE, 0, at)
      PROVE  BreachInv'
  BY <1>1, <1>8
<1> QED
  BY <1>2, <1>3, <1>4, <1>6, <1>7, <1>8 DEF Next

(* check_sla: the engine never counts a breach of the budget when no packet
   ever took longer than the budget, and logs the first and every fifth after
   it, for any window, budget and order of results, ticks and decisions. *)
THEOREM NoBreachUnexplained == Spec => []BreachesExplained
<1>1. Init => TypeInv /\ ScoreInv /\ BreachInv
  BY InitTypeInv, InitScoreInv, InitBreachInv
<1>2. TypeInv /\ ScoreInv /\ BreachInv /\ [Next]_vars => TypeInv' /\ ScoreInv' /\ BreachInv'
  BY NextTypeInv, NextScoreInv, NextBreachInv DEF ScoreInv
<1>3. BreachInv => BreachesExplained
  BY DEF BreachInv
<1> QED
  BY <1>1, <1>2, <1>3, PTL DEF Spec

-----------------------------------------------------------------------------
(* The windows show the end of the history of results.  What the last n of a
   sequence are, element by element. *)
LEMMA LastOfProperties ==
    ASSUME NEW S, NEW v \in Seq(S), NEW n \in Nat \ {0}
    PROVE  /\ LastOf(v, n) \in Seq(S)
           /\ Len(v) \in Nat
           /\ Len(LastOf(v, n)) = IF Len(v) <= n THEN Len(v) ELSE n
           /\ \A i \in 1 .. Len(LastOf(v, n)) :
                LastOf(v, n)[i] = v[Len(v) - Len(LastOf(v, n)) + i]
<1>0. Len(v) \in Nat
  BY LenProperties
<1>1. CASE Len(v) <= n
  BY <1>0, <1>1 DEF LastOf
<1>2. CASE ~(Len(v) <= n)
  <2>1. PICK m \in Nat : m = Len(v) - n + 1 /\ 1 <= m /\ m <= Len(v)
    BY <1>0, <1>2
  <2>2. LastOf(v, n) = SubSeq(v, m, Len(v))
    BY <1>2, <2>1 DEF LastOf
  <2>3. m .. Len(v) \subseteq 1 .. Len(v) /\ \A i \in m .. Len(v) : v[i] \in S
    BY <1>0, <2>1, ElementOfSeq
  <2>4. /\ SubSeq(v, m, Len(v)) \in Seq(S)
        /\ Len(SubSeq(v, m, Len(v))) = n
        /\ \A i \in 1 .. n : SubSeq(v, m, Len(v))[i] = v[m + i - 1]
    BY <1>0, <2>1, <2>3, SubSeqProperties
  <2>5. \A i \in 1 .. n : m + i - 1 = Len(v) - n + i
    BY <1>0, <2>1
  <2> QED
    BY <1>0, <1>2, <2>2, <2>4, <2>5
<1> QED
  BY <1>1, <1>2

(* Appending to the history pushes on the window. *)
LEMMA PushIsLast ==
    ASSUME NEW S, NEW v \in Seq(S), NEW x \in S, NEW n \in Nat \ {0}
    PROVE  Push(LastOf(v, n), x, n) = LastOf(Append(v, x), n)
<1>1. PICK d \in Seq(S) : d = LastOf(v, n)
  BY LastOfProperties
<1>2. /\ Len(v) \in Nat /\ Len(d) = (IF Len(v) <= n THEN Len(v) ELSE n)
      /\ \A i \in 1 .. Len(d) : d[i] = v[Len(v) - Len(d) + i]
  BY <1>1, LastOfProperties
<1>3. PICK w \in Seq(S) : /\ w = Append(v, x) /\ Len(w) = Len(v) + 1
                          /\ \A i \in 1 .. Len(v) : w[i] = v[i]
                          /\ w[Len(v) + 1] = x
  BY AppendProperties
<1>4. PICK e \in Seq(S) : e = LastOf(w, n)
  BY LastOfProperties
<1>5. /\ Len(e) = (IF Len(w) <= n THEN Len(w) ELSE n)
      /\ \A i \in 1 .. Len(e) : e[i] = w[Len(w) - Len(e) + i]
  BY <1>4, LastOfProperties
<1>6. CASE Len(v) < n
  <2>1. PICK f \in Seq(S) : /\ f = Append(d, x) /\ Len(f) = Len(d) + 1
                            /\ \A i \in 1 .. Len(d) : f[i] = d[i]
                            /\ f[Len(d) + 1] = x
    BY AppendProperties
  <2>2. Push(d, x, n) = f
    BY <1>2, <1>6, <2>1 DEF Push
  <2>3. Len(f) = Len(e)
    BY <1>2, <1>3, <1>5, <1>6, <2>1
  <2>4. ASSUME NEW i \in 1 .. Len(f)
        PROVE  f[i] = e[i]
    <3>1. Len(d) = Len(v) /\ Len(e) = Len(w) /\ Len(w) = Len(v) + 1 /\ Len(v) \in Nat
      BY <1>2, <1>3, <1>5, <1>6
    <3>2. /\ i \in 1 .. Len(e) /\ Len(w) - Len(e) + i = i
          /\ i # Len(v) + 1 => i \in 1 .. Len(v) /\ Len(v) - Len(d) + i = i
      BY <2>1, <2>3, <3>1
    <3>3. e[i] = w[i]
      BY <1>5, <3>2
    <3>4. CASE i = Len(v) + 1
      BY <1>3, <2>1, <3>1, <3>3, <3>4
    <3>5. CASE i # Len(v) + 1
      <4>1. i \in 1 .. Len(d) /\ d[i] = v[i]
        BY <1>2, <3>1, <3>2, <3>5
      <4> QED
        BY <1>3, <2>1, <3>2, <3>3, <3>5, <4>1
    <3> QED
      BY <3>4, <3>5
  <2>5. f = e
    BY <2>3, <2>4, SeqEqual
  <2> QED
    BY <1>1, <1>3, <1>4, <2>2, <2>5
<1>7. CASE ~(Len(v) < n)
  <2>1. Len(d) = n /\ d # <<>>
    BY <1>2, <1>7, EmptySeq
  <2>2. PICK t \in Seq(S) : /\ t = Tail(d) /\ Len(t) = n - 1
                            /\ \A i \in 1 .. Len(t) : t[i] = d[i + 1]
    BY <2>1, HeadTailProperties
  <2>3. PICK f \in Seq(S) : /\ f = Append(t, x) /\ Len(f) = Len(t) + 1
                            /\ \A i \in 1 .. Len(t) : f[i] = t[i]
                            /\ f[Len(t) + 1] = x
    BY AppendProperties
  <2>4. Push(d, x, n) = f
    BY <2>1, <2>2, <2>3 DEF Push
  <2>5. Len(f) = n /\ Len(e) = n
    BY <1>2, <1>3, <1>5, <1>7, <2>2, <2>3
  <2>6. ASSUME NEW i \in 1 .. n
        PROVE  f[i] = e[i]
    <3>1. e[i] = w[Len(v) + 1 - n + i]
      <4>1. i \in 1 .. Len(e) /\ Len(w) - Len(e) + i = Len(v) + 1 - n + i
        BY <1>2, <1>3, <2>5
      <4>2. e[i] = w[Len(w) - Len(e) + i]
        BY <1>5, <4>1
      <4> QED
        BY <4>1, <4>2, Zenon
    <3>2. CASE i = n
      BY <1>2, <1>3, <2>2, <2>3, <3>1, <3>2
    <3>3. CASE i # n
      <4>1. i \in 1 .. Len(t) /\ i + 1 \in 1 .. Len(d)
        BY <2>1, <2>2, <3>3
      <4>2. f[i] = d[i + 1] /\ d[i + 1] = v[Len(v) - n + (i + 1)]
        BY <1>2, <2>1, <2>2, <2>3, <4>1
      <4>3. Len(v) - n + (i + 1) \in 1 .. Len(v)
            /\ Len(v) - n + (i + 1) = Len(v) + 1 - n + i
        BY <1>2, <1>7, <3>3
      <4> QED
        BY <1>3, <3>1, <4>2, <4>3
    <3> QED
      BY <3>2, <3>3
  <2>7. f = e
    BY <2>5, <2>6, SeqEqual
  <2> QED
    BY <1>1, <1>3, <1>4, <2>4, <2>7
<1> QED
  BY <1>2, <1>6, <1>7

-----------------------------------------------------------------------------
(* The delivered results of a history, one result at a time. *)
IsDelivered(f, s) ==
    f = [i \in 0 .. Len(s) |->
            IF i = 0 THEN <<>>
            ELSE IF s[i].lost THEN f[i - 1] ELSE Append(f[i - 1], s[i])]
DeliveredOf(s) == CHOOSE f : IsDelivered(f, s)

LEMMA DeliveredExist == \A s : Len(s) \in Nat => IsDelivered(DeliveredOf(s), s)
<1> SUFFICES ASSUME NEW s, Len(s) \in Nat
             PROVE  \E f : IsDelivered(f, s)
  BY DEF DeliveredOf
<1> DEFINE To(f, n) == f = [i \in 0 .. n |->
                              IF i = 0 THEN <<>>
                              ELSE IF s[i].lost THEN f[i - 1] ELSE Append(f[i - 1], s[i])]
           T == {n \in Nat : ~\E f : To(f, n)}
<1>1. ASSUME T # {}
      PROVE  FALSE
  <2>1. PICK m \in T : \A k \in T : m <= k
    <3>1. T \subseteq Nat
      OBVIOUS
    <3> HIDE DEF T
    <3> QED
      BY <1>1, <3>1, LeastNumber
  <2>2. m # 0
    <3>1. To([i \in 0 .. 0 |-> <<>>], 0)
      OBVIOUS
    <3> QED
      BY <3>1
  <2>3. m - 1 \in Nat /\ m - 1 \notin T
    <3>1. m \in Nat
      OBVIOUS
    <3> HIDE DEF T
    <3> QED
      BY <2>1, <2>2, <3>1
  <2>4. PICK f : To(f, m - 1)
    BY <2>3
  <2>5. PICK z : z = IF s[m].lost THEN f[m - 1] ELSE Append(f[m - 1], s[m])
    OBVIOUS
  <2> DEFINE g == [i \in 0 .. m |-> IF i = m THEN z ELSE f[i]]
  <2>6. ASSUME NEW i \in 0 .. m
        PROVE  g[i] = IF i = 0 THEN <<>>
                      ELSE IF s[i].lost THEN g[i - 1] ELSE Append(g[i - 1], s[i])
    <3>1. CASE i = m
      <4>1. g[m] = z /\ g[m - 1] = f[m - 1]
        BY <2>2, <2>3
      <4> HIDE DEF g
      <4> QED
        BY <2>2, <2>5, <3>1, <4>1, Zenon
    <3>2. CASE i # m
      <4>1. i \in 0 .. m - 1
        BY <2>3, <3>2
      <4>2. f[i] = IF i = 0 THEN <<>>
                   ELSE IF s[i].lost THEN f[i - 1] ELSE Append(f[i - 1], s[i])
        BY <2>4, <4>1, Zenon
      <4>3. g[i] = f[i] /\ (i # 0 => g[i - 1] = f[i - 1])
        BY <2>3, <3>2
      <4> HIDE DEF g
      <4> QED
        BY <4>2, <4>3, Zenon
    <3> QED
      BY <3>1, <3>2
  <2>7. To(g, m)
    BY <2>6
  <2> QED
    BY <2>7
<1>2. PICK f : To(f, Len(s))
  BY <1>1
<1> QED
  BY <1>2 DEF IsDelivered

LEMMA DeliveredSteps ==
    ASSUME NEW s \in Seq(Results)
    PROVE  /\ Delivered(s) = DeliveredOf(s)[Len(s)]
           /\ DeliveredOf(s)[0] = <<>>
           /\ \A i \in 1 .. Len(s) :
                DeliveredOf(s)[i] = IF s[i].lost THEN DeliveredOf(s)[i - 1]
                                    ELSE Append(DeliveredOf(s)[i - 1], s[i])
<1>0. Len(s) \in Nat
  BY LenProperties
<1>1. Delivered(s) = DeliveredOf(s)[Len(s)]
  BY DEF Delivered, DeliveredOf, IsDelivered
<1>2. PICK f : /\ f = DeliveredOf(s)
               /\ f = [i \in 0 .. Len(s) |->
                         IF i = 0 THEN <<>>
                         ELSE IF s[i].lost THEN f[i - 1] ELSE Append(f[i - 1], s[i])]
  BY <1>0, DeliveredExist DEF IsDelivered
<1>3. f[0] = <<>>
  BY <1>0, <1>2
<1>4. \A i \in 1 .. Len(s) :
        f[i] = IF s[i].lost THEN f[i - 1] ELSE Append(f[i - 1], s[i])
  <2> TAKE i \in 1 .. Len(s)
  <2>1. i \in 0 .. Len(s) /\ i # 0
    BY <1>0
  <2> QED
    BY <1>2, <2>1, Zenon
<1> QED
  BY <1>1, <1>2, <1>3, <1>4, Zenon

(* A longer history has the same delivered results as far as the shorter goes. *)
LEMMA DeliveredAppend ==
    ASSUME NEW p \in Seq(Results), NEW e \in Results, NEW q, q = Append(p, e)
    PROVE  /\ Delivered(p) \in Seq(Results)
           /\ Delivered(q) = IF e.lost THEN Delivered(p) ELSE Append(Delivered(p), e)
<1>0. /\ q \in Seq(Results) /\ Len(q) = Len(p) + 1 /\ Len(p) \in Nat /\ q[Len(q)] = e
      /\ \A i \in 1 .. Len(p) : q[i] = p[i] /\ p[i] \in Results
  BY PastGrows
<1>1. PICK f, g : f = DeliveredOf(p) /\ g = DeliveredOf(q)
  OBVIOUS
<1>2. /\ Delivered(p) = f[Len(p)] /\ f[0] = <<>>
      /\ \A i \in 1 .. Len(p) : f[i] = IF p[i].lost THEN f[i - 1] ELSE Append(f[i - 1], p[i])
  BY <1>1, DeliveredSteps, Zenon
<1>3. /\ Delivered(q) = g[Len(q)] /\ g[0] = <<>>
      /\ \A i \in 1 .. Len(q) : g[i] = IF q[i].lost THEN g[i - 1] ELSE Append(g[i - 1], q[i])
  BY <1>0, <1>1, DeliveredSteps, Zenon
<1> DEFINE T == {i \in Nat : i <= Len(p) /\ ~(f[i] = g[i] /\ f[i] \in Seq(Results))}
<1>4. ASSUME T # {}
      PROVE  FALSE
  <2>0. T \subseteq Nat
    OBVIOUS
  <2>1. PICK m \in T : \A k \in T : m <= k
    <3> HIDE DEF T
    <3> QED
      BY <1>4, <2>0, LeastNumber
  <2>2. m # 0
    <3>1. f[0] = g[0] /\ f[0] \in Seq(Results)
      BY <1>2, <1>3, EmptySeq
    <3> QED
      BY <3>1
  <2>3. m - 1 \in Nat /\ m - 1 \notin T /\ m \in 1 .. Len(p)
    <3>1. m \in Nat /\ m <= Len(p)
      OBVIOUS
    <3> HIDE DEF T
    <3> QED
      BY <1>0, <2>1, <2>2, <3>1
  <2>4. f[m - 1] = g[m - 1] /\ f[m - 1] \in Seq(Results)
    BY <1>0, <2>3
  <2>5. PICK h \in Seq(Results) : h = f[m - 1] /\ h = g[m - 1]
    BY <2>4
  <2>6. q[m] = p[m] /\ p[m] \in Results /\ m \in 1 .. Len(q)
    BY <1>0, <2>3
  <2>7. PICK r \in Results : r = p[m] /\ r = q[m]
    BY <2>6
  <2>8. f[m] = (IF r.lost THEN h ELSE Append(h, r)) /\ g[m] = (IF r.lost THEN h ELSE Append(h, r))
    BY <1>2, <1>3, <2>3, <2>5, <2>6, <2>7, Zenon
  <2>9. Append(h, r) \in Seq(Results)
    BY AppendProperties
  <2>10. f[m] = g[m] /\ f[m] \in Seq(Results)
    <3>1. CASE r.lost
      BY <2>8, <3>1
    <3>2. CASE ~r.lost
      BY <2>8, <2>9, <3>2
    <3> QED
      BY <3>1, <3>2
  <2> QED
    BY <2>10
<1>5. f[Len(p)] = g[Len(p)] /\ f[Len(p)] \in Seq(Results)
  BY <1>0, <1>4
<1>6. Len(q) \in 1 .. Len(q) /\ Len(q) - 1 = Len(p)
  BY <1>0
<1>7. g[Len(q)] = IF e.lost THEN g[Len(p)] ELSE Append(g[Len(p)], e)
  BY <1>0, <1>3, <1>6, Zenon
<1> QED
  BY <1>2, <1>3, <1>5, <1>7, Zenon

-----------------------------------------------------------------------------
(* The windows as the ends of what can be read off the history. *)
Ats(s) == [i \in DOMAIN s |-> s[i].at]
Losts(s) == [i \in DOMAIN s |-> IF s[i].lost THEN 1 ELSE 0]
Delays(s) == [i \in DOMAIN s |-> s[i].latency]

MirrorInv ==
    /\ past \in Seq(Results)
    /\ stamps = LastOf(Ats(past), Window)
    /\ lost = LastOf(Losts(past), Window)
    /\ latencies = LastOf(Delays(Delivered(past)), Window)
    /\ Len(sizes) = Len(latencies)

LEMMA ReadOffType ==
    ASSUME NEW s \in Seq(Results)
    PROVE  /\ Len(s) \in Nat /\ \A i \in 1 .. Len(s) : s[i] \in Results
           /\ Ats(s) \in Seq(Nat) /\ Len(Ats(s)) = Len(s)
           /\ Losts(s) \in Seq({0, 1}) /\ Len(Losts(s)) = Len(s)
           /\ Delays(s) \in Seq(Nat) /\ Len(Delays(s)) = Len(s)
           /\ \A i \in 1 .. Len(s) : Ats(s)[i] = s[i].at
           /\ \A i \in 1 .. Len(s) : Losts(s)[i] = IF s[i].lost THEN 1 ELSE 0
           /\ \A i \in 1 .. Len(s) : Delays(s)[i] = s[i].latency
<1>1. Len(s) \in Nat /\ DOMAIN s = 1 .. Len(s)
  BY LenProperties
<1>2. \A i \in 1 .. Len(s) : s[i] \in Results
  BY ElementOfSeq
<1>3. \A i \in 1 .. Len(s) : s[i].at \in Nat /\ s[i].latency \in Nat
  BY <1>2 DEF Results
<1>4. Ats(s) = [i \in 1 .. Len(s) |-> s[i].at]
  BY <1>1 DEF Ats
<1>5. Losts(s) = [i \in 1 .. Len(s) |-> IF s[i].lost THEN 1 ELSE 0]
  BY <1>1 DEF Losts
<1>6. Delays(s) = [i \in 1 .. Len(s) |-> s[i].latency]
  BY <1>1 DEF Delays
<1>7. \A S : \A f \in [1 .. Len(s) -> S] : f \in Seq(S) /\ Len(f) = Len(s)
  BY <1>1
<1>8. /\ Ats(s) \in Seq(Nat) /\ Len(Ats(s)) = Len(s)
      /\ Losts(s) \in Seq({0, 1}) /\ Len(Losts(s)) = Len(s)
      /\ Delays(s) \in Seq(Nat) /\ Len(Delays(s)) = Len(s)
  <2>1. Ats(s) \in [1 .. Len(s) -> Nat]
    BY <1>3, <1>4
  <2>2. Losts(s) \in [1 .. Len(s) -> {0, 1}]
    BY <1>5
  <2>3. Delays(s) \in [1 .. Len(s) -> Nat]
    BY <1>3, <1>6
  <2> QED
    BY <1>7, <2>1, <2>2, <2>3, Zenon
<1>9. /\ \A i \in 1 .. Len(s) : Ats(s)[i] = s[i].at
      /\ \A i \in 1 .. Len(s) : Losts(s)[i] = IF s[i].lost THEN 1 ELSE 0
      /\ \A i \in 1 .. Len(s) : Delays(s)[i] = s[i].latency
  BY <1>4, <1>5, <1>6
<1> QED
  BY <1>1, <1>2, <1>8, <1>9

LEMMA ReadOffAppend ==
    ASSUME NEW p \in Seq(Results), NEW e \in Results, NEW q, q = Append(p, e)
    PROVE  /\ Ats(q) = Append(Ats(p), e.at) /\ e.at \in Nat
           /\ Losts(q) = Append(Losts(p), IF e.lost THEN 1 ELSE 0)
           /\ Delays(q) = Append(Delays(p), e.latency) /\ e.latency \in Nat
<1>0. /\ q \in Seq(Results) /\ Len(q) = Len(p) + 1 /\ Len(p) \in Nat /\ q[Len(q)] = e
      /\ \A i \in 1 .. Len(p) : q[i] = p[i]
  BY PastGrows
<1>1. e.at \in Nat /\ e.latency \in Nat
  BY DEF Results
<1>2. PICK x \in {0, 1} : x = IF e.lost THEN 1 ELSE 0
  OBVIOUS
<1>3. /\ Append(Ats(p), e.at) \in Seq(Nat) /\ Append(Losts(p), x) \in Seq({0, 1})
      /\ Append(Delays(p), e.latency) \in Seq(Nat)
      /\ Len(Append(Ats(p), e.at)) = Len(p) + 1 /\ Len(Append(Losts(p), x)) = Len(p) + 1
      /\ Len(Append(Delays(p), e.latency)) = Len(p) + 1
  BY <1>1, ReadOffType, AppendProperties
<1>4. ASSUME NEW i \in 1 .. Len(q)
      PROVE  /\ Ats(q)[i] = Append(Ats(p), e.at)[i]
             /\ Losts(q)[i] = Append(Losts(p), x)[i]
             /\ Delays(q)[i] = Append(Delays(p), e.latency)[i]
  <2>1. /\ Ats(q)[i] = q[i].at /\ Losts(q)[i] = (IF q[i].lost THEN 1 ELSE 0)
        /\ Delays(q)[i] = q[i].latency
    BY <1>0, ReadOffType
  <2>2. CASE i = Len(q)
    <3>1. /\ Append(Ats(p), e.at)[i] = e.at /\ Append(Losts(p), x)[i] = x
          /\ Append(Delays(p), e.latency)[i] = e.latency
      BY <1>0, <1>1, <2>2, ReadOffType, AppendProperties
    <3>2. q[i] = e
      BY <1>0, <2>2
    <3> QED
      BY <1>2, <2>1, <3>1, <3>2, Zenon
  <2>3. CASE i # Len(q)
    <3>1. i \in 1 .. Len(p)
      BY <1>0, <2>3
    <3>2. /\ Append(Ats(p), e.at)[i] = Ats(p)[i] /\ Append(Losts(p), x)[i] = Losts(p)[i]
          /\ Append(Delays(p), e.latency)[i] = Delays(p)[i]
      BY <1>1, <3>1, ReadOffType, AppendProperties
    <3>3. /\ Ats(p)[i] = p[i].at /\ Losts(p)[i] = (IF p[i].lost THEN 1 ELSE 0)
          /\ Delays(p)[i] = p[i].latency
      BY <3>1, ReadOffType
    <3>4. q[i] = p[i]
      BY <1>0, <3>1
    <3> QED
      BY <2>1, <3>2, <3>3, <3>4, Zenon
  <2> QED
    BY <2>2, <2>3
<1>5. Ats(q) = Append(Ats(p), e.at)
  <2>1. Ats(q) \in Seq(Nat) /\ Len(Ats(q)) = Len(q)
    BY <1>0, ReadOffType
  <2> QED
    BY <1>0, <1>3, <1>4, <2>1, SeqEqual
<1>6. Losts(q) = Append(Losts(p), x)
  <2>1. Losts(q) \in Seq({0, 1}) /\ Len(Losts(q)) = Len(q)
    BY <1>0, ReadOffType
  <2> QED
    BY <1>0, <1>3, <1>4, <2>1, SeqEqual
<1>7. Delays(q) = Append(Delays(p), e.latency)
  <2>1. Delays(q) \in Seq(Nat) /\ Len(Delays(q)) = Len(q)
    BY <1>0, ReadOffType
  <2> QED
    BY <1>0, <1>3, <1>4, <2>1, SeqEqual
<1> QED
  BY <1>1, <1>2, <1>5, <1>6, <1>7, Zenon

LEMMA DeliveredType == \A p \in Seq(Results) : Delivered(p) \in Seq(Results)
<1>1. [at |-> 0, lost |-> TRUE, latency |-> 0] \in Results
  BY DEF Results
<1> QED
  BY <1>1, DeliveredAppend

(* What the windows show, read off one at a time. *)
LEMMA MirrorShows == MirrorInv => WindowsMatch
<1> SUFFICES ASSUME MirrorInv
             PROVE  WindowsMatch
  OBVIOUS
<1>0. Window \in Nat \ {0}
  BY TelemetryAssumption
<1>1. PICK p \in Seq(Results), w \in Seq(Results) : p = past /\ w = LastOf(past, Window)
  BY <1>0, LastOfProperties DEF MirrorInv
<1>2. PICK v \in Seq(Results), u \in Seq(Results) :
          v = Delivered(past) /\ u = LastOf(Delivered(past), Window)
  BY <1>0, DeliveredType, LastOfProperties DEF MirrorInv
<1>3. /\ Len(lost) = Len(w) /\ Len(w) \in Nat /\ DOMAIN lost = 1 .. Len(w)
      /\ DOMAIN w = 1 .. Len(w)
      /\ \A i \in 1 .. Len(w) : /\ w[i] \in Results
                                /\ stamps[i] = w[i].at
                                /\ lost[i] = IF w[i].lost THEN 1 ELSE 0
  <2>1. /\ Ats(p) \in Seq(Nat) /\ Len(Ats(p)) = Len(p)
        /\ Losts(p) \in Seq({0, 1}) /\ Len(Losts(p)) = Len(p)
        /\ Len(p) \in Nat
    BY ReadOffType
  <2>2. PICK a \in Seq(Nat), b \in Seq({0, 1}) : a = LastOf(Ats(p), Window) /\ b = LastOf(Losts(p), Window)
    BY <1>0, <2>1, LastOfProperties
  <2>3. a = stamps /\ b = lost
    BY <1>1, <2>2 DEF MirrorInv
  <2>4. /\ Len(a) = Len(w) /\ Len(b) = Len(w) /\ Len(w) \in Nat /\ Len(w) <= Len(p)
        /\ \A i \in 1 .. Len(w) : w[i] = p[Len(p) - Len(w) + i]
    <3>1. w = LastOf(p, Window)
      BY <1>1
    <3>2. /\ Len(w) = (IF Len(p) <= Window THEN Len(p) ELSE Window)
          /\ \A i \in 1 .. Len(w) : w[i] = p[Len(p) - Len(w) + i]
      BY <1>0, <3>1, LastOfProperties
    <3>3. Len(a) = IF Len(Ats(p)) <= Window THEN Len(Ats(p)) ELSE Window
      BY <1>0, <2>1, <2>2, LastOfProperties
    <3>4. Len(b) = IF Len(Losts(p)) <= Window THEN Len(Losts(p)) ELSE Window
      BY <1>0, <2>1, <2>2, LastOfProperties
    <3>5. Len(a) = Len(w) /\ Len(b) = Len(w)
      BY <2>1, <3>2, <3>3, <3>4, Zenon
    <3>6. Len(p) \in Nat /\ Len(w) = IF Len(p) <= Window THEN Len(p) ELSE Window
      BY <2>1, <3>2, Zenon
    <3>7. Len(w) \in Nat /\ Len(w) <= Len(p)
      BY <1>0, <3>6
    <3> QED
      BY <3>2, <3>5, <3>7, Zenon
  <2>5. \A i \in 1 .. Len(a) : a[i] = Ats(p)[Len(Ats(p)) - Len(a) + i]
    BY <1>0, <2>1, <2>2, LastOfProperties
  <2>6. \A i \in 1 .. Len(b) : b[i] = Losts(p)[Len(Losts(p)) - Len(b) + i]
    BY <1>0, <2>1, <2>2, LastOfProperties
  <2>7. ASSUME NEW i \in 1 .. Len(w)
        PROVE  /\ w[i] \in Results
               /\ a[i] = w[i].at
               /\ b[i] = IF w[i].lost THEN 1 ELSE 0
    <3>1. PICK k \in 1 .. Len(p) : k = Len(p) - Len(w) + i
      <4>1. /\ Len(p) \in Nat /\ Len(w) \in Nat /\ Len(w) <= Len(p)
            /\ i \in 1 .. Len(w)
        BY <2>1, <2>4
      <4>2. Len(p) - Len(w) + i \in 1 .. Len(p)
        BY <4>1
      <4> QED
        BY <4>2
    <3>2. w[i] = p[k] /\ a[i] = Ats(p)[k] /\ b[i] = Losts(p)[k]
      BY <2>1, <2>4, <2>5, <2>6, <3>1
    <3>3. p[k] \in Results /\ Ats(p)[k] = p[k].at /\ Losts(p)[k] = IF p[k].lost THEN 1 ELSE 0
      BY ReadOffType
    <3> QED
      BY <3>2, <3>3, Zenon
  <2>8. DOMAIN w = 1 .. Len(w) /\ DOMAIN b = 1 .. Len(b)
    BY LenProperties
  <2> QED
    BY <2>3, <2>4, <2>7, <2>8, Zenon
<1>4. /\ latencies \in Seq(Nat) /\ Len(latencies) = Len(u) /\ DOMAIN u = 1 .. Len(u)
      /\ DOMAIN latencies = 1 .. Len(u)
      /\ \A i \in 1 .. Len(u) : latencies[i] = u[i].latency
  <2>1. Delays(v) \in Seq(Nat) /\ Len(Delays(v)) = Len(v) /\ Len(v) \in Nat
    BY ReadOffType
  <2>2. PICK a \in Seq(Nat) : a = LastOf(Delays(v), Window)
    BY <1>0, <2>1, LastOfProperties
  <2>3. a = latencies
    BY <1>2, <2>2 DEF MirrorInv
  <2>4. /\ Len(a) = Len(u) /\ Len(u) \in Nat /\ Len(u) <= Len(v)
        /\ \A i \in 1 .. Len(u) : u[i] = v[Len(v) - Len(u) + i]
    <3>1. u = LastOf(v, Window)
      BY <1>2
    <3>2. /\ Len(u) = (IF Len(v) <= Window THEN Len(v) ELSE Window)
          /\ \A i \in 1 .. Len(u) : u[i] = v[Len(v) - Len(u) + i]
      BY <1>0, <3>1, LastOfProperties
    <3>3. Len(a) = IF Len(Delays(v)) <= Window THEN Len(Delays(v)) ELSE Window
      BY <1>0, <2>1, <2>2, LastOfProperties
    <3>4. Len(a) = Len(u)
      BY <2>1, <3>2, <3>3, Zenon
    <3>5. Len(v) \in Nat /\ Len(u) = IF Len(v) <= Window THEN Len(v) ELSE Window
      BY <2>1, <3>2, Zenon
    <3>6. Len(u) \in Nat /\ Len(u) <= Len(v)
      BY <1>0, <3>5
    <3> QED
      BY <3>2, <3>4, <3>6, Zenon
  <2>5. \A i \in 1 .. Len(a) : a[i] = Delays(v)[Len(Delays(v)) - Len(a) + i]
    BY <1>0, <2>1, <2>2, LastOfProperties
  <2>6. ASSUME NEW i \in 1 .. Len(u)
        PROVE  a[i] = u[i].latency
    <3>1. PICK k \in 1 .. Len(v) : k = Len(v) - Len(u) + i
      <4>1. /\ Len(v) \in Nat /\ Len(u) \in Nat /\ Len(u) <= Len(v)
            /\ i \in 1 .. Len(u)
        BY <2>1, <2>4
      <4>2. Len(v) - Len(u) + i \in 1 .. Len(v)
        BY <4>1
      <4> QED
        BY <4>2
    <3>2. u[i] = v[k] /\ a[i] = Delays(v)[k]
      BY <2>1, <2>4, <2>5, <3>1
    <3>3. Delays(v)[k] = v[k].latency
      BY ReadOffType
    <3> QED
      BY <3>2, <3>3, Zenon
  <2>7. DOMAIN u = 1 .. Len(u) /\ DOMAIN a = 1 .. Len(a)
    BY LenProperties
  <2> QED
    BY <2>3, <2>4, <2>6, <2>7, Zenon
<1>5. ASSUME NEW i \in 1 .. Len(w)
      PROVE  (lost[i] = 1) = w[i].lost
  <2>1. w[i].lost \in BOOLEAN
    BY <1>3 DEF Results
  <2>2. CASE w[i].lost = TRUE
    <3>1. lost[i] = 1
      BY <1>3, <2>2, Zenon
    <3> QED
      BY <2>2, <3>1, Zenon
  <2>3. CASE w[i].lost = FALSE
    <3>1. lost[i] = 0
      BY <1>3, <2>3, Zenon
    <3>2. (lost[i] = 1) = FALSE
      BY <3>1
    <3> QED
      BY <2>3, <3>2, Zenon
  <2> QED
    BY <2>1, <2>2, <2>3, Zenon
<1>6. [i \in DOMAIN lost |-> <<stamps[i], lost[i] = 1>>]
        = [i \in DOMAIN w |-> <<w[i].at, w[i].lost>>]
  BY <1>3, <1>5, Zenon
<1>7. latencies = [i \in DOMAIN u |-> u[i].latency]
  <2>1. latencies = [i \in 1 .. Len(u) |-> latencies[i]]
    BY <1>4
  <2> QED
    BY <1>4, <2>1, Zenon
<1> QED
  BY <1>1, <1>2, <1>6, <1>7, Zenon DEF WindowsMatch, MirrorInv

LEMMA InitMirrorInv == Init => MirrorInv
<1> SUFFICES ASSUME Init
             PROVE  MirrorInv
  OBVIOUS
<1>1. /\ past = <<>> /\ latencies = <<>> /\ stamps = <<>> /\ lost = <<>> /\ sizes = <<>>
      /\ Window \in Nat \ {0}
  BY TelemetryAssumption DEF Init
<1>2. past \in Seq(Results) /\ Len(past) = 0
  BY <1>1, EmptySeq
<1>3. DeliveredOf(past)[0] = <<>> /\ Delivered(past) = DeliveredOf(past)[Len(past)]
  BY <1>2, DeliveredSteps
<1>4. Delivered(past) = <<>>
  BY <1>2, <1>3, Zenon
<1>5. Len(Ats(past)) = 0 /\ Len(Losts(past)) = 0 /\ Ats(past) \in Seq(Nat) /\ Losts(past) \in Seq({0, 1})
  BY <1>2, ReadOffType
<1>6. Len(Delays(Delivered(past))) = 0 /\ Delays(Delivered(past)) \in Seq(Nat)
  BY <1>1, <1>2, <1>4, ReadOffType
<1>7. Ats(past) = <<>> /\ Losts(past) = <<>> /\ Delays(Delivered(past)) = <<>>
  BY <1>5, <1>6, EmptySeq
<1>8. LastOf(<<>>, Window) = <<>>
  BY <1>1, EmptySeq DEF LastOf
<1> QED
  BY <1>1, <1>2, <1>7, <1>8 DEF MirrorInv

LEMMA NextMirrorInv ==
    ASSUME TypeInv, MirrorInv, [Next]_vars
    PROVE  MirrorInv'
<1>0. /\ past \in Seq(Results) /\ Latencies \subseteq Nat /\ Window \in Nat \ {0}
      /\ stamps = LastOf(Ats(past), Window)
      /\ lost = LastOf(Losts(past), Window)
      /\ latencies = LastOf(Delays(Delivered(past)), Window)
      /\ Len(sizes) = Len(latencies)
      /\ latencies \in Seq(Latencies) /\ sizes \in Seq({Bytes})
  BY TelemetryAssumption DEF MirrorInv, TypeInv, TypeOK
<1>1. ASSUME NEW isLost \in BOOLEAN, NEW l \in Nat, NEW at \in Stamps, Record(isLost, l, at),
             isLost \/ l \in Latencies
      PROVE  MirrorInv'
  <2>1. PICK e \in Results : /\ e.at = at /\ e.lost = isLost /\ e.latency = l
                             /\ past' = Append(past, e)
    BY <1>1, RecordedResult
  <2>2. PICK p \in Seq(Results), q \in Seq(Results) : p = past /\ q = past' /\ q = Append(p, e)
    BY <1>0, <2>1, PastGrows
  <2>3. /\ Ats(q) = Append(Ats(p), e.at) /\ e.at \in Nat /\ Ats(p) \in Seq(Nat)
        /\ Losts(p) \in Seq({0, 1})
    BY <2>2, ReadOffAppend, ReadOffType
  <2>4. PICK x \in {0, 1} : /\ x = (IF isLost THEN 1 ELSE 0)
                            /\ Losts(q) = Append(Losts(p), x)
    <3>1. PICK x \in {0, 1} : x = (IF isLost THEN 1 ELSE 0)
      OBVIOUS
    <3>2. Losts(q) = Append(Losts(p), IF e.lost THEN 1 ELSE 0)
      BY <2>2, ReadOffAppend
    <3>3. Losts(q) = Append(Losts(p), x)
      BY <2>1, <3>1, <3>2, Zenon
    <3> QED
      BY <3>1, <3>3, Zenon
  <2>5. Push(LastOf(Ats(p), Window), e.at, Window) = LastOf(Ats(q), Window)
    <3>1. PICK a \in Nat : a = e.at
      BY <2>3
    <3>2. Push(LastOf(Ats(p), Window), a, Window) = LastOf(Append(Ats(p), a), Window)
      BY <1>0, <2>3, PushIsLast
    <3> QED
      BY <2>3, <3>1, <3>2, Zenon
  <2>6. Push(LastOf(Losts(p), Window), x, Window) = LastOf(Losts(q), Window)
    <3>1. Push(LastOf(Losts(p), Window), x, Window) = LastOf(Append(Losts(p), x), Window)
      BY <1>0, <2>3, PushIsLast
    <3> QED
      BY <2>4, <3>1, Zenon
  <2>7. stamps' = LastOf(Ats(q), Window)
    <3>1. stamps' = Push(stamps, at, Window)
      BY <1>1 DEF Record
    <3> QED
      BY <1>0, <2>1, <2>2, <2>5, <3>1, Zenon
  <2>8. lost' = LastOf(Losts(q), Window)
    <3>1. lost' = Push(lost, IF isLost THEN 1 ELSE 0, Window)
      BY <1>1 DEF Record
    <3> QED
      BY <1>0, <2>2, <2>4, <2>6, <3>1, Zenon
  <2>9. /\ Delivered(p) \in Seq(Results)
        /\ Delivered(q) = IF e.lost THEN Delivered(p) ELSE Append(Delivered(p), e)
    BY <2>2, DeliveredAppend
  <2>10. latencies' = LastOf(Delays(Delivered(q)), Window) /\ Len(sizes') = Len(latencies')
    <3>1. CASE isLost
      <4>1. latencies' = latencies /\ sizes' = sizes
        BY <1>1, <3>1 DEF Record
      <4>2. Delivered(q) = Delivered(p)
        BY <2>1, <2>9, <3>1, Zenon
      <4> QED
        BY <1>0, <2>2, <4>1, <4>2, Zenon
    <3>2. CASE ~isLost
      <4>1. latencies' = Push(latencies, l, Window) /\ sizes' = Push(sizes, Bytes, Window)
        BY <1>1, <3>2 DEF Record
      <4>2. PICK v \in Seq(Results) : v = Delivered(p)
        BY <2>9
      <4>3. Delivered(q) = Append(v, e)
        BY <2>1, <2>9, <3>2, <4>2, Zenon
      <4>4. /\ Delays(Append(v, e)) = Append(Delays(v), e.latency)
            /\ Delays(v) \in Seq(Nat) /\ e.latency \in Nat
        BY ReadOffAppend, ReadOffType
      <4>5. Push(LastOf(Delays(v), Window), e.latency, Window)
              = LastOf(Append(Delays(v), e.latency), Window)
        BY <1>0, <4>4, PushIsLast
      <4>6. latencies' = LastOf(Delays(Delivered(q)), Window)
        BY <1>0, <2>1, <2>2, <4>1, <4>2, <4>3, <4>4, <4>5, Zenon
      <4>7. Len(sizes') = Len(latencies')
        <5>1. l \in Latencies
          BY <1>1, <3>2
        <5>2. Len(sizes) < Window <=> Len(latencies) < Window
          BY <1>0
        <5>3. CASE Len(latencies) < Window
          <6>1. latencies' = Append(latencies, l) /\ sizes' = Append(sizes, Bytes)
            BY <4>1, <5>2, <5>3 DEF Push
          <6> QED
            BY <1>0, <5>1, <6>1
        <5>4. CASE ~(Len(latencies) < Window)
          <6>1. latencies' = Append(Tail(latencies), l) /\ sizes' = Append(Tail(sizes), Bytes)
            BY <4>1, <5>2, <5>4 DEF Push
          <6>2. /\ Tail(latencies) \in Seq(Latencies) /\ Tail(sizes) \in Seq({Bytes})
                /\ Len(Tail(latencies)) = Len(latencies) - 1 /\ Len(Tail(sizes)) = Len(sizes) - 1
            BY <1>0, <5>4
          <6> QED
            BY <1>0, <5>1, <6>1, <6>2
        <5> QED
          BY <5>3, <5>4
      <4> QED
        BY <4>6, <4>7
    <3> QED
      BY <3>1, <3>2
  <2> QED
    BY <2>2, <2>7, <2>8, <2>10 DEF MirrorInv
<1>2. CASE UNCHANGED <<latencies, sizes, lost, stamps, past>>
  BY <1>0, <1>2 DEF MirrorInv
<1>3. ASSUME NEW l \in Latencies, NEW at \in Stamps, Record(FALSE, l, at)
      PROVE  MirrorInv'
  <2>1. l \in Nat
    BY <1>0
  <2> QED
    BY <1>1, <1>3, <2>1
<1>4. ASSUME NEW at \in Stamps, Record(TRUE, 0, at)
      PROVE  MirrorInv'
  BY <1>1, <1>4
<1>5. CASE Elapse \/ TelemetryTick \/ InferenceStarts \/ InferenceEnds \/ UNCHANGED vars
  BY <1>2, <1>5 DEF Elapse, TelemetryTick, InferenceStarts, InferenceEnds, vars, stats
<1>6. CASE \E d \in Depths : EngineChecks(d)
  BY <1>2, <1>6 DEF EngineChecks, stats
<1> QED
  BY <1>3, <1>4, <1>5, <1>6 DEF Next

(* RollingStats: the windows of a slice show the end of its history, the loss
   and time windows that of all results and the latency and size windows that
   of the delivered ones, for any window length and any results. *)
THEOREM WindowsShowThePast == Spec => []WindowsMatch
<1>1. Init => TypeInv /\ MirrorInv
  BY InitTypeInv, InitMirrorInv
<1>2. TypeInv /\ MirrorInv /\ [Next]_vars => TypeInv' /\ MirrorInv'
  BY NextTypeInv, NextMirrorInv
<1> QED
  BY <1>1, <1>2, MirrorShows, PTL DEF Spec
=============================================================================
