---------------------------- MODULE EngineProofs -----------------------------
(***************************************************************************)
(* Proofs about the control loop: the allocation arithmetic (Bandwidth),   *)
(* the decision engine, for every budget, limits, cooldown, hysteresis     *)
(* count, rollback window and log length (DecisionEngine), and the engine  *)
(* that reads the scores through the adaptive threshold (ScoredEngine).    *)
(***************************************************************************)
EXTENDS ScoredEngine, StartupConfig, Induction

-----------------------------------------------------------------------------
(* Bandwidth: facts that hold for every budget, every choice of limits and
   every resolution. *)

(* Clamping puts any amount between the limits of the slice, whatever was
   asked for: adjust_bandwidth relies on nothing else. *)
LEMMA ClampWithin ==
    ASSUME NEW s \in Slices, NEW bw \in Int
    PROVE  /\ Clamp(s, bw) \in Nat
           /\ MinBandwidth[s] <= Clamp(s, bw)
           /\ Clamp(s, bw) <= MaxBandwidth[s]
<1>1. /\ MinBandwidth[s] \in Nat
      /\ MaxBandwidth[s] \in Nat
      /\ MinBandwidth[s] <= MaxBandwidth[s]
  <2>1. InitialBandwidth[s] \in Nat /\ MinBandwidth[s] \in Nat
        /\ MaxBandwidth[s] \in Nat
    BY LimitsAssumption
  <2>2. MinBandwidth[s] <= InitialBandwidth[s]
        /\ InitialBandwidth[s] <= MaxBandwidth[s]
    BY LimitsAssumption
  <2> QED
    BY <2>1, <2>2
<1> QED
  BY <1>1 DEF Clamp, Greater, Lesser

(* Whatever is requested, for whichever slices, an allocation that respects
   the limits still does after adjust_bandwidth. *)
LEMMA AdjustedWithin ==
    ASSUME NEW a \in [Slices -> Nat], WithinLimits(a),
           NEW adj, DOMAIN adj \subseteq Slices,
           \A s \in DOMAIN adj : adj[s] \in Int
    PROVE  /\ Adjusted(a, adj) \in [Slices -> Nat]
           /\ WithinLimits(Adjusted(a, adj))
<1>1. ASSUME NEW s \in Slices
      PROVE  LET v == IF s \in DOMAIN adj THEN Clamp(s, adj[s]) ELSE a[s]
             IN  v \in Nat /\ MinBandwidth[s] <= v /\ v <= MaxBandwidth[s]
  <2>1. CASE s \in DOMAIN adj
    BY <2>1, ClampWithin
  <2>2. CASE s \notin DOMAIN adj
    BY <2>2 DEF WithinLimits
  <2> QED
    BY <2>1, <2>2
<1> QED
  BY <1>1 DEF Adjusted, WithinLimits

(* An allocation restored by a rollback comes back exactly: clamping does not
   change what is within the limits already. *)
LEMMA AdjustedRestores ==
    ASSUME NEW a \in [Slices -> Nat], NEW b \in [Slices -> Nat], WithinLimits(b)
    PROVE  Adjusted(a, b) = b
<1>1. ASSUME NEW s \in Slices
      PROVE  Clamp(s, b[s]) = b[s]
  <2>1. MinBandwidth[s] \in Nat /\ MaxBandwidth[s] \in Nat
    BY LimitsAssumption
  <2>2. MinBandwidth[s] <= b[s] /\ b[s] <= MaxBandwidth[s] /\ b[s] \in Nat
    BY DEF WithinLimits
  <2> QED
    BY <2>1, <2>2 DEF Clamp, Greater, Lesser
<1> QED
  BY <1>1 DEF Adjusted

(* The targets of the two decisions are allocations of whole units. *)
LEMMA CongestedTargetInt ==
    ASSUME NEW a \in [Slices -> Nat]
    PROVE  CongestedTarget(a) \in [Slices -> Int]
<1>1. Transfer(a) \in Int
  BY ResolutionAssumption, LimitsAssumption
  DEF Transfer, Headroom, Lesser, Slices
<1>2. /\ Percent(70, Transfer(a)) \in Int
      /\ Percent(30, Transfer(a)) \in Int
      /\ Percent(40, Transfer(a)) \in Int
  BY <1>1 DEF Percent
<1>3. Shifted(a) \in [Slices -> Int]
  BY <1>2, LimitsAssumption DEF Shifted, Slices, Lesser, Greater
<1>4. ASSUME NEW b \in [Slices -> Int]
      PROVE  Normalized(b) \in [Slices -> Int]
  <2>1. Total(b) \in Int /\ TotalBudget \in Nat \ {0}
    BY ResolutionAssumption DEF Total, Slices
  <2>2. CASE Total(b) > TotalBudget
    BY <2>1, <2>2 DEF Normalized
  <2>3. CASE ~(Total(b) > TotalBudget)
    BY <2>3 DEF Normalized
  <2> QED
    BY <2>2, <2>3
<1> QED
  BY <1>3, <1>4 DEF CongestedTarget

LEMMA NormalTargetInt ==
    ASSUME NEW a \in [Slices -> Nat]
    PROVE  NormalTarget(a) \in [Slices -> Int]
  BY LimitsAssumption DEF NormalTarget

-----------------------------------------------------------------------------
(* The log. *)

(* What appendleft does to a bounded deque. *)
LEMMA PrependProperties ==
    ASSUME NEW g \in Seq(Actions), Len(g) <= LogCapacity, NEW act \in Actions
    PROVE  /\ Prepend(act, g) \in Seq(Actions)
           /\ Len(Prepend(act, g)) = Lesser(Len(g) + 1, LogCapacity)
           /\ Len(Prepend(act, g)) \in 1 .. LogCapacity
           /\ Prepend(act, g)[1] = act
           /\ \A i \in 2 .. Len(Prepend(act, g)) :
                i - 1 \in 1 .. Len(g) /\ Prepend(act, g)[i] = g[i - 1]
<1> DEFINE n == Lesser(Len(g) + 1, LogCapacity)
<1>1. /\ Len(g) \in Nat
      /\ n \in 1 .. LogCapacity
      /\ n - 1 <= Len(g)
  BY TimingAssumption, LenProperties DEF Lesser
<1>2. \A i \in 1 .. n : (IF i = 1 THEN act ELSE g[i - 1]) \in Actions
  BY <1>1, ElementOfSeq
<1>3. Prepend(act, g) \in [1 .. n -> Actions]
  BY <1>2 DEF Prepend
<1>4. Prepend(act, g) \in Seq(Actions) /\ Len(Prepend(act, g)) = n
  BY <1>1, <1>3 
<1> QED
  BY <1>1, <1>4 DEF Prepend

(* Flagging an entry changes no trigger and no other flag. *)
LEMMA FlagProperties ==
    ASSUME NEW g \in Seq(Actions), NEW pos \in Nat
    PROVE  /\ FlagRolledBack(g, pos) \in Seq(Actions)
           /\ Len(FlagRolledBack(g, pos)) = Len(g)
           /\ \A i \in 1 .. Len(g) :
                /\ FlagRolledBack(g, pos)[i].trigger = g[i].trigger
                /\ FlagRolledBack(g, pos)[i].rolledBack
                     <=> (i = pos \/ g[i].rolledBack)
<1>1. /\ Len(g) \in Nat
      /\ DOMAIN g = 1 .. Len(g)
      /\ \A i \in 1 .. Len(g) : g[i] \in Actions
  BY LenProperties, ElementOfSeq
<1>2. FlagRolledBack(g, pos) \in [1 .. Len(g) -> Actions]
  BY <1>1 DEF FlagRolledBack, Actions
<1>3. FlagRolledBack(g, pos) \in Seq(Actions)
      /\ Len(FlagRolledBack(g, pos)) = Len(g)
  BY <1>1, <1>2
<1> QED
  BY <1>1, <1>3 DEF FlagRolledBack, Actions

(* Prepending moves the decisions and the rollbacks of the log up by one. *)
LEMMA PrependShifts ==
    ASSUME NEW g \in Seq(Actions), Len(g) <= LogCapacity, NEW act \in Actions,
           NEW h, h = Prepend(act, g)
    PROVE  /\ Len(g) \in Nat /\ Len(h) \in Nat /\ 1 \in 1 .. Len(h)
           /\ 1 \in Spikes(h) <=> act.trigger = "congestion_spike"
           /\ 1 \in Rollbacks(h) <=> act.trigger = "rollback"
           /\ h[1] = act
           /\ \A i \in 1 .. Len(h) : i # 1 =>
                /\ i - 1 \in 1 .. Len(g)
                /\ i \in Spikes(h) <=> i - 1 \in Spikes(g)
                /\ i \in Rollbacks(h) <=> i - 1 \in Rollbacks(g)
                /\ h[i] = g[i - 1]
           /\ \A k \in 1 .. Len(g) : k + 1 <= Len(h) =>
                /\ k \in Spikes(g) <=> k + 1 \in Spikes(h)
                /\ k \in Rollbacks(g) <=> k + 1 \in Rollbacks(h)
           /\ Len(h) <= Len(g) + 1
<1>1. /\ Len(g) \in Nat /\ Len(h) \in Nat /\ 1 \in 1 .. Len(h)
      /\ h[1] = act
      /\ Len(h) <= Len(g) + 1
      /\ \A i \in 1 .. Len(h) : i # 1 => i - 1 \in 1 .. Len(g) /\ h[i] = g[i - 1]
  <2>1. Len(g) \in Nat /\ LogCapacity \in Nat \ {0}
    BY LenProperties, TimingAssumption
  <2>2. /\ Len(h) = Lesser(Len(g) + 1, LogCapacity)
        /\ Len(h) \in 1 .. LogCapacity
        /\ h[1] = act
        /\ \A i \in 2 .. Len(h) : i - 1 \in 1 .. Len(g) /\ h[i] = g[i - 1]
    BY PrependProperties
  <2>3. Len(h) \in Nat /\ 1 \in 1 .. Len(h) /\ Len(h) <= Len(g) + 1
    BY <2>1, <2>2 DEF Lesser
  <2>4. \A i \in 1 .. Len(h) : i # 1 => i \in 2 .. Len(h)
    BY <2>3
  <2> QED
    BY <2>1, <2>2, <2>3, <2>4
<1>2. \A k \in 1 .. Len(g) : k + 1 <= Len(h) =>
        k + 1 \in 1 .. Len(h) /\ h[k + 1] = g[k]
  BY <1>1
<1> QED
  BY <1>1, <1>2 DEF Spikes, Rollbacks

(* The state of the log with respect to the decision at pos, or to no
   decision when pos is 0. *)
LogOK(g, pos) ==
    /\ pos # 0 => Unjudged(g, pos)
    /\ FlagsMatch(g)
    /\ Alternates(g)

(* Recording a decision that is not a rollback keeps flags and rollbacks
   matched. *)
LEMMA PrependKeepsMatch ==
    ASSUME NEW g \in Seq(Actions), Len(g) <= LogCapacity,
           FlagsMatch(g), Alternates(g),
           NEW t \in Triggers \ {"rollback"}
    PROVE  /\ FlagsMatch(Prepend(Action(t), g))
           /\ Alternates(Prepend(Action(t), g))
<1> DEFINE h == Prepend(Action(t), g)
<1>0. /\ Action(t) \in Actions
      /\ Action(t).trigger = t
      /\ Action(t).rolledBack = FALSE
  BY DEF Action, Actions, Triggers
<1> HIDE DEF h
<1>1. /\ Len(g) \in Nat /\ Len(h) \in Nat
      /\ 1 \notin Rollbacks(h)
      /\ h[1].rolledBack = FALSE
      /\ \A i \in 1 .. Len(h) : i # 1 =>
           /\ i - 1 \in 1 .. Len(g)
           /\ i \in Spikes(h) <=> i - 1 \in Spikes(g)
           /\ i \in Rollbacks(h) <=> i - 1 \in Rollbacks(g)
           /\ h[i] = g[i - 1]
      /\ \A k \in 1 .. Len(g) : k + 1 <= Len(h) =>
           /\ k \in Spikes(g) <=> k + 1 \in Spikes(h)
           /\ k \in Rollbacks(g) <=> k + 1 \in Rollbacks(h)
  BY <1>0, PrependShifts DEF h
<1>2. FlagsMatch(h)
  <2> SUFFICES ASSUME NEW i \in Spikes(h)
               PROVE  h[i].rolledBack <=>
                        \E j \in Rollbacks(h) :
                          j < i /\ \A k \in Spikes(h) : ~(j < k /\ k < i)
    BY DEF FlagsMatch
  <2>1. i \in 1 .. Len(h)
    BY DEF Spikes
  <2>2. CASE i = 1
    BY <1>1, <2>2 DEF Rollbacks
  <2>3. CASE i # 1
    <3>1. /\ i - 1 \in Spikes(g)
          /\ h[i] = g[i - 1]
      BY <1>1, <2>1, <2>3
    <3>2. ASSUME NEW j \in Rollbacks(g), j < i - 1,
                 \A k \in Spikes(g) : ~(j < k /\ k < i - 1)
          PROVE  /\ j + 1 \in Rollbacks(h)
                 /\ j + 1 < i
                 /\ \A k \in Spikes(h) : ~(j + 1 < k /\ k < i)
      <4>1. j \in 1 .. Len(g)
        BY DEF Rollbacks
      <4>2. j + 1 \in Rollbacks(h) /\ j + 1 < i
        BY <1>1, <2>1, <3>2, <4>1
      <4>3. ASSUME NEW k \in Spikes(h), j + 1 < k, k < i
            PROVE  FALSE
        <5>1. k \in 1 .. Len(h) /\ k # 1
          BY <4>1, <4>3 DEF Spikes
        <5>2. k - 1 \in Spikes(g)
          BY <1>1, <5>1
        <5> QED
          BY <2>1, <3>2, <4>1, <4>3, <5>1, <5>2
      <4> QED
        BY <4>2, <4>3
    <3>3. ASSUME NEW j \in Rollbacks(h), j < i,
                 \A k \in Spikes(h) : ~(j < k /\ k < i)
          PROVE  /\ j - 1 \in Rollbacks(g)
                 /\ j - 1 < i - 1
                 /\ \A k \in Spikes(g) : ~(j - 1 < k /\ k < i - 1)
      <4>1. j \in 1 .. Len(h) /\ j # 1
        BY <1>1 DEF Rollbacks
      <4>2. j - 1 \in Rollbacks(g) /\ j - 1 < i - 1
        BY <1>1, <2>1, <3>3, <4>1
      <4>3. ASSUME NEW k \in Spikes(g), j - 1 < k, k < i - 1
            PROVE  FALSE
        <5>1. k \in 1 .. Len(g) /\ k + 1 <= Len(h)
          BY <1>1, <2>1, <4>3 DEF Spikes
        <5>2. k + 1 \in Spikes(h)
          BY <1>1, <5>1
        <5> QED
          BY <2>1, <3>3, <4>1, <4>3, <5>1, <5>2
      <4> QED
        BY <4>2, <4>3
    <3>4. g[i - 1].rolledBack <=>
            \E j \in Rollbacks(g) :
              j < i - 1 /\ \A k \in Spikes(g) : ~(j < k /\ k < i - 1)
      BY <3>1 DEF FlagsMatch
    <3> QED
      BY <3>1, <3>2, <3>3, <3>4
  <2> QED
    BY <2>2, <2>3
<1>3. Alternates(h)
  <2> SUFFICES ASSUME NEW i \in Rollbacks(h), NEW j \in Rollbacks(h), i < j
               PROVE  \E k \in Spikes(h) : i < k /\ k < j
    BY DEF Alternates
  <2>1. i \in 1 .. Len(h) /\ j \in 1 .. Len(h) /\ i # 1 /\ j # 1
    BY <1>1 DEF Rollbacks
  <2>2. i - 1 \in Rollbacks(g) /\ j - 1 \in Rollbacks(g) /\ i - 1 < j - 1
    BY <1>1, <2>1
  <2>3. PICK k \in Spikes(g) : i - 1 < k /\ k < j - 1
    BY <2>2 DEF Alternates
  <2>4. k \in 1 .. Len(g) /\ k + 1 <= Len(h)
    BY <1>1, <2>1, <2>3 DEF Spikes
  <2>5. k + 1 \in Spikes(h) /\ i < k + 1 /\ k + 1 < j
    BY <1>1, <2>1, <2>3, <2>4
  <2> QED
    BY <2>5
<1> QED
  BY <1>2, <1>3 DEF h

(* A congestion decision becomes the one a rollback would judge. *)
LEMMA LogSpike ==
    ASSUME NEW g \in Seq(Actions), Len(g) <= LogCapacity,
           NEW pos \in Nat, LogOK(g, pos)
    PROVE  LogOK(Prepend(Action("congestion_spike"), g), 1)
<1> DEFINE h == Prepend(Action("congestion_spike"), g)
<1>1. /\ Action("congestion_spike") \in Actions
      /\ Action("congestion_spike").trigger = "congestion_spike"
      /\ Action("congestion_spike").rolledBack = FALSE
  BY DEF Action, Actions, Triggers
<1>2. FlagsMatch(h) /\ Alternates(h)
  BY PrependKeepsMatch DEF LogOK, Triggers
<1>3. /\ 1 \in Spikes(h)
      /\ ~h[1].rolledBack
  BY <1>1, PrependShifts
<1>4. \A i \in Spikes(h) \cup Rollbacks(h) : 1 <= i
  BY DEF Spikes, Rollbacks
<1> QED
  BY <1>2, <1>3, <1>4 DEF LogOK, Unjudged

(* A clear decision leaves the pending one where it was, one place older. *)
LEMMA LogClear ==
    ASSUME NEW g \in Seq(Actions), Len(g) <= LogCapacity,
           NEW pos \in Nat, LogOK(g, pos)
    PROVE  LogOK(Prepend(Action("congestion_clear"), g),
                 IF pos = 0 THEN 0 ELSE pos + 1)
<1> DEFINE h == Prepend(Action("congestion_clear"), g)
<1>1. /\ Action("congestion_clear") \in Actions
      /\ Action("congestion_clear").trigger = "congestion_clear"
  BY DEF Action, Actions, Triggers
<1>2. FlagsMatch(h) /\ Alternates(h)
  BY PrependKeepsMatch DEF LogOK, Triggers
<1>3. ASSUME pos # 0
      PROVE  Unjudged(h, pos + 1)
  <2> HIDE DEF h
  <2>1. /\ Len(g) \in Nat /\ Len(h) \in Nat
        /\ Len(h) <= Len(g) + 1
        /\ 1 \notin Spikes(h) /\ 1 \notin Rollbacks(h)
        /\ \A i \in 1 .. Len(h) : i # 1 =>
             /\ i \in Spikes(h) <=> i - 1 \in Spikes(g)
             /\ i \in Rollbacks(h) <=> i - 1 \in Rollbacks(g)
             /\ h[i] = g[i - 1]
    BY <1>1, PrependShifts DEF h
  <2>2. Unjudged(g, pos)
    BY <1>3 DEF LogOK
  <2>3. ASSUME pos + 1 <= Len(h)
        PROVE  pos + 1 \in Spikes(h) /\ ~h[pos + 1].rolledBack
    <3>1. pos <= Len(g) /\ pos + 1 \in 1 .. Len(h) /\ pos + 1 # 1
      BY <1>3, <2>1, <2>3
    <3>2. pos \in Spikes(g) /\ ~g[pos].rolledBack
      BY <2>2, <3>1 DEF Unjudged
    <3>3. (pos + 1) - 1 = pos
      OBVIOUS
    <3> QED
      BY <2>1, <3>1, <3>2, <3>3
  <2>4. ASSUME NEW i \in Spikes(h) \cup Rollbacks(h)
        PROVE  pos + 1 <= i
    <3>1. i \in 1 .. Len(h) /\ i # 1
      BY <2>1 DEF Spikes, Rollbacks
    <3>2. i - 1 \in Spikes(g) \cup Rollbacks(g)
      BY <2>1, <3>1
    <3>3. pos <= i - 1
      BY <2>2, <3>2 DEF Unjudged
    <3> QED
      BY <3>1, <3>3
  <2> QED
    BY <2>3, <2>4 DEF Unjudged
<1> QED
  BY <1>2, <1>3 DEF LogOK

(* Recording the rollback of the pending decision and flagging it. *)
LEMMA LogRollback ==
    ASSUME NEW g \in Seq(Actions), Len(g) <= LogCapacity,
           NEW pos \in Nat \ {0}, LogOK(g, pos)
    PROVE  LogOK(Prepend(Action("rollback"), FlagRolledBack(g, pos)), 0)
<1> DEFINE f == FlagRolledBack(g, pos)
           h == Prepend(Action("rollback"), f)
<1>1. /\ Action("rollback") \in Actions
      /\ Action("rollback").trigger = "rollback"
  BY DEF Action, Actions, Triggers
<1>2. /\ f \in Seq(Actions) /\ Len(f) = Len(g)
      /\ \A i \in 1 .. Len(g) :
           f[i].rolledBack <=> (i = pos \/ g[i].rolledBack)
      /\ Spikes(f) = Spikes(g) /\ Rollbacks(f) = Rollbacks(g)
  BY FlagProperties DEF Spikes, Rollbacks
<1> HIDE DEF f, h
<1>3. /\ Len(g) \in Nat /\ Len(h) \in Nat
      /\ 1 \in Rollbacks(h) /\ 1 \notin Spikes(h)
      /\ \A i \in 1 .. Len(h) : i # 1 =>
           /\ i - 1 \in 1 .. Len(g)
           /\ i \in Spikes(h) <=> i - 1 \in Spikes(g)
           /\ i \in Rollbacks(h) <=> i - 1 \in Rollbacks(g)
           /\ h[i] = f[i - 1]
      /\ \A k \in 1 .. Len(g) : k + 1 <= Len(h) =>
           /\ k \in Spikes(g) <=> k + 1 \in Spikes(h)
           /\ k \in Rollbacks(g) <=> k + 1 \in Rollbacks(h)
  <2>1. /\ Action("rollback").trigger # "congestion_spike"
        /\ Len(f) <= LogCapacity
    BY <1>1, <1>2
  <2>2. /\ Len(f) \in Nat /\ Len(h) \in Nat
        /\ 1 \in Rollbacks(h) /\ 1 \notin Spikes(h)
        /\ \A i \in 1 .. Len(h) : i # 1 =>
             /\ i - 1 \in 1 .. Len(f)
             /\ i \in Spikes(h) <=> i - 1 \in Spikes(f)
             /\ i \in Rollbacks(h) <=> i - 1 \in Rollbacks(f)
             /\ h[i] = f[i - 1]
        /\ \A k \in 1 .. Len(f) : k + 1 <= Len(h) =>
             /\ k \in Spikes(f) <=> k + 1 \in Spikes(h)
             /\ k \in Rollbacks(f) <=> k + 1 \in Rollbacks(h)
    BY <1>1, <1>2, <2>1, PrependShifts DEF h
  <2> QED
    BY <1>2, <2>2
<1>4. /\ pos <= Len(g) => pos \in Spikes(g) /\ ~g[pos].rolledBack
      /\ \A i \in Spikes(g) \cup Rollbacks(g) : pos <= i
      /\ FlagsMatch(g) /\ Alternates(g)
  BY DEF LogOK, Unjudged
<1>5. FlagsMatch(h)
  <2> SUFFICES ASSUME NEW i \in Spikes(h)
               PROVE  h[i].rolledBack <=>
                        \E j \in Rollbacks(h) :
                          j < i /\ \A k \in Spikes(h) : ~(j < k /\ k < i)
    BY DEF FlagsMatch
  <2>1. i \in 1 .. Len(h) /\ i # 1
    BY <1>3 DEF Spikes
  <2>2. i - 1 \in Spikes(g) /\ i - 1 \in 1 .. Len(g) /\ pos <= i - 1
    BY <1>3, <1>4, <2>1
  <2>3. pos \in Spikes(g) /\ pos \in 1 .. Len(g) /\ ~g[pos].rolledBack
    BY <1>3, <1>4, <2>2
  <2>4. h[i].rolledBack <=> (i - 1 = pos \/ g[i - 1].rolledBack)
    BY <1>2, <1>3, <2>1, <2>2
  <2>5. CASE i - 1 = pos
    <3>1. ASSUME NEW k \in Spikes(h), 1 < k, k < i
          PROVE  FALSE
      <4>1. k \in 1 .. Len(h) /\ k # 1
        BY <3>1 DEF Spikes
      <4>2. k - 1 \in Spikes(g)
        BY <1>3, <4>1
      <4> QED
        BY <1>4, <2>1, <2>5, <3>1, <4>1, <4>2
    <3>2. 1 \in Rollbacks(h) /\ 1 < i
      BY <1>3, <2>1
    <3>3. h[i].rolledBack
      BY <2>4, <2>5
    <3> QED
      BY <3>1, <3>2, <3>3
  <2>6. CASE i - 1 # pos
    <3>1. pos + 1 \in Spikes(h) /\ 1 < pos + 1 /\ pos + 1 < i
      BY <1>3, <2>1, <2>2, <2>3, <2>6
    <3>2. h[i].rolledBack <=> g[i - 1].rolledBack
      BY <2>4, <2>6
    <3>3. ASSUME NEW j \in Rollbacks(g), j < i - 1,
                 \A k \in Spikes(g) : ~(j < k /\ k < i - 1)
          PROVE  /\ j + 1 \in Rollbacks(h)
                 /\ j + 1 < i
                 /\ \A k \in Spikes(h) : ~(j + 1 < k /\ k < i)
      <4>1. j \in 1 .. Len(g)
        BY DEF Rollbacks
      <4>2. j + 1 \in Rollbacks(h) /\ j + 1 < i
        BY <1>3, <2>1, <3>3, <4>1
      <4>3. ASSUME NEW k \in Spikes(h), j + 1 < k, k < i
            PROVE  FALSE
        <5>1. k \in 1 .. Len(h) /\ k # 1
          BY <4>1, <4>3 DEF Spikes
        <5>2. k - 1 \in Spikes(g)
          BY <1>3, <5>1
        <5> QED
          BY <2>1, <3>3, <4>1, <4>3, <5>1, <5>2
      <4> QED
        BY <4>2, <4>3
    <3>4. ASSUME NEW j \in Rollbacks(h), j < i,
                 \A k \in Spikes(h) : ~(j < k /\ k < i)
          PROVE  /\ j - 1 \in Rollbacks(g)
                 /\ j - 1 < i - 1
                 /\ \A k \in Spikes(g) : ~(j - 1 < k /\ k < i - 1)
      <4>1. j \in 1 .. Len(h) /\ j # 1
        BY <3>1, <3>4 DEF Rollbacks
      <4>2. j - 1 \in Rollbacks(g) /\ j - 1 < i - 1
        BY <1>3, <2>1, <3>4, <4>1
      <4>3. ASSUME NEW k \in Spikes(g), j - 1 < k, k < i - 1
            PROVE  FALSE
        <5>1. k \in 1 .. Len(g) /\ k + 1 <= Len(h)
          BY <1>3, <2>1, <4>3 DEF Spikes
        <5>2. k + 1 \in Spikes(h)
          BY <1>3, <5>1
        <5> QED
          BY <2>1, <3>4, <4>1, <4>3, <5>1, <5>2
      <4> QED
        BY <4>2, <4>3
    <3>5. g[i - 1].rolledBack <=>
            \E j \in Rollbacks(g) :
              j < i - 1 /\ \A k \in Spikes(g) : ~(j < k /\ k < i - 1)
      BY <1>4, <2>2 DEF FlagsMatch
    <3> QED
      BY <3>2, <3>3, <3>4, <3>5
  <2> QED
    BY <2>5, <2>6
<1>6. Alternates(h)
  <2> SUFFICES ASSUME NEW i \in Rollbacks(h), NEW j \in Rollbacks(h), i < j
               PROVE  \E k \in Spikes(h) : i < k /\ k < j
    BY DEF Alternates
  <2>1. i \in 1 .. Len(h) /\ j \in 1 .. Len(h) /\ j # 1
    BY DEF Rollbacks
  <2>2. j - 1 \in Rollbacks(g) /\ j - 1 \in 1 .. Len(g) /\ pos <= j - 1
    BY <1>3, <1>4, <2>1
  <2>3. CASE i = 1
    <3>1. pos \in Spikes(g) /\ pos \in 1 .. Len(g)
      BY <1>3, <1>4, <2>2
    <3>2. pos # j - 1
      BY <2>2, <3>1 DEF Spikes, Rollbacks
    <3>3. pos + 1 \in Spikes(h) /\ i < pos + 1 /\ pos + 1 < j
      BY <1>3, <2>1, <2>2, <2>3, <3>1, <3>2
    <3> QED
      BY <3>3
  <2>4. CASE i # 1
    <3>1. i - 1 \in Rollbacks(g) /\ i - 1 < j - 1
      BY <1>3, <2>1, <2>4
    <3>2. PICK k \in Spikes(g) : i - 1 < k /\ k < j - 1
      BY <1>4, <2>2, <3>1 DEF Alternates
    <3>3. k \in 1 .. Len(g) /\ k + 1 <= Len(h)
      BY <1>3, <2>1, <3>2 DEF Spikes
    <3>4. k + 1 \in Spikes(h) /\ i < k + 1 /\ k + 1 < j
      BY <1>3, <2>1, <3>2, <3>3
    <3> QED
      BY <3>4
  <2> QED
    BY <2>3, <2>4
<1> QED
  BY <1>5, <1>6 DEF LogOK, h, f

-----------------------------------------------------------------------------
(* The engine. *)

(* The counters: only one of them counts at a time, neither is full once the
   cooldown is over, and during a cooldown that is no longer than the count a
   decision needs neither has more readings than the cooldown has seconds. *)
CountersOK ==
    /\ high = 0 \/ low = 0
    /\ age = Cooldown => high < HysteresisCount /\ low < HysteresisCount
    /\ Cooldown <= HysteresisCount /\ age < Cooldown => high <= age /\ low <= age

(* The invariant that is inductive: the counters, the allocation with the
   snapshot a rollback would restore, and the log with the decision that
   rollback would flag. *)
IInv ==
    /\ TypeOK
    /\ AllocWithinLimits
    /\ LogOK(log, pending.pos)
    /\ CountersOK

LEMMA StartupWithinLimits ==
    /\ InitialBandwidth \in [Slices -> Nat]
    /\ WithinLimits(InitialBandwidth)
  BY LimitsAssumption DEF WithinLimits

LEMMA NoRollbackType ==
    /\ NoRollback \in Snapshots
    /\ NoRollback.pos = 0
    /\ WithinLimits(NoRollback.alloc)
  BY StartupWithinLimits, TimingAssumption DEF NoRollback, Snapshots

LEMMA SnapshotType ==
    ASSUME NEW a \in [Slices -> Nat], WithinLimits(a), NEW lat \in Latencies
    PROVE  /\ Snapshot(a, lat) \in Snapshots
           /\ Snapshot(a, lat).pos = 1
           /\ WithinLimits(Snapshot(a, lat).alloc)
  BY TimingAssumption DEF Snapshot, Snapshots

LEMMA InitIInv == Init => IInv
<1> SUFFICES ASSUME Init
             PROVE  IInv
  OBVIOUS
<1>1. TypeOK
  BY StartupWithinLimits, NoRollbackType, TimingAssumption, EmptySeq
  DEF Init, TypeOK
<1>2. AllocWithinLimits
  BY StartupWithinLimits, NoRollbackType DEF Init, AllocWithinLimits
<1>3. LogOK(log, pending.pos)
  BY NoRollbackType DEF Init, LogOK, FlagsMatch, Alternates, Spikes, Rollbacks
<1>4. CountersOK
  BY TimingAssumption DEF Init, CountersOK
<1> QED
  BY <1>1, <1>2, <1>3, <1>4 DEF IInv

(* What the first part of a tick, _maybe_rollback, hands to the second. *)
LEMMA JudgedProperties ==
    ASSUME IInv, NEW d \in Sleeps, NEW lat \in Latencies
    PROVE  /\ AllocJudged(d, lat) \in [Slices -> Nat]
           /\ WithinLimits(AllocJudged(d, lat))
           /\ LogJudged(d, lat) \in Seq(Actions)
           /\ Len(LogJudged(d, lat)) <= LogCapacity
           /\ PendingJudged(d) \in Snapshots
           /\ WithinLimits(PendingJudged(d).alloc)
           /\ LogOK(LogJudged(d, lat), PendingJudged(d).pos)
<1>1. /\ alloc \in [Slices -> Nat] /\ WithinLimits(alloc)
      /\ pending \in Snapshots /\ WithinLimits(pending.alloc)
      /\ log \in Seq(Actions) /\ Len(log) <= LogCapacity
      /\ LogOK(log, pending.pos)
  BY DEF IInv, TypeOK, AllocWithinLimits
<1>2. pending.alloc \in [Slices -> Nat] /\ pending.pos \in Nat
      /\ pending.due \in 0 .. RollbackWindow
  BY <1>1 DEF Snapshots
<1>3. AllocJudged(d, lat) \in [Slices -> Nat]
      /\ WithinLimits(AllocJudged(d, lat))
  <2>1. /\ DOMAIN pending.alloc \subseteq Slices
        /\ \A s \in DOMAIN pending.alloc : pending.alloc[s] \in Int
    BY <1>2
  <2>2. Adjusted(alloc, pending.alloc) \in [Slices -> Nat]
        /\ WithinLimits(Adjusted(alloc, pending.alloc))
    BY <1>1, <2>1, AdjustedWithin
  <2> QED
    BY <1>1, <2>2 DEF AllocJudged
<1>4. CASE Reverts(d, lat)
  <2>1. pending.pos \in Nat \ {0} /\ PendingJudged(d) = NoRollback
    BY <1>2, <1>4 DEF Reverts, Judged, IsPending, PendingJudged
  <2>2. /\ FlagRolledBack(log, pending.pos) \in Seq(Actions)
        /\ Len(FlagRolledBack(log, pending.pos)) <= LogCapacity
    BY <1>1, <1>2, FlagProperties
  <2>3. Action("rollback") \in Actions
    BY DEF Action, Actions, Triggers
  <2>4. LogJudged(d, lat) =
          Prepend(Action("rollback"), FlagRolledBack(log, pending.pos))
    BY <1>4 DEF LogJudged
  <2>5. LogJudged(d, lat) \in Seq(Actions)
        /\ Len(LogJudged(d, lat)) <= LogCapacity
    BY <2>2, <2>3, <2>4, PrependProperties, TimingAssumption
  <2>6. LogOK(LogJudged(d, lat), 0)
    BY <1>1, <2>1, <2>4, LogRollback
  <2> QED
    BY <1>3, <2>1, <2>5, <2>6, NoRollbackType
<1>5. CASE ~Reverts(d, lat)
  <2>1. LogJudged(d, lat) = log
    BY <1>5 DEF LogJudged
  <2>2. CASE IsPending /\ ~Judged(d)
    <3>1. PendingJudged(d) = [pending EXCEPT !.due = @ - d]
      BY <2>2 DEF PendingJudged
    <3>2. pending.due - d \in 0 .. RollbackWindow
      BY <1>2, <2>2, TimingAssumption DEF Judged, Sleeps
    <3>3. /\ PendingJudged(d) \in Snapshots
          /\ PendingJudged(d).alloc = pending.alloc
          /\ PendingJudged(d).pos = pending.pos
      BY <1>1, <3>1, <3>2 DEF Snapshots
    <3> QED
      BY <1>1, <1>3, <2>1, <3>3
  <2>3. CASE ~(IsPending /\ ~Judged(d))
    <3>1. PendingJudged(d) = NoRollback
      BY <2>3 DEF PendingJudged
    <3>2. LogOK(log, 0)
      BY <1>1 DEF LogOK
    <3> QED
      BY <1>1, <1>3, <2>1, <3>1, <3>2, NoRollbackType
  <2> QED
    BY <2>2, <2>3
<1> QED
  BY <1>4, <1>5

LEMMA CountersType ==
    ASSUME IInv, NEW r \in Readings
    PROVE  /\ HighAfter(r) \in Nat /\ LowAfter(r) \in Nat
           /\ HighAfter(r) = 0 \/ LowAfter(r) = 0
  BY DEF IInv, TypeOK, CountersOK, HighAfter, LowAfter, Readings

(* A decision applies a target of whole units through adjust_bandwidth. *)
LEMMA TargetsWithin ==
    ASSUME NEW a \in [Slices -> Nat], WithinLimits(a)
    PROVE  /\ Adjusted(a, CongestedTarget(a)) \in [Slices -> Nat]
           /\ WithinLimits(Adjusted(a, CongestedTarget(a)))
           /\ Adjusted(a, NormalTarget(a)) \in [Slices -> Nat]
           /\ WithinLimits(Adjusted(a, NormalTarget(a)))
<1>1. CongestedTarget(a) \in [Slices -> Int] /\ NormalTarget(a) \in [Slices -> Int]
  BY CongestedTargetInt, NormalTargetInt
<1>2. ASSUME NEW adj \in [Slices -> Int]
      PROVE  /\ Adjusted(a, adj) \in [Slices -> Nat]
             /\ WithinLimits(Adjusted(a, adj))
  <2>1. DOMAIN adj \subseteq Slices /\ \A s \in DOMAIN adj : adj[s] \in Int
    OBVIOUS
  <2> QED
    BY <2>1, AdjustedWithin
<1> QED
  BY <1>1, <1>2

LEMMA TickCongestedKeepsIInv ==
    ASSUME IInv, NEW r \in Readings, NEW d \in Sleeps, NEW lat \in Latencies,
           TickCongested(r, d, lat)
    PROVE  IInv'
<1> DEFINE a == AllocJudged(d, lat)
           g == LogJudged(d, lat)
<1>1. /\ a \in [Slices -> Nat] /\ WithinLimits(a)
      /\ g \in Seq(Actions) /\ Len(g) <= LogCapacity
      /\ PendingJudged(d).pos \in Nat
      /\ LogOK(g, PendingJudged(d).pos)
  BY JudgedProperties DEF Snapshots
<1>2. /\ alloc' = Adjusted(a, CongestedTarget(a))
      /\ high' = 0 /\ low' = LowAfter(r) /\ age' = 0
      /\ pending' = Snapshot(a, lat)
      /\ log' = Prepend(Action("congestion_spike"), g)
  BY DEF TickCongested
<1> HIDE DEF a, g
<1>3. alloc' \in [Slices -> Nat] /\ WithinLimits(alloc')
  BY <1>1, <1>2, TargetsWithin
<1>4. /\ pending' \in Snapshots /\ pending'.pos = 1
      /\ WithinLimits(pending'.alloc)
  BY <1>1, <1>2, SnapshotType
<1>5. log' \in Seq(Actions) /\ Len(log') <= LogCapacity
  <2>1. Action("congestion_spike") \in Actions
    BY DEF Action, Actions, Triggers
  <2> QED
    BY <1>1, <1>2, <2>1, PrependProperties, TimingAssumption
<1>6. TypeOK'
  BY <1>2, <1>3, <1>4, <1>5, CountersType, TimingAssumption DEF TypeOK
<1>7. AllocWithinLimits'
  BY <1>3, <1>4 DEF AllocWithinLimits, WithinLimits
<1>8. LogOK(log', pending'.pos)
  BY <1>1, <1>2, <1>4, LogSpike
<1>9. CountersOK'
  <2>1. HighAfter(r) \in Nat /\ LowAfter(r) \in Nat /\ HighAfter(r) >= 1
    BY CountersType, TimingAssumption DEF TickCongested, Congested
  <2>2. low' = 0
    BY <1>2, <2>1, CountersType
  <2> QED
    BY <1>2, <2>2, TimingAssumption DEF CountersOK
<1> QED
  BY <1>6, <1>7, <1>8, <1>9
  DEF IInv, LogOK, Unjudged, FlagsMatch, Alternates, Spikes, Rollbacks

LEMMA TickNormalKeepsIInv ==
    ASSUME IInv, NEW r \in Readings, NEW d \in Sleeps, NEW lat \in Latencies,
           TickNormal(r, d, lat)
    PROVE  IInv'
<1> DEFINE a == AllocJudged(d, lat)
           g == LogJudged(d, lat)
           p == PendingJudged(d)
<1>1. /\ a \in [Slices -> Nat] /\ WithinLimits(a)
      /\ g \in Seq(Actions) /\ Len(g) <= LogCapacity
      /\ p \in Snapshots /\ WithinLimits(p.alloc)
      /\ LogOK(g, p.pos)
  BY JudgedProperties
<1>2. /\ alloc' = Adjusted(a, NormalTarget(a))
      /\ high' = HighAfter(r) /\ low' = 0 /\ age' = 0
      /\ pending' = Shift(p)
      /\ log' = Prepend(Action("congestion_clear"), g)
  BY DEF TickNormal
<1> HIDE DEF a, g, p
<1>3. alloc' \in [Slices -> Nat] /\ WithinLimits(alloc')
  BY <1>1, <1>2, TargetsWithin
<1>4. /\ pending' \in Snapshots
      /\ pending'.pos = IF p.pos = 0 THEN 0 ELSE p.pos + 1
      /\ pending'.alloc = p.alloc
  <2>1. CASE p.pos = 0
    BY <1>1, <1>2, <2>1 DEF Shift
  <2>2. CASE p.pos # 0
    <3>1. pending' = [p EXCEPT !.pos = p.pos + 1]
      BY <1>2, <2>2 DEF Shift
    <3>2. p.pos + 1 \in Nat
      BY <1>1 DEF Snapshots
    <3>3. pending' \in Snapshots
      BY <1>1, <3>1, <3>2 DEF Snapshots
    <3>4. pending'.pos = p.pos + 1 /\ pending'.alloc = p.alloc
      BY <1>1, <3>1 DEF Snapshots
    <3> QED
      BY <2>2, <3>3, <3>4
  <2> QED
    BY <2>1, <2>2
<1>5. log' \in Seq(Actions) /\ Len(log') <= LogCapacity
  <2>1. Action("congestion_clear") \in Actions
    BY DEF Action, Actions, Triggers
  <2> QED
    BY <1>1, <1>2, <2>1, PrependProperties, TimingAssumption
<1>6. TypeOK'
  BY <1>2, <1>3, <1>4, <1>5, CountersType, TimingAssumption DEF TypeOK
<1>7. AllocWithinLimits'
  BY <1>1, <1>3, <1>4 DEF AllocWithinLimits, WithinLimits
<1>8. LogOK(log', pending'.pos)
  <2>1. p.pos \in Nat
    BY <1>1 DEF Snapshots
  <2> QED
    BY <1>1, <1>2, <1>4, <2>1, LogClear
<1>9. CountersOK'
  <2>1. HighAfter(r) \in Nat /\ LowAfter(r) \in Nat /\ LowAfter(r) >= 1
    BY CountersType, TimingAssumption DEF TickNormal, Cleared
  <2>2. high' = 0
    BY <1>2, <2>1, CountersType
  <2> QED
    BY <1>2, <2>2, TimingAssumption DEF CountersOK
<1> QED
  BY <1>6, <1>7, <1>8, <1>9
  DEF IInv, LogOK, Unjudged, FlagsMatch, Alternates, Spikes, Rollbacks

LEMMA TickQuietKeepsIInv ==
    ASSUME IInv, NEW r \in Readings, NEW d \in Sleeps, NEW lat \in Latencies,
           TickQuiet(r, d, lat)
    PROVE  IInv'
<1>1. /\ alloc' \in [Slices -> Nat] /\ WithinLimits(alloc')
      /\ log' \in Seq(Actions) /\ Len(log') <= LogCapacity
      /\ pending' \in Snapshots /\ WithinLimits(pending'.alloc)
      /\ LogOK(log', pending'.pos)
  BY JudgedProperties DEF TickQuiet
<1>2. /\ high' = HighAfter(r) /\ low' = LowAfter(r)
      /\ age' = Lesser(Cooldown, age + d)
      /\ ~Congested(r, d) /\ ~Cleared(r, d)
      /\ age \in 0 .. Cooldown
  BY DEF TickQuiet, IInv, TypeOK
<1>3. TypeOK'
  BY <1>1, <1>2, CountersType, TimingAssumption DEF TypeOK, Lesser, Sleeps
<1>4. AllocWithinLimits'
  BY <1>1 DEF AllocWithinLimits, WithinLimits
<1>5. CountersOK'
  <2>1. high' \in Nat /\ low' \in Nat /\ (high' = 0 \/ low' = 0)
    BY <1>2, CountersType
  <2>2. ASSUME age' = Cooldown
        PROVE  high' < HysteresisCount /\ low' < HysteresisCount
    <3>1. Cooled(d)
      BY <1>2, <2>2, TimingAssumption DEF Lesser, Cooled, Sleeps
    <3> QED
      BY <1>2, <2>1, <3>1, TimingAssumption DEF Congested, Cleared
  <2>3. ASSUME Cooldown <= HysteresisCount, age' < Cooldown
        PROVE  high' <= age' /\ low' <= age'
    <3>1. /\ d \in Nat /\ d >= 1 /\ Cooldown \in Nat /\ age \in Nat
          /\ high \in Nat /\ low \in Nat
      BY <1>2, TimingAssumption DEF Sleeps, IInv, TypeOK
    <3>2. age < Cooldown /\ age' = age + d
      BY <1>2, <2>3, <3>1 DEF Lesser
    <3>3. high <= age /\ low <= age
      BY <2>3, <3>2 DEF IInv, CountersOK
    <3>4. HighAfter(r) <= high + 1 /\ LowAfter(r) <= low + 1
      BY <3>1 DEF HighAfter, LowAfter, Readings
    <3> QED
      BY <1>2, <3>1, <3>2, <3>3, <3>4, CountersType
  <2> QED
    BY <2>1, <2>2, <2>3 DEF CountersOK
<1> QED
  BY <1>1, <1>3, <1>4, <1>5
  DEF IInv, LogOK, Unjudged, FlagsMatch, Alternates, Spikes, Rollbacks

LEMMA OverrideKeepsIInv ==
    ASSUME IInv, NEW req \in OverrideRequests, Override(req)
    PROVE  IInv'
<1>1. /\ alloc' = Adjusted(alloc, req)
      /\ UNCHANGED <<high, low, age, pending, log>>
      /\ alloc \in [Slices -> Nat] /\ WithinLimits(alloc)
      /\ WithinLimits(pending.alloc)
  BY DEF Override, IInv, TypeOK, AllocWithinLimits
<1>2. alloc' \in [Slices -> Nat] /\ WithinLimits(alloc')
  BY <1>1, AdjustedWithin, OverrideAssumption
<1>3. TypeOK'
  BY <1>1, <1>2 DEF IInv, TypeOK
<1>4. AllocWithinLimits'
  BY <1>1, <1>2 DEF AllocWithinLimits, WithinLimits
<1>5. CountersOK'
  BY <1>1 DEF IInv, CountersOK
<1> QED
  BY <1>1, <1>3, <1>4, <1>5
  DEF IInv, LogOK, Unjudged, FlagsMatch, Alternates, Spikes, Rollbacks

LEMMA NextIInv == IInv /\ [Next]_vars => IInv'
<1> SUFFICES ASSUME IInv, [Next]_vars
             PROVE  IInv'
  OBVIOUS
<1>1. CASE \E r \in Readings : Tick(r)
  <2>1. PICK r \in Readings : Tick(r)
    BY <1>1
  <2>2. PICK d \in Sleeps, lat \in Latencies :
            \/ TickCongested(r, d, lat)
            \/ TickNormal(r, d, lat)
            \/ TickQuiet(r, d, lat)
    BY <2>1 DEF Tick
  <2> QED
    BY <2>2, TickCongestedKeepsIInv, TickNormalKeepsIInv, TickQuietKeepsIInv
<1>2. CASE \E req \in OverrideRequests : Override(req)
  BY <1>2, OverrideKeepsIInv
<1>3. CASE UNCHANGED vars
  <2>1. /\ alloc' = alloc /\ high' = high /\ low' = low /\ age' = age
        /\ pending' = pending /\ log' = log
    BY <1>3 DEF vars
  <2>2. TypeOK'
    BY <2>1 DEF IInv, TypeOK
  <2>3. AllocWithinLimits'
    BY <2>1 DEF IInv, AllocWithinLimits, WithinLimits
  <2>4. CountersOK'
    BY <2>1 DEF IInv, CountersOK
  <2>5. LogOK(log', pending'.pos)
    BY <2>1 DEF IInv
  <2> QED
    BY <2>2, <2>3, <2>4, <2>5
    DEF IInv, LogOK, Unjudged, FlagsMatch, Alternates, Spikes, Rollbacks
<1> QED
  BY <1>1, <1>2, <1>3 DEF Next

(* The inductive invariant holds of every behaviour of the engine. *)
THEOREM Invariance == Spec => []IInv
<1> QED
  BY InitIInv, NextIInv, PTL DEF Spec

(* Every variable keeps its type: in particular the action log never exceeds
   its capacity and the rollback timer never leaves its window. *)
THEOREM TypeCorrect == Spec => []TypeOK
<1>1. IInv => TypeOK
  BY DEF IInv
<1> QED
  BY Invariance, <1>1, PTL

(* Starvation prevention (engine.py's design guarantee): no sequence of
   decisions, rollbacks and overrides, however large the values an operator
   asks for, takes a slice out of its limits. *)
THEOREM NoStarvation == Spec => []AllocWithinLimits
<1>1. IInv => AllocWithinLimits
  BY DEF IInv
<1> QED
  BY Invariance, <1>1, PTL

(* A pending rollback always refers to the newest congestion decision of the
   log, not yet undone. *)
THEOREM PendingNeverStale == Spec => []PendingIsLatestSpike
<1>1. IInv => PendingIsLatestSpike
  BY DEF IInv, LogOK, PendingIsLatestSpike, IsPending
<1> QED
  BY Invariance, <1>1, PTL

(* The rolled-back flags and the rollback records of the log match one to one. *)
THEOREM RollbacksRecorded == Spec => []RollbacksMatchSpikes
<1>1. IInv => RollbacksMatchSpikes
  BY DEF IInv, LogOK, RollbacksMatchSpikes
<1> QED
  BY Invariance, <1>1, PTL

(* Hysteresis and cooldown: with a cooldown no longer than the count, every
   decision is taken on the reading that completes its count, for any such
   cooldown and count and however late the ticks are. *)
THEOREM DecisionsOnFreshReadings == Spec => []TriggersAreFresh
<1>1. IInv => TriggersAreFresh
  BY TimingAssumption DEF IInv, TypeOK, CountersOK, TriggersAreFresh
<1> QED
  BY Invariance, <1>1, PTL

-----------------------------------------------------------------------------
(* The counters of GET /metrics. *)

Flagged(g) == {i \in 1 .. Len(g) : g[i].rolledBack}

LEMMA FlaggedCounts ==
    \A g \in Seq(Actions) : RollbacksTotal(g) = Cardinality(Flagged(g))
<1> SUFFICES ASSUME NEW g \in Seq(Actions)
             PROVE  RollbacksTotal(g) = Cardinality(Flagged(g))
  OBVIOUS
<1>1. DOMAIN g = 1 .. Len(g)
  BY LenProperties
<1> QED
  BY <1>1 DEF RollbacksTotal, Flagged

LEMMA CountedFinite ==
    ASSUME NEW g \in Seq(Actions)
    PROVE  /\ IsFiniteSet(Flagged(g)) /\ Flagged(g) \subseteq 1 .. Len(g)
           /\ IsFiniteSet(Rollbacks(g)) /\ Rollbacks(g) \subseteq 1 .. Len(g)
           /\ Cardinality(Flagged(g)) \in Nat /\ Cardinality(Rollbacks(g)) \in Nat
<1>1. Len(g) \in Nat
  BY LenProperties
<1>2. IsFiniteSet(1 .. Len(g))
  BY <1>1, FS_Interval
<1>3. Flagged(g) \in SUBSET (1 .. Len(g)) /\ Rollbacks(g) \in SUBSET (1 .. Len(g))
  BY DEF Flagged, Rollbacks
<1>4. IsFiniteSet(Flagged(g)) /\ IsFiniteSet(Rollbacks(g))
  BY <1>2, <1>3, FS_Subset
<1> QED
  BY <1>3, <1>4, FS_CardinalityType

(* Numbers that all move up by one stay as many. *)
LEMMA ShiftedAsMany ==
    ASSUME NEW S, S \subseteq Nat, IsFiniteSet(S)
    PROVE  /\ IsFiniteSet({i + 1 : i \in S})
           /\ Cardinality({i + 1 : i \in S}) = Cardinality(S)
<1> DEFINE T == {i + 1 : i \in S}
           f == [i \in S |-> i + 1]
<1>1. f \in Surjection(S, T)
  BY DEF Surjection
<1>2. f \in Injection(S, T)
  BY DEF Injection, IsInjective
<1> HIDE DEF T, f
<1>3. IsFiniteSet(T) /\ Cardinality(T) = Cardinality(S)
  BY <1>1, <1>2, FS_Surjection
<1> QED
  BY <1>3 DEF T

(* A record that is prepended to a log with room for it shifts the flags. *)
LEMMA PrependCounts ==
    ASSUME NEW g \in Seq(Actions), Len(g) + 1 <= LogCapacity,
           NEW act \in Actions, ~act.rolledBack,
           NEW h, h = Prepend(act, g)
    PROVE  /\ h \in Seq(Actions)
           /\ RollbacksTotal(h) = RollbacksTotal(g)
           /\ Cardinality(Rollbacks(h))
                = Cardinality(Rollbacks(g)) + (IF act.trigger = "rollback" THEN 1 ELSE 0)
<1>1. Len(g) \in Nat /\ LogCapacity \in Nat /\ Len(g) <= LogCapacity
  BY LenProperties, TimingAssumption
<1>2. h \in Seq(Actions) /\ Len(h) = Len(g) + 1
  BY <1>1, PrependProperties DEF Lesser
<1>3. /\ h[1] = act
      /\ \A i \in 1 .. Len(h) : i # 1 => i - 1 \in 1 .. Len(g) /\ h[i] = g[i - 1]
      /\ 1 \in Rollbacks(h) <=> act.trigger = "rollback"
      /\ \A i \in 1 .. Len(h) : i # 1 => (i \in Rollbacks(h) <=> i - 1 \in Rollbacks(g))
      /\ \A k \in 1 .. Len(g) : k + 1 <= Len(h) => (k \in Rollbacks(g) <=> k + 1 \in Rollbacks(h))
  BY <1>1, PrependShifts
<1> DEFINE FG == Flagged(g)
           RG == Rollbacks(g)
<1>4. IsFiniteSet(FG) /\ FG \subseteq 1 .. Len(g) /\ IsFiniteSet(RG) /\ RG \subseteq 1 .. Len(g)
      /\ Cardinality(RG) \in Nat
  BY CountedFinite
<1>5. Flagged(h) = {i + 1 : i \in FG}
  <2>1. ASSUME NEW i \in Flagged(h)
        PROVE  i - 1 \in FG /\ i \in Nat
    BY <1>1, <1>2, <1>3, <2>1 DEF Flagged
  <2>2. ASSUME NEW i \in FG
        PROVE  i + 1 \in Flagged(h)
    <3>1. i \in 1 .. Len(g) /\ g[i].rolledBack
      BY DEF Flagged
    <3>2. i + 1 \in 1 .. Len(h) /\ i + 1 # 1 /\ (i + 1) - 1 = i
      BY <1>1, <1>2, <3>1
    <3>3. h[i + 1] = g[i]
      BY <1>3, <3>2
    <3> QED
      BY <3>1, <3>2, <3>3 DEF Flagged
  <2>3. \A i \in Nat : (i - 1) + 1 = i
    OBVIOUS
  <2> HIDE DEF FG
  <2> QED
    BY <2>1, <2>2, <2>3
<1>6. Rollbacks(h) \ {1} = {i + 1 : i \in RG}
  <2>1. ASSUME NEW i \in Rollbacks(h) \ {1}
        PROVE  i - 1 \in RG /\ i \in Nat
    BY <1>1, <1>2, <1>3, <2>1 DEF Rollbacks
  <2>2. ASSUME NEW i \in RG
        PROVE  i + 1 \in Rollbacks(h) \ {1}
    BY <1>1, <1>2, <1>3, <1>4
  <2>3. \A i \in Nat : (i - 1) + 1 = i
    OBVIOUS
  <2> HIDE DEF RG
  <2> QED
    BY <2>1, <2>2, <2>3
<1> HIDE DEF FG, RG
<1>7. FG \subseteq Nat /\ RG \subseteq Nat
  BY <1>1, <1>4
<1>8. Cardinality(Flagged(h)) = Cardinality(FG)
  BY <1>4, <1>5, <1>7, ShiftedAsMany
<1>9. IsFiniteSet(Rollbacks(h) \ {1}) /\ Cardinality(Rollbacks(h) \ {1}) = Cardinality(RG)
  BY <1>4, <1>6, <1>7, ShiftedAsMany
<1>10. RollbacksTotal(h) = RollbacksTotal(g)
  BY <1>2, <1>8, FlaggedCounts DEF FG
<1>11. CASE act.trigger = "rollback"
  <2>1. Rollbacks(h) = (Rollbacks(h) \ {1}) \cup {1}
    BY <1>3, <1>11
  <2>2. 1 \notin Rollbacks(h) \ {1}
    OBVIOUS
  <2>3. Cardinality((Rollbacks(h) \ {1}) \cup {1}) = Cardinality(Rollbacks(h) \ {1}) + 1
    BY <1>9, <2>2, FS_AddElement
  <2>4. Cardinality(Rollbacks(h)) = Cardinality(RG) + 1
    BY <1>9, <2>1, <2>3
  <2> QED
    BY <1>2, <1>10, <1>11, <2>4 DEF RG
<1>12. CASE act.trigger # "rollback"
  <2>1. Rollbacks(h) = Rollbacks(h) \ {1}
    BY <1>3, <1>12
  <2>2. Cardinality(Rollbacks(h)) = Cardinality(RG)
    BY <1>9, <2>1
  <2> QED
    BY <1>2, <1>4, <1>10, <1>12, <2>2 DEF RG
<1> QED
  BY <1>11, <1>12

(* A decision that is marked as rolled back was not marked before. *)
LEMMA FlagCounts ==
    ASSUME NEW g \in Seq(Actions), NEW pos \in 1 .. Len(g), ~g[pos].rolledBack,
           NEW h, h = FlagRolledBack(g, pos)
    PROVE  /\ h \in Seq(Actions) /\ Len(h) = Len(g)
           /\ RollbacksTotal(h) = RollbacksTotal(g) + 1
           /\ Cardinality(Rollbacks(h)) = Cardinality(Rollbacks(g))
<1>0. Len(g) \in Nat /\ pos \in Nat
  BY LenProperties
<1>1. /\ h \in Seq(Actions) /\ Len(h) = Len(g)
      /\ \A i \in 1 .. Len(g) : /\ h[i].trigger = g[i].trigger
                                /\ h[i].rolledBack <=> (i = pos \/ g[i].rolledBack)
  BY <1>0, FlagProperties
<1>2. Rollbacks(h) = Rollbacks(g)
  BY <1>1 DEF Rollbacks
<1>3. Flagged(h) = Flagged(g) \cup {pos} /\ pos \notin Flagged(g)
  BY <1>1 DEF Flagged
<1>4. Cardinality(Flagged(g) \cup {pos}) = Cardinality(Flagged(g)) + 1
  BY <1>3, CountedFinite, FS_AddElement
<1> QED
  BY <1>1, <1>2, <1>3, <1>4, FlaggedCounts

(* The decision that is still to be judged has not fallen off the log, unless
   the log is full: it takes LogCapacity newer records to push it out. *)
PendingInLog ==
    IsPending => pending.pos <= Len(log) \/ Len(log) = LogCapacity

LEMMA ActionType ==
    ASSUME NEW t \in Triggers
    PROVE  /\ Action(t) \in Actions
           /\ Action(t).trigger = t
           /\ ~Action(t).rolledBack
<1>1. Action(t) \in Actions
  BY DEF Action, Actions
<1>2. Action(t).trigger = t
  BY DEF Action
<1>3. ~Action(t).rolledBack
  BY Zenon DEF Action
<1> QED
  BY <1>1, <1>2, <1>3

(* What _maybe_rollback does to the counters: the rollback it takes, if any,
   marks one decision. *)
LEMMA JudgedCounts ==
    ASSUME IInv, PendingInLog, NEW d \in Sleeps, NEW lat \in Latencies
    PROVE  /\ Len(log) \in Nat /\ Len(LogJudged(d, lat)) \in Nat
           /\ Len(log) <= Len(LogJudged(d, lat))
           /\ PendingJudged(d).pos # 0 =>
                /\ PendingJudged(d).pos = pending.pos /\ IsPending
                /\ LogJudged(d, lat) = log
           /\ Len(LogJudged(d, lat)) < LogCapacity =>
                RollbacksTotal(LogJudged(d, lat)) - RollbacksTotal(log)
                  = Cardinality(Rollbacks(LogJudged(d, lat))) - Cardinality(Rollbacks(log))
<1>1. /\ pending \in Snapshots /\ log \in Seq(Actions) /\ Len(log) <= LogCapacity
      /\ LogOK(log, pending.pos)
  BY DEF IInv, TypeOK
<1>2. pending.pos \in Nat /\ Len(log) \in Nat /\ LogCapacity \in Nat
  BY <1>1, LenProperties, TimingAssumption DEF Snapshots
<1>3. RollbacksTotal(log) \in Nat /\ Cardinality(Rollbacks(log)) \in Nat
  <2>1. Cardinality(Flagged(log)) \in Nat /\ Cardinality(Rollbacks(log)) \in Nat
    BY <1>1, CountedFinite
  <2>2. RollbacksTotal(log) = Cardinality(Flagged(log))
    BY <1>1, FlaggedCounts
  <2> QED
    BY <2>1, <2>2
<1>4. CASE Reverts(d, lat)
  <2>1. IsPending /\ pending.pos # 0 /\ PendingJudged(d) = NoRollback
    BY <1>4 DEF Reverts, Judged, IsPending, PendingJudged
  <2>2. LogJudged(d, lat) = Prepend(Action("rollback"), FlagRolledBack(log, pending.pos))
    BY <1>4 DEF LogJudged
  <2>3. PICK g \in Seq(Actions) : g = log
    BY <1>1
  <2>4. PICK h \in Seq(Actions) :
            h = FlagRolledBack(log, pending.pos) /\ Len(h) = Len(g)
    BY <1>2, <2>3, FlagProperties
  <2>5. PICK act \in Actions : act = Action("rollback") /\ act.trigger = "rollback"
    BY ActionType DEF Triggers
  <2>6. ~act.rolledBack
    BY <2>5, ActionType DEF Triggers
  <2>7. Len(Prepend(act, h)) = Lesser(Len(g) + 1, LogCapacity)
    <3>1. Len(h) <= LogCapacity
      BY <1>1, <2>3, <2>4
    <3>2. Len(Prepend(act, h)) = Lesser(Len(h) + 1, LogCapacity)
      BY <3>1, PrependProperties
    <3> QED
      BY <2>4, <3>2
  <2>8. /\ Len(LogJudged(d, lat)) \in Nat
        /\ Len(log) <= Len(LogJudged(d, lat))
        /\ Len(LogJudged(d, lat)) < LogCapacity => Len(log) + 1 <= LogCapacity /\ Len(log) # LogCapacity
    BY <1>1, <1>2, <2>2, <2>3, <2>4, <2>7, <2>5 DEF Lesser
  <2>9. ASSUME Len(LogJudged(d, lat)) < LogCapacity
        PROVE  RollbacksTotal(LogJudged(d, lat)) - RollbacksTotal(log)
                 = Cardinality(Rollbacks(LogJudged(d, lat))) - Cardinality(Rollbacks(log))
    <3>1. Len(log) + 1 <= LogCapacity /\ pending.pos <= Len(log)
      BY <2>1, <2>8, <2>9 DEF PendingInLog
    <3>2. PICK pos : pos = pending.pos /\ pos \in 1 .. Len(g) /\ ~g[pos].rolledBack
      BY <1>1, <1>2, <2>1, <2>3, <3>1 DEF LogOK, Unjudged
    <3>3. /\ RollbacksTotal(h) = RollbacksTotal(g) + 1
          /\ Cardinality(Rollbacks(h)) = Cardinality(Rollbacks(g))
      BY <2>3, <2>4, <3>2, FlagCounts
    <3>4. PICK k : k = Prepend(act, h)
      OBVIOUS
    <3>5. Len(h) + 1 <= LogCapacity
      BY <2>3, <2>4, <3>1
    <3>6. /\ RollbacksTotal(k) = RollbacksTotal(h)
          /\ Cardinality(Rollbacks(k)) = Cardinality(Rollbacks(h)) + 1
      BY <2>4, <2>5, <2>6, <3>4, <3>5, PrependCounts
    <3>7. LogJudged(d, lat) = k
      BY <2>2, <2>4, <2>5, <3>4
    <3> QED
      BY <1>3, <2>3, <3>3, <3>6, <3>7
  <2> QED
    BY <1>2, <2>1, <2>8, <2>9, NoRollbackType
<1>5. CASE ~Reverts(d, lat)
  <2>1. LogJudged(d, lat) = log
    BY <1>5 DEF LogJudged
  <2>2. PendingJudged(d).pos # 0 => PendingJudged(d).pos = pending.pos /\ IsPending
    <3>1. CASE IsPending /\ ~Judged(d)
      BY <1>1, <3>1 DEF PendingJudged, Snapshots
    <3>2. CASE ~(IsPending /\ ~Judged(d))
      BY <3>2, NoRollbackType DEF PendingJudged
    <3> QED
      BY <3>1, <3>2
  <2>3. RollbacksTotal(log) - RollbacksTotal(log)
          = Cardinality(Rollbacks(log)) - Cardinality(Rollbacks(log))
    BY <1>3
  <2> QED
    BY <1>2, <2>1, <2>2, <2>3
<1> QED
  BY <1>4, <1>5

(* What recording the decision of the tick does to them: nothing, apart from
   the length of the log. *)
LEMMA DecisionCounts ==
    ASSUME NEW g \in Seq(Actions), Len(g) <= LogCapacity, NEW t \in Triggers, t # "rollback",
           NEW h, h = Prepend(Action(t), g)
    PROVE  /\ Len(h) = Lesser(Len(g) + 1, LogCapacity)
           /\ Len(h) < LogCapacity =>
                /\ Len(g) < LogCapacity
                /\ RollbacksTotal(h) = RollbacksTotal(g)
                /\ Cardinality(Rollbacks(h)) = Cardinality(Rollbacks(g))
<1>1. PICK act \in Actions : act = Action(t) /\ act.trigger # "rollback" /\ ~act.rolledBack
  BY ActionType
<1>2. Len(h) = Lesser(Len(g) + 1, LogCapacity)
  BY <1>1, PrependProperties
<1>3. Len(g) \in Nat /\ LogCapacity \in Nat /\ Cardinality(Rollbacks(g)) \in Nat
  BY LenProperties, TimingAssumption, CountedFinite
<1>4. ASSUME Len(h) < LogCapacity
      PROVE  /\ Len(g) < LogCapacity
             /\ RollbacksTotal(h) = RollbacksTotal(g)
             /\ Cardinality(Rollbacks(h)) = Cardinality(Rollbacks(g))
  <2>1. Len(g) + 1 <= LogCapacity
    BY <1>2, <1>3, <1>4 DEF Lesser
  <2>2. /\ RollbacksTotal(h) = RollbacksTotal(g)
        /\ Cardinality(Rollbacks(h))
             = Cardinality(Rollbacks(g)) + (IF act.trigger = "rollback" THEN 1 ELSE 0)
    BY <1>1, <2>1, PrependCounts
  <2> QED
    BY <1>1, <1>3, <2>1, <2>2
<1> QED
  BY <1>2, <1>4

(* The decision counter never goes down.  Until the log is full the rollback
   counter goes up by the rollbacks a tick takes, although it counts flags and not
   rollbacks.  Once the log is full the decision counter stands still, whatever is
   decided. *)
CountersCount ==
    [][/\ DecisionsTotal(log) <= DecisionsTotal(log')
       /\ Len(log') < LogCapacity =>
            RollbacksTotal(log') - RollbacksTotal(log)
              = Cardinality(Rollbacks(log')) - Cardinality(Rollbacks(log))
       /\ Len(log) = LogCapacity => DecisionsTotal(log') = DecisionsTotal(log)]_vars

(* What CountersCount says of one step before the log is full. *)
CountersMove ==
    /\ DecisionsTotal(log) <= DecisionsTotal(log')
    /\ Len(log') < LogCapacity =>
         RollbacksTotal(log') - RollbacksTotal(log)
           = Cardinality(Rollbacks(log')) - Cardinality(Rollbacks(log))

LEMMA StillCounts ==
    ASSUME IInv, UNCHANGED log
    PROVE  CountersMove
<1>1. log \in Seq(Actions) /\ log' = log
  BY DEF IInv, TypeOK
<1>2. Cardinality(Flagged(log)) \in Nat /\ Cardinality(Rollbacks(log)) \in Nat
      /\ RollbacksTotal(log) = Cardinality(Flagged(log)) /\ Len(log) \in Nat
  BY <1>1, CountedFinite, FlaggedCounts, LenProperties
<1>3. RollbacksTotal(log) - RollbacksTotal(log)
        = Cardinality(Rollbacks(log)) - Cardinality(Rollbacks(log))
  BY <1>2
<1>4. Len(log) <= Len(log)
  BY <1>2
<1> QED
  BY <1>1, <1>3, <1>4 DEF CountersMove, DecisionsTotal

LEMMA DecisionMovesCounters ==
    ASSUME IInv, PendingInLog, NEW d \in Sleeps, NEW lat \in Latencies,
           NEW t \in Triggers, t # "rollback",
           log' = Prepend(Action(t), LogJudged(d, lat))
    PROVE  /\ CountersMove
           /\ Len(log') = Lesser(Len(LogJudged(d, lat)) + 1, LogCapacity)
<1>0. PICK h : h = log'
  OBVIOUS
<1>1. PICK g \in Seq(Actions) : g = LogJudged(d, lat) /\ h = log' /\ Len(g) <= LogCapacity
  BY <1>0, JudgedProperties
<1>2. h = Prepend(Action(t), g)
  BY <1>1
<1>3. /\ Len(h) = Lesser(Len(g) + 1, LogCapacity)
      /\ Len(h) < LogCapacity =>
           /\ Len(g) < LogCapacity
           /\ RollbacksTotal(h) = RollbacksTotal(g)
           /\ Cardinality(Rollbacks(h)) = Cardinality(Rollbacks(g))
  BY <1>1, <1>2, DecisionCounts
<1>4. /\ Len(log) \in Nat /\ Len(g) \in Nat /\ Len(log) <= Len(g)
      /\ Len(g) < LogCapacity =>
           RollbacksTotal(g) - RollbacksTotal(log)
             = Cardinality(Rollbacks(g)) - Cardinality(Rollbacks(log))
  BY <1>1, JudgedCounts
<1>5. LogCapacity \in Nat
  BY TimingAssumption
<1>6. Len(log) <= Len(h)
  BY <1>1, <1>3, <1>4, <1>5 DEF Lesser
<1>7. Len(h) < LogCapacity => 
           RollbacksTotal(h) - RollbacksTotal(log)
             = Cardinality(Rollbacks(h)) - Cardinality(Rollbacks(log))
  BY <1>3, <1>4
<1> QED
  BY <1>1, <1>3, <1>6, <1>7 DEF CountersMove, DecisionsTotal

LEMMA NextCounts ==
    ASSUME IInv, PendingInLog, [Next]_vars
    PROVE  CountersMove /\ PendingInLog'
<1>0. LogCapacity \in Nat /\ LogCapacity >= 1
  BY TimingAssumption
<1>1. ASSUME NEW r \in Readings, NEW d \in Sleeps, NEW lat \in Latencies,
             TickCongested(r, d, lat)
      PROVE  CountersMove /\ PendingInLog'
  <2>1. /\ log' = Prepend(Action("congestion_spike"), LogJudged(d, lat))
        /\ pending'.pos = 1
    BY <1>1 DEF TickCongested, Snapshot
  <2>2. CountersMove /\ Len(log') = Lesser(Len(LogJudged(d, lat)) + 1, LogCapacity)
    BY <2>1, DecisionMovesCounters DEF Triggers
  <2>3. Len(LogJudged(d, lat)) \in Nat
    BY JudgedCounts
  <2>4. 1 <= Len(log')
    BY <1>0, <2>2, <2>3 DEF Lesser
  <2> QED
    BY <2>1, <2>2, <2>4 DEF PendingInLog
<1>2. ASSUME NEW r \in Readings, NEW d \in Sleeps, NEW lat \in Latencies,
             TickNormal(r, d, lat)
      PROVE  CountersMove /\ PendingInLog'
  <2>1. /\ log' = Prepend(Action("congestion_clear"), LogJudged(d, lat))
        /\ pending' = Shift(PendingJudged(d))
    BY <1>2 DEF TickNormal
  <2>2. CountersMove /\ Len(log') = Lesser(Len(LogJudged(d, lat)) + 1, LogCapacity)
    BY <2>1, DecisionMovesCounters DEF Triggers
  <2>3. PendingInLog'
    <3>1. CASE PendingJudged(d).pos = 0
      <4>1. pending'.pos = 0
        BY <2>1, <3>1 DEF Shift
      <4> QED
        BY <4>1 DEF PendingInLog, IsPending
    <3>2. CASE PendingJudged(d).pos # 0
      <4>1. /\ LogJudged(d, lat) = log /\ PendingJudged(d).pos = pending.pos
            /\ IsPending /\ Len(log) \in Nat
        BY <3>2, JudgedCounts
      <4>2. PendingJudged(d) \in Snapshots /\ pending \in Snapshots /\ Len(log) <= LogCapacity
        BY JudgedProperties DEF IInv, TypeOK
      <4>3. pending'.pos = pending.pos + 1 /\ pending.pos \in Nat
        BY <2>1, <3>2, <4>1, <4>2 DEF Shift, Snapshots
      <4>4. pending.pos <= Len(log) \/ Len(log) = LogCapacity
        BY <4>1 DEF PendingInLog
      <4>5. Len(log') = Lesser(Len(log) + 1, LogCapacity)
        BY <2>2, <4>1
      <4>6. pending'.pos <= Len(log') \/ Len(log') = LogCapacity
        BY <1>0, <4>1, <4>2, <4>3, <4>4, <4>5 DEF Lesser
      <4> QED
        BY <4>6 DEF PendingInLog
    <3> QED
      BY <3>1, <3>2
  <2> QED
    BY <2>2, <2>3
<1>3. ASSUME NEW r \in Readings, NEW d \in Sleeps, NEW lat \in Latencies,
             TickQuiet(r, d, lat)
      PROVE  CountersMove /\ PendingInLog'
  <2>1. log' = LogJudged(d, lat) /\ pending' = PendingJudged(d)
    BY <1>3 DEF TickQuiet
  <2>2. CountersMove
    BY <2>1, JudgedCounts DEF CountersMove, DecisionsTotal
  <2>3. pending'.pos # 0 => log' = log /\ pending'.pos = pending.pos /\ IsPending
    BY <2>1, JudgedCounts
  <2>4. PendingInLog'
    BY <2>3 DEF PendingInLog, IsPending
  <2> QED
    BY <2>2, <2>4
<1>4. ASSUME UNCHANGED <<pending, log>>
      PROVE  CountersMove /\ PendingInLog'
  <2>1. CountersMove
    BY <1>4, StillCounts
  <2>2. PendingInLog'
    BY <1>4 DEF PendingInLog, IsPending
  <2> QED
    BY <2>1, <2>2
<1>5. CASE \E r \in Readings : Tick(r)
  BY <1>1, <1>2, <1>3, <1>5 DEF Tick
<1>6. CASE \E req \in OverrideRequests : Override(req)
  BY <1>4, <1>6 DEF Override
<1>7. CASE UNCHANGED vars
  BY <1>4, <1>7 DEF vars
<1> QED
  BY <1>5, <1>6, <1>7 DEF Next

(* GET /metrics, for a log of any capacity: the two exported counters count
   until the log of actions is full, and from then on the decision counter
   stands still for good. *)
THEOREM CountersUntilFull == Spec => CountersCount
<1> DEFINE Frozen == Len(log) = LogCapacity => DecisionsTotal(log') = DecisionsTotal(log)
<1>1. Init => PendingInLog
  BY NoRollbackType DEF Init, PendingInLog, IsPending
<1>2. IInv /\ PendingInLog /\ [Next]_vars => CountersMove /\ PendingInLog'
  BY NextCounts
<1>3. IInv /\ IInv' /\ CountersMove => Frozen
  <2> SUFFICES ASSUME IInv, IInv', CountersMove, Len(log) = LogCapacity
               PROVE  Len(log') = Len(log)
    BY DEF DecisionsTotal
  <2>1. Len(log) \in Nat /\ Len(log') \in Nat /\ Len(log') <= LogCapacity
    BY LenProperties DEF IInv, TypeOK
  <2>2. Len(log) <= Len(log')
    BY DEF CountersMove, DecisionsTotal
  <2> QED
    BY <2>1, <2>2
<1>4. Spec => [][CountersMove /\ Frozen]_vars
  BY <1>1, <1>2, <1>3, InitIInv, NextIInv, PTL DEF Spec
<1>5. [][CountersMove /\ Frozen]_vars => CountersCount
  BY PTL DEF CountersCount, CountersMove
<1> QED
  BY <1>4, <1>5, PTL
-----------------------------------------------------------------------------
(* What a congestion decision does under the limits of config.py. *)

(* The link and the limits of config.py, at any resolution.  The startup
   allocation and what operators ask for are left open. *)
StartupLimits ==
    /\ TotalBudget = StartupTotal
    /\ MinBandwidth = StartupMin
    /\ MaxBandwidth = StartupMax

(* x * b \div t is the share of x when b is shared out in proportion to t. *)
LEMMA ShareProperties ==
    ASSUME NEW x \in Nat, NEW b \in Nat, NEW t \in Nat, t > b,
           NEW r, r = (x * b) \div t
    PROVE  r \in Nat /\ r * t <= x * b /\ x * b < (r + 1) * t /\ r <= x
<1>1. PICK y \in Nat : y = x * b
  OBVIOUS
<1>2. r = y \div t
  BY <1>1
<1>3. r \in Nat /\ t * r <= y /\ y < t * r + t
  BY <1>2
<1>4. t * r + t = (r + 1) * t /\ t * r = r * t
  BY <1>3
<1>5. r <= x
  <2>1. SUFFICES ASSUME r >= x + 1
                 PROVE  FALSE
    BY <1>3
  <2>2. t * r >= t * (x + 1)
    BY <1>3, <2>1
  <2>3. t * (x + 1) = x * t + t /\ x * t >= x * b
    OBVIOUS
  <2>4. PICK p \in Int, q \in Int, z \in Int : p = t * r /\ q = t * (x + 1) /\ z = x * t
    BY <1>3
  <2> QED
    BY <1>1, <1>3, <2>2, <2>3, <2>4
<1> QED
  BY <1>1, <1>3, <1>4, <1>5

(* A share that is lifted to a minimum of k Mbit/s was small to begin with. *)
LEMMA LiftedShare ==
    ASSUME NEW m \in Nat \ {0}, NEW x \in Nat, NEW t \in Nat, NEW k \in Nat,
           NEW r \in Nat, x * (100 * m) < (r + 1) * t, r < k * m
    PROVE  100 * x < k * t
<1>1. (r + 1) * t <= (k * m) * t
  BY SMTT(30)
<1>2. x * (100 * m) = m * (100 * x) /\ (k * m) * t = m * (k * t)
  OBVIOUS
<1>3. PICK u \in Int, v \in Int : u = 100 * x /\ v = k * t
  OBVIOUS
<1>4. m * u < m * v
  BY <1>1, <1>2, <1>3
<1>5. u < v
  BY <1>4
<1> QED
  BY <1>3, <1>5

(* What is left for the other slices, in tenths of a Mbit/s, when one of them has
   d of the t units that are asked for. *)
LEMMA RestOfTheLink ==
    ASSUME NEW m \in Nat \ {0}, NEW t \in Nat, t > 0, NEW u \in Nat, NEW y \in Nat,
           NEW d \in Nat, NEW n \in Nat, n <= 1000,
           u * t <= y * (100 * m), y <= t - d, (1000 - n) * t <= 1000 * d
    PROVE  10 * u <= n * m
<1>1. y * (100 * m) <= (t - d) * (100 * m)
  OBVIOUS
<1>2. 10 * ((t - d) * (100 * m)) = 1000 * (m * t) - m * (1000 * d)
  OBVIOUS
<1>3. m * ((1000 - n) * t) <= m * (1000 * d)
  OBVIOUS
<1>4. m * ((1000 - n) * t) = 1000 * (m * t) - (n * m) * t
  OBVIOUS
<1>5. 10 * (u * t) <= (n * m) * t
  <2> DEFINE p1 == u * t
             p2 == y * (100 * m)
             p3 == (t - d) * (100 * m)
             p4 == 1000 * (m * t)
             p5 == m * (1000 * d)
             p6 == m * ((1000 - n) * t)
             p7 == (n * m) * t
  <2>1. /\ p1 \in Int /\ p2 \in Int /\ p3 \in Int /\ p4 \in Int /\ p5 \in Int /\ p6 \in Int
        /\ p7 \in Int
    OBVIOUS
  <2>2. p1 <= p2 /\ p2 <= p3 /\ 10 * p3 = p4 - p5 /\ p6 <= p5 /\ p6 = p4 - p7
    BY <1>1, <1>2, <1>3, <1>4
  <2> HIDE DEF p1, p2, p3, p4, p5, p6, p7
  <2>3. 10 * p1 <= p7
    BY <2>1, <2>2
  <2> QED
    BY <2>3 DEF p1, p7
<1>6. PICK w \in Int, v \in Int : w = n * m /\ v = 10 * u
  OBVIOUS
<1>7. v * t <= w * t
  <2>1. 10 * (u * t) = (10 * u) * t
    OBVIOUS
  <2> QED
    BY <1>5, <1>6, <2>1
<1>8. v <= w
  BY <1>7
<1> QED
  BY <1>6, <1>8

LEMMA StartupNumbers ==
    ASSUME StartupLimits
    PROVE  /\ Mbps \in Nat \ {0} /\ TotalBudget = 100 * Mbps
           /\ MinBandwidth["CRITICAL"] = 30 * Mbps /\ MaxBandwidth["CRITICAL"] = 80 * Mbps
           /\ MinBandwidth["STANDARD"] = 10 * Mbps /\ MaxBandwidth["STANDARD"] = 50 * Mbps
           /\ MinBandwidth["BACKGROUND"] = 5 * Mbps /\ MaxBandwidth["BACKGROUND"] = 20 * Mbps
<1>1. "CRITICAL" \in Slices /\ "STANDARD" \in Slices /\ "BACKGROUND" \in Slices
  BY DEF Slices
<1> QED
  BY <1>1, ResolutionAssumption
  DEF StartupLimits, StartupTotal, StartupMin, StartupMax, PerSlice

(* Scaling down to the budget and clamping leaves three amounts that are within
   the limits at most 1.3 Mbit/s above it: at most one slice is lifted to its
   minimum, and it is never CRITICAL. *)
LEMMA ScaledSum ==
    ASSUME NEW m \in Nat \ {0}, NEW c \in Nat, NEW s \in Nat, NEW g \in Nat,
           30 * m <= c, c <= 80 * m, 10 * m <= s, s <= 50 * m, 5 * m <= g, g <= 20 * m,
           NEW t, t = c + s + g, t > 100 * m,
           NEW u, u = (c * (100 * m)) \div t,
           NEW v, v = (s * (100 * m)) \div t,
           NEW w, w = (g * (100 * m)) \div t
    PROVE  /\ u \in Nat /\ v \in Nat /\ w \in Nat
           /\ u <= c /\ v <= s /\ w <= g
           /\ 10 * (Greater(30 * m, u) + Greater(10 * m, v) + Greater(5 * m, w)) <= 1013 * m
<1>1. t \in Nat /\ t <= 150 * m /\ t > 0
  OBVIOUS
<1>2. PICK b \in Nat : b = 100 * m
  OBVIOUS
<1>3. /\ u \in Nat /\ u * t <= c * b /\ c * b < (u + 1) * t /\ u <= c
      /\ v \in Nat /\ v * t <= s * b /\ s * b < (v + 1) * t /\ v <= s
      /\ w \in Nat /\ w * t <= g * b /\ g * b < (w + 1) * t /\ w <= g
  <2>1. t > b /\ u = (c * b) \div t /\ v = (s * b) \div t /\ w = (g * b) \div t
    BY <1>2
  <2> QED
    BY <1>1, <2>1, ShareProperties
<1>4. PICK k3 \in Nat, k1 \in Nat, k5 \in Nat : k3 = 30 /\ k1 = 10 /\ k5 = 5
  OBVIOUS
<1>5. /\ u < k3 * m => 100 * c < k3 * t
      /\ v < k1 * m => 100 * s < k1 * t
      /\ w < k5 * m => 100 * g < k5 * t
  BY <1>1, <1>2, <1>3, LiftedShare
<1>6. u >= 30 * m
  <2>1. SUFFICES ASSUME u < 30 * m
                 PROVE  FALSE
    BY <1>3
  <2>2. 100 * c < 30 * t
    BY <1>4, <1>5, <2>1
  <2> QED
    BY <1>1, <2>2
<1>7. ~(v < 10 * m /\ w < 5 * m)
  <2>1. SUFFICES ASSUME v < 10 * m, w < 5 * m
                 PROVE  FALSE
    OBVIOUS
  <2>2. 100 * s < 10 * t /\ 100 * g < 5 * t
    BY <1>4, <1>5, <2>1
  <2> QED
    BY <1>1, <2>2
<1>8. (u + v) * t <= (c + s) * b /\ (u + w) * t <= (c + g) * b /\ (u + v + w) * t <= t * b
  <2>1. PICK p1 \in Int, p2 \in Int, p3 \in Int, q1 \in Int, q2 \in Int, q3 \in Int :
            /\ p1 = u * t /\ p2 = v * t /\ p3 = w * t
            /\ q1 = c * b /\ q2 = s * b /\ q3 = g * b
    BY <1>1, <1>3
  <2>2. /\ (u + v) * t = p1 + p2 /\ (u + w) * t = p1 + p3 /\ (u + v + w) * t = p1 + p2 + p3
    BY <1>1, <1>3, <2>1
  <2>3. /\ (c + s) * b = q1 + q2 /\ (c + g) * b = q1 + q3 /\ t * b = q1 + q2 + q3
    BY <2>1
  <2> QED
    BY <1>3, <2>1, <2>2, <2>3
<1>9. CASE w < 5 * m
  <2>1. PICK n \in Nat : n = 963
    OBVIOUS
  <2>2. /\ (u + v) * t <= (c + s) * (100 * m) /\ c + s <= t - g
        /\ (1000 - n) * t <= 1000 * g /\ n <= 1000 /\ u + v \in Nat /\ c + s \in Nat
    BY <1>1, <1>2, <1>3, <1>8, <2>1
  <2>3. 10 * (u + v) <= n * m
    BY <1>1, <2>2, RestOfTheLink
  <2>4. v >= 10 * m
    BY <1>3, <1>7, <1>9
  <2> QED
    BY <1>3, <1>6, <1>9, <2>1, <2>3, <2>4 DEF Greater
<1>10. CASE v < 10 * m
  <2>1. PICK n \in Nat : n = 910
    OBVIOUS
  <2>2. 100 * s < 10 * t
    BY <1>4, <1>5, <1>10
  <2>3. /\ (u + w) * t <= (c + g) * (100 * m) /\ c + g <= t - s
        /\ (1000 - n) * t <= 1000 * s /\ n <= 1000 /\ u + w \in Nat /\ c + g \in Nat
    BY <1>1, <1>2, <1>3, <1>8, <2>1, <2>2
  <2>4. 10 * (u + w) <= n * m
    BY <1>1, <2>3, RestOfTheLink
  <2>5. w >= 5 * m
    BY <1>3, <1>7, <1>10
  <2> QED
    BY <1>3, <1>6, <1>10, <2>1, <2>4, <2>5 DEF Greater
<1>11. CASE v >= 10 * m /\ w >= 5 * m
  <2>1. PICK z \in Nat : z = u + v + w
    <3>1. u \in Nat /\ v \in Nat /\ w \in Nat
      BY <1>3
    <3>2. u + v + w \in Nat
      BY <3>1
    <3> QED
      BY <3>2, Zenon
  <2>2. t * z <= t * b
    <3>1. z * t = t * z
      BY <1>1
    <3>2. z * t <= t * b
      BY <1>8, <2>1, Zenon
    <3> QED
      BY <3>1, <3>2, Zenon
  <2>3. z <= b
    BY <1>1, <2>2
  <2> QED
    BY <1>2, <1>3, <1>6, <1>11, <2>1, <2>3 DEF Greater
<1> QED
  BY <1>3, <1>9, <1>10, <1>11

(* The shift towards CRITICAL stays within the limits. *)
LEMMA ShiftedNumbers ==
    ASSUME StartupLimits, NEW a \in [Slices -> Nat], WithinLimits(a)
    PROVE  LET m == Mbps
               c == a["CRITICAL"]
               s == a["STANDARD"]
               g == a["BACKGROUND"]
               b == Shifted(a)
           IN  /\ c \in Nat /\ 30 * m <= c /\ c <= 80 * m
               /\ s \in Nat /\ 10 * m <= s /\ s <= 50 * m
               /\ g \in Nat /\ 5 * m <= g /\ g <= 20 * m
               /\ b \in [Slices -> Nat] /\ WithinLimits(b)
               /\ c <= b["CRITICAL"] /\ b["BACKGROUND"] <= g
               /\ b["STANDARD"] + b["BACKGROUND"] > 20 * m
                    => (s + g) - (b["STANDARD"] + b["BACKGROUND"]) >= m
<1> DEFINE c == a["CRITICAL"]
           s == a["STANDARD"]
           g == a["BACKGROUND"]
<1>1. PICK m \in Nat \ {0} : m = Mbps
  BY StartupNumbers
<1>2. /\ c \in Nat /\ 30 * m <= c /\ c <= 80 * m
      /\ s \in Nat /\ 10 * m <= s /\ s <= 50 * m
      /\ g \in Nat /\ 5 * m <= g /\ g <= 20 * m
  BY <1>1, StartupNumbers DEF WithinLimits, Slices
<1> HIDE DEF c, s, g
<1>3. PICK t : t = Transfer(a)
  OBVIOUS
<1>4. t = Lesser(10 * m, g - 5 * m) + Lesser(5 * m, s - 10 * m)
  BY <1>1, <1>3, StartupNumbers DEF Transfer, Headroom, s, g
<1>5. /\ t \in Nat
      /\ s + g > 20 * m => t >= 5 * m
  BY <1>2, <1>4 DEF Lesser
<1>6. PICK p \in Nat, q \in Nat, r \in Nat :
          p = Percent(70, t) /\ q = Percent(30, t) /\ r = Percent(40, t)
  BY <1>5 DEF Percent
<1>7. t >= 5 * m => q >= m /\ r >= m
  BY <1>5, <1>6 DEF Percent
<1>8. PICK x, y, z : /\ x = Lesser(80 * m, c + p) /\ y = Greater(10 * m, s - q)
                     /\ z = Greater(5 * m, g - r)
  OBVIOUS
<1>9. /\ x \in Nat /\ 30 * m <= x /\ x <= 80 * m /\ c <= x
      /\ y \in Nat /\ 10 * m <= y /\ y <= 50 * m /\ y <= s
      /\ z \in Nat /\ 5 * m <= z /\ z <= 20 * m /\ z <= g
      /\ y + z > 20 * m => (s + g) - (y + z) >= m
  BY <1>2, <1>5, <1>6, <1>7, <1>8 DEF Lesser, Greater
<1>10. PICK b : b = Shifted(a)
  OBVIOUS
<1>11. /\ b["CRITICAL"] = x /\ b["STANDARD"] = y /\ b["BACKGROUND"] = z
       /\ b = [i \in Slices |-> b[i]]
  BY <1>1, <1>3, <1>6, <1>8, <1>10, StartupNumbers DEF Shifted, Slices, c, s, g
<1>12. b \in [Slices -> Nat]
  BY <1>9, <1>11 DEF Slices
<1>13. WithinLimits(b)
  BY <1>1, <1>9, <1>11, StartupNumbers DEF WithinLimits, Slices
<1> QED
  BY <1>1, <1>2, <1>9, <1>10, <1>11, <1>12, <1>13 DEF c, s, g

(* One congestion decision, from any allocation within the limits. *)
LEMMA CongestionArithmetic ==
    ASSUME StartupLimits, NEW a \in [Slices -> Nat], WithinLimits(a),
           NEW h, h = Adjusted(a, CongestedTarget(a))
    PROVE  /\ 10 * (Total(h) - TotalBudget) <= 13 * Mbps
           /\ Total(a) <= TotalBudget + Mbps => a["CRITICAL"] <= h["CRITICAL"]
           /\ h["BACKGROUND"] <= a["BACKGROUND"]
<1>1. PICK m \in Nat \ {0} : m = Mbps /\ TotalBudget = 100 * m
  BY StartupNumbers
<1>2. PICK c \in Nat, s \in Nat, g \in Nat :
          /\ c = a["CRITICAL"] /\ s = a["STANDARD"] /\ g = a["BACKGROUND"]
          /\ 30 * m <= c /\ c <= 80 * m /\ 10 * m <= s /\ s <= 50 * m
          /\ 5 * m <= g /\ g <= 20 * m
  BY <1>1, ShiftedNumbers
<1>3. PICK b \in [Slices -> Nat] :
          /\ b = Shifted(a) /\ WithinLimits(b)
          /\ c <= b["CRITICAL"] /\ b["BACKGROUND"] <= g
          /\ b["STANDARD"] + b["BACKGROUND"] > 20 * m
               => (s + g) - (b["STANDARD"] + b["BACKGROUND"]) >= m
  BY <1>1, <1>2, ShiftedNumbers
<1>4. PICK x \in Nat, y \in Nat, z \in Nat :
          /\ x = b["CRITICAL"] /\ y = b["STANDARD"] /\ z = b["BACKGROUND"]
          /\ 30 * m <= x /\ x <= 80 * m /\ 10 * m <= y /\ y <= 50 * m
          /\ 5 * m <= z /\ z <= 20 * m
  BY <1>1, <1>3, StartupNumbers DEF WithinLimits, Slices
<1>5. c <= x /\ z <= g /\ (y + z > 20 * m => (s + g) - (y + z) >= m)
  BY <1>3, <1>4
<1>6. PICK t \in Nat : t = x + y + z /\ t = Total(b)
  BY <1>4 DEF Total
<1>7. h = Adjusted(a, Normalized(b))
  BY <1>3 DEF CongestedTarget
<1>8. CASE ~(t > 100 * m)
  <2>1. Normalized(b) = b
    BY <1>1, <1>6, <1>8 DEF Normalized
  <2>2. h = b
    BY <1>3, <1>7, <2>1, AdjustedRestores
  <2> QED
    BY <1>1, <1>2, <1>4, <1>5, <1>6, <1>8, <2>2
<1>9. CASE t > 100 * m
  <2>1. PICK u, v, w : /\ u = (x * (100 * m)) \div t /\ v = (y * (100 * m)) \div t
                       /\ w = (z * (100 * m)) \div t
    OBVIOUS
  <2>2. Normalized(b) = [i \in Slices |-> (b[i] * TotalBudget) \div Total(b)]
    BY <1>1, <1>6, <1>9 DEF Normalized
  <2>3. PICK n : n = Normalized(b)
    OBVIOUS
  <2>4. n["CRITICAL"] = u /\ n["STANDARD"] = v /\ n["BACKGROUND"] = w /\ DOMAIN n = Slices
    BY <1>1, <1>4, <1>6, <2>1, <2>2, <2>3 DEF Slices
  <2>5. /\ u \in Nat /\ v \in Nat /\ w \in Nat /\ u <= x /\ v <= y /\ w <= z
        /\ 10 * (Greater(30 * m, u) + Greater(10 * m, v) + Greater(5 * m, w)) <= 1013 * m
    BY <1>4, <1>6, <1>9, <2>1, ScaledSum
  <2>6. /\ h["CRITICAL"] = Greater(30 * m, Lesser(80 * m, u))
        /\ h["STANDARD"] = Greater(10 * m, Lesser(50 * m, v))
        /\ h["BACKGROUND"] = Greater(5 * m, Lesser(20 * m, w))
    <3>1. \A i \in Slices : h[i] = Clamp(i, n[i])
      BY <1>7, <2>3, <2>4 DEF Adjusted
    <3> QED
      BY <1>1, <2>4, <3>1, StartupNumbers DEF Clamp, Slices
  <2>7. /\ h["CRITICAL"] = Greater(30 * m, u) /\ h["STANDARD"] = Greater(10 * m, v)
        /\ h["BACKGROUND"] = Greater(5 * m, w)
    BY <1>4, <2>5, <2>6 DEF Lesser
  <2>8. 10 * (Total(h) - TotalBudget) <= 13 * Mbps
    BY <1>1, <2>5, <2>7 DEF Total, Greater
  <2>9. h["BACKGROUND"] <= a["BACKGROUND"]
    BY <1>2, <1>5, <2>5, <2>7 DEF Greater
  <2>10. ASSUME Total(a) <= TotalBudget + Mbps
         PROVE  a["CRITICAL"] <= h["CRITICAL"]
    <3>1. c + s + g <= 101 * m
      BY <1>1, <1>2, <2>10 DEF Total
    <3>2. t <= (x - c) + 100 * m
      BY <1>4, <1>5, <1>6, <1>9, <3>1
    <3>3. c * t <= x * (100 * m)
      <4>1. PICK e \in Nat : e = x - c
        BY <1>5
      <4>2. c * t <= c * (e + 100 * m)
        BY <3>2, <4>1
      <4>3. c * e <= (100 * m) * e
        BY <1>2, <4>1
      <4>4. c * (e + 100 * m) = c * e + c * (100 * m)
        OBVIOUS
      <4>5. x * (100 * m) = c * (100 * m) + (100 * m) * e
        BY <4>1
      <4> DEFINE p1 == c * t
                 p2 == c * (e + 100 * m)
                 p3 == c * e
                 p4 == (100 * m) * e
                 p5 == c * (100 * m)
                 p6 == x * (100 * m)
      <4>6. /\ p1 \in Int /\ p2 \in Int /\ p3 \in Int /\ p4 \in Int /\ p5 \in Int /\ p6 \in Int
        OBVIOUS
      <4>7. p1 <= p2 /\ p3 <= p4 /\ p2 = p3 + p5 /\ p6 = p5 + p4
        BY <4>2, <4>3, <4>4, <4>5
      <4> HIDE DEF p1, p2, p3, p4, p5, p6
      <4>8. p1 <= p6
        BY <4>6, <4>7
      <4> QED
        BY <4>8 DEF p1, p6
    <3>4. c <= u
      <4>1. t > 0
        BY <1>9
      <4>2. PICK y6 \in Nat, y1 \in Nat : y6 = x * (100 * m) /\ y1 = c * t /\ y1 <= y6
        BY <3>3
      <4>3. u = y6 \div t
        BY <2>1, <4>2
      <4>4. y6 < t * u + t
        BY <2>5, <4>1, <4>3
      <4>5. SUFFICES ASSUME u + 1 <= c
                     PROVE  FALSE
        BY <2>5
      <4>6. t * (u + 1) <= t * c
        BY <2>5, <4>5
      <4>7. t * (u + 1) = t * u + t /\ t * c = c * t
        BY <2>5
      <4> QED
        BY <2>5, <4>2, <4>4, <4>6, <4>7
    <3> QED
      BY <1>2, <2>5, <2>7, <3>4 DEF Greater
  <2> QED
    BY <2>8, <2>9, <2>10
<1> QED
  BY <1>8, <1>9

(* A step that took a congestion decision is a tick that ends in
   _act_congested, and what it left behind is what it started from. *)
LEMMA SpikeIsCongestion ==
    ASSUME IInv, [Next]_vars, SpikeTaken
    PROVE  /\ pending'.alloc \in [Slices -> Nat]
           /\ WithinLimits(pending'.alloc)
           /\ alloc' = Adjusted(pending'.alloc, CongestedTarget(pending'.alloc))
<1>1. ASSUME NEW r \in Readings, NEW d \in Sleeps, NEW lat \in Latencies,
             TickCongested(r, d, lat)
      PROVE  /\ pending'.alloc \in [Slices -> Nat]
             /\ WithinLimits(pending'.alloc)
             /\ alloc' = Adjusted(pending'.alloc, CongestedTarget(pending'.alloc))
  <2>1. PICK a : a = AllocJudged(d, lat)
    OBVIOUS
  <2>2. a \in [Slices -> Nat] /\ WithinLimits(a)
    BY <2>1, JudgedProperties
  <2>3. alloc' = Adjusted(a, CongestedTarget(a)) /\ pending' = Snapshot(a, lat)
    BY <1>1, <2>1 DEF TickCongested
  <2>4. pending'.alloc = a
    BY <2>3 DEF Snapshot
  <2> QED
    BY <2>2, <2>3, <2>4
<1>2. ASSUME NEW r \in Readings, NEW d \in Sleeps, NEW lat \in Latencies,
             TickNormal(r, d, lat)
      PROVE  FALSE
  <2>1. PICK g \in Seq(Actions) : g = LogJudged(d, lat) /\ Len(g) <= LogCapacity
    BY JudgedProperties
  <2>2. PICK act \in Actions : act = Action("congestion_clear") /\ act.trigger = "congestion_clear"
    BY ActionType DEF Triggers
  <2>3. log' = Prepend(act, g)
    BY <1>2, <2>1, <2>2 DEF TickNormal
  <2>4. Prepend(act, g)[1] = act
    BY <2>1, PrependProperties
  <2>5. log'[1].trigger = "congestion_spike"
    BY DEF SpikeTaken, Spikes
  <2> QED
    BY <2>2, <2>3, <2>4, <2>5
<1>3. ASSUME NEW r \in Readings, NEW d \in Sleeps, NEW lat \in Latencies,
             TickQuiet(r, d, lat)
      PROVE  FALSE
  <2>1. age \in 0 .. Cooldown /\ Cooldown \in Nat \ {0} /\ d \in Nat /\ d >= 1
    BY TimingAssumption DEF IInv, TypeOK, Sleeps
  <2>2. age' = Lesser(Cooldown, age + d)
    BY <1>3 DEF TickQuiet
  <2> QED
    BY <2>1, <2>2 DEF Lesser, SpikeTaken
<1>4. ASSUME UNCHANGED <<high, low, age, pending, log>>
      PROVE  FALSE
  BY <1>4 DEF SpikeTaken
<1>5. CASE \E r \in Readings : Tick(r)
  BY <1>1, <1>2, <1>3, <1>5 DEF Tick
<1>6. CASE \E req \in OverrideRequests : Override(req)
  BY <1>4, <1>6 DEF Override
<1>7. CASE UNCHANGED vars
  BY <1>4, <1>7 DEF vars
<1> QED
  BY <1>5, <1>6, <1>7 DEF Next

BudgetKept == SpikeTaken => 10 * (Total(alloc') - TotalBudget) <= 13 * Mbps

CriticalFavoured ==
    SpikeTaken /\ Total(pending'.alloc) <= TotalBudget + Mbps =>
      /\ pending'.alloc["CRITICAL"] <= alloc'["CRITICAL"]
      /\ alloc'["BACKGROUND"] <= pending'.alloc["BACKGROUND"]

LEMMA SpikeArithmetic ==
    ASSUME StartupLimits, IInv, [Next]_vars
    PROVE  BudgetKept /\ CriticalFavoured
<1>1. ASSUME SpikeTaken
      PROVE  /\ 10 * (Total(alloc') - TotalBudget) <= 13 * Mbps
             /\ Total(pending'.alloc) <= TotalBudget + Mbps
                  => pending'.alloc["CRITICAL"] <= alloc'["CRITICAL"]
             /\ alloc'["BACKGROUND"] <= pending'.alloc["BACKGROUND"]
  <2>0. PICK h : h = alloc'
    OBVIOUS
  <2>1. PICK a \in [Slices -> Nat] :
            /\ a = pending'.alloc /\ h = alloc'
            /\ WithinLimits(a) /\ h = Adjusted(a, CongestedTarget(a))
    BY <1>1, <2>0, SpikeIsCongestion
  <2>2. /\ 10 * (Total(h) - TotalBudget) <= 13 * Mbps
        /\ Total(a) <= TotalBudget + Mbps => a["CRITICAL"] <= h["CRITICAL"]
        /\ h["BACKGROUND"] <= a["BACKGROUND"]
    BY <2>1, CongestionArithmetic
  <2> QED
    BY <2>1, <2>2
<1> QED
  BY <1>1 DEF BudgetKept, CriticalFavoured

(* _act_congested with the limits of config.py, at any resolution, from
   whatever startup allocation and whatever operators asked for: afterwards the
   slices share at most 1.3 Mbit/s more than the link has. *)
THEOREM CongestionWithinBudget ==
    ASSUME StartupLimits
    PROVE  Spec => CongestionKeepsBudget
<1>1. IInv /\ [Next]_vars => BudgetKept
  BY SpikeArithmetic
<1>2. Spec => [][BudgetKept]_vars
  BY <1>1, InitIInv, NextIInv, PTL DEF Spec
<1>3. [][BudgetKept]_vars => CongestionKeepsBudget
  BY PTL DEF CongestionKeepsBudget, BudgetKept
<1> QED
  BY <1>2, <1>3, PTL

(* And from a total of at most one Mbit/s above the link, CRITICAL does not
   lose and BACKGROUND does not gain, the scaling notwithstanding. *)
THEOREM CongestionHelpsCritical ==
    ASSUME StartupLimits
    PROVE  Spec => CongestionFavoursCritical
<1>1. IInv /\ [Next]_vars => CriticalFavoured
  BY SpikeArithmetic
<1>2. Spec => [][CriticalFavoured]_vars
  BY <1>1, InitIInv, NextIInv, PTL DEF Spec
<1>3. [][CriticalFavoured]_vars => CongestionFavoursCritical
  BY PTL DEF CongestionFavoursCritical, CriticalFavoured
<1> QED
  BY <1>2, <1>3, PTL
-----------------------------------------------------------------------------
(* What a clear decision does, for any limits and any budget: the part of
   Rebalances that needs no fairness. *)

(* b lies between a and home, and at most half as far from home as a does, up
   to the unit that rounding leaves below home. *)
Halfway(a, b, home) ==
    /\ a <= home => a <= b /\ b <= home /\ 2 * (home - b) <= home - a + 1
    /\ home <= a => home <= b /\ b <= a /\ 2 * (b - home) <= a - home

ClearApproaches ==
    \A r \in Readings, d \in Sleeps, lat \in Latencies :
        TickNormal(r, d, lat) =>
            \A s \in Slices :
                Halfway(AllocJudged(d, lat)[s], alloc'[s], InitialBandwidth[s])

ClearsBringHome == [][ClearApproaches]_vars

(* Clamping never stands in the way home: the startup value and where the
   slice is are both within its limits. *)
LEMMA HalfwayHome ==
    ASSUME NEW a \in [Slices -> Nat], WithinLimits(a), NEW s \in Slices
    PROVE  Halfway(a[s], Adjusted(a, NormalTarget(a))[s], InitialBandwidth[s])
<1>1. PICK x \in Int, home \in Int, lo \in Int, hi \in Int :
          /\ x = a[s] /\ home = InitialBandwidth[s]
          /\ lo = MinBandwidth[s] /\ hi = MaxBandwidth[s]
  BY LimitsAssumption
<1>2. lo <= x /\ x <= hi /\ lo <= home /\ home <= hi
  BY <1>1, LimitsAssumption DEF WithinLimits
<1>3. NormalTarget(a)[s] = x + ((home - x) \div 2) /\ s \in DOMAIN NormalTarget(a)
  BY <1>1 DEF NormalTarget
<1>4. PICK t \in Int : t = x + ((home - x) \div 2)
  OBVIOUS
<1>5. home - x - 1 <= 2 * (t - x) /\ 2 * (t - x) <= home - x
  BY <1>4
<1>6. lo <= t /\ t <= hi
  BY <1>2, <1>5
<1>7. Clamp(s, t) = t
  BY <1>1, <1>6 DEF Clamp, Greater, Lesser
<1>8. Adjusted(a, NormalTarget(a))[s] = t
  BY <1>3, <1>4, <1>7 DEF Adjusted
<1>9. Halfway(x, t, home)
  BY <1>5 DEF Halfway
<1> QED
  BY <1>1, <1>8, <1>9

LEMMA NextApproaches ==
    ASSUME IInv
    PROVE  ClearApproaches
<1> SUFFICES ASSUME NEW r \in Readings, NEW d \in Sleeps, NEW lat \in Latencies,
                    TickNormal(r, d, lat), NEW s \in Slices
             PROVE  Halfway(AllocJudged(d, lat)[s], alloc'[s], InitialBandwidth[s])
  BY DEF ClearApproaches
<1>1. PICK a : a = AllocJudged(d, lat)
  OBVIOUS
<1>2. a \in [Slices -> Nat] /\ WithinLimits(a)
  BY <1>1, JudgedProperties
<1>3. alloc' = Adjusted(a, NormalTarget(a))
  BY <1>1 DEF TickNormal
<1> QED
  BY <1>1, <1>2, <1>3, HalfwayHome

(* _act_normal: a clear decision takes every slice half of its way back to the
   startup value, from whatever overrides, congestion decisions and rollbacks
   left behind, and never past it or away from it. *)
THEOREM ClearDecisionsBringHome == Spec => ClearsBringHome
<1>1. IInv => ClearApproaches
  BY NextApproaches
<1> QED
  BY <1>1, InitIInv, NextIInv, PTL DEF Spec, ClearsBringHome

-----------------------------------------------------------------------------
(* ScoredEngine: whatever scores the model comes up with and however the
   adaptive threshold moves, the engine that reads them is the engine of
   DecisionEngine, so what is proved there holds of it. *)

LEMMA ReadingType == \A score, t : ReadingOf(score, t) \in Readings
  BY DEF ReadingOf, Readings

LEMMA ScoredStepIsStep == [SNext]_svars => [Next]_vars
<1> SUFFICES ASSUME [SNext]_svars
             PROVE  [Next]_vars
  OBVIOUS
<1>1. CASE \E score \in Scores : ScoredTick(score)
  <2>1. PICK score \in Scores : ScoredTick(score)
    BY <1>1
  <2>2. PICK r \in Readings : r = ReadingOf(score, threshold')
    BY ReadingType
  <2>3. Tick(r)
    BY <2>1, <2>2 DEF ScoredTick
  <2> QED
    BY <2>3 DEF Next
<1>2. CASE \E req \in OverrideRequests : ScoredOverride(req)
  BY <1>2 DEF ScoredOverride, Next
<1>3. CASE UNCHANGED svars
  BY <1>3 DEF svars
<1> QED
  BY <1>1, <1>2, <1>3 DEF SNext

(* Every step of the loop that updates the threshold before it compares is a
   step DecisionEngine allows for some reading. *)
THEOREM ScoredEngineIsEngine == SSpec => Init /\ [][Next]_vars
<1>1. SInit => Init
  BY DEF SInit
<1> QED
  BY <1>1, ScoredStepIsStep, PTL DEF SSpec

(* So the invariant of the engine holds under the adaptive threshold. *)
THEOREM ScoredInvariance == SSpec => []IInv
  BY ScoredEngineIsEngine, InitIInv, NextIInv, PTL

(* However the threshold moves, neither a decision nor a rollback takes a slice
   outside its limits. *)
THEOREM ScoredNoStarvation == SSpec => []AllocWithinLimits
<1>1. IInv => AllocWithinLimits
  BY DEF IInv
<1> QED
  BY <1>1, ScoredInvariance, PTL

(* However the threshold moves, what may be rolled back is the latest spike,
   and the flags of the history match the rollbacks that were made. *)
THEOREM ScoredRollbacks == SSpec => [](PendingIsLatestSpike /\ RollbacksMatchSpikes)
<1>1. IInv => PendingIsLatestSpike /\ RollbacksMatchSpikes
  BY DEF IInv, LogOK, PendingIsLatestSpike, IsPending, RollbacksMatchSpikes
<1> QED
  BY <1>1, ScoredInvariance, PTL

-----------------------------------------------------------------------------
(* The adaptive threshold: where it stays.  The variance of scores is neither
   negative nor more than the square of the highest score. *)

LEMMA SquaresType ==
    ASSUME NEW s \in Seq(0 .. One)
    PROVE  /\ s \in Seq(Int) /\ Squares(s) \in Seq(Int)
           /\ Len(Squares(s)) = Len(s) /\ Len(s) \in Nat
           /\ \A i \in 1 .. Len(s) : /\ s[i] \in Int /\ 0 <= s[i] /\ s[i] <= One
                                     /\ Squares(s)[i] = s[i] * s[i]
                                     /\ 0 <= Squares(s)[i] /\ Squares(s)[i] <= One * One
<1>1. Len(s) \in Nat /\ DOMAIN s = 1 .. Len(s)
  BY LenProperties
<1>2. ASSUME NEW i \in 1 .. Len(s)
      PROVE  s[i] \in Int /\ 0 <= s[i] /\ s[i] <= 200
  <2>1. s[i] \in 0 .. One
    BY ElementOfSeq
  <2>2. \A x \in 0 .. One : x \in Int /\ 0 <= x /\ x <= 200
    BY DEF One
  <2> QED
    BY <2>1, <2>2
<1>3. Squares(s) = [i \in 1 .. Len(s) |-> s[i] * s[i]]
  BY <1>1 DEF Squares
<1>4. \A i \in 1 .. Len(s) : s[i] * s[i] \in Int /\ 0 <= s[i] * s[i]
                               /\ s[i] * s[i] <= 40000
  <2>1. \A x \in Int : 0 <= x /\ x <= 200 => 0 <= x * x /\ x * x <= 40000
    OBVIOUS
  <2> QED
    BY <1>2, <2>1
<1>5. Squares(s) \in [1 .. Len(s) -> Int]
  BY <1>3, <1>4
<1>6. Squares(s) \in Seq(Int) /\ Len(Squares(s)) = Len(s)
  BY <1>1, <1>5
<1>7. s \in Seq(Int)
  <2>1. 0 .. One \subseteq Int
    BY DEF One
  <2> QED
    BY <2>1, SeqMonotonic
<1> QED
  BY <1>1, <1>2, <1>3, <1>4, <1>6, <1>7 DEF One

LEMMA ScoreTotals ==
    ASSUME NEW s \in Seq(0 .. One)
    PROVE  \A i \in 0 .. Len(s) :
             /\ Totals(s)[i] \in Nat
             /\ Totals(Squares(s))[i] \in Nat
             /\ Totals(Squares(s))[i] <= 40000 * i
<1>1. PICK b \in Nat, c \in Nat : b = 200 /\ c = 40000
  OBVIOUS
<1>2. s \in Seq(Int) /\ \A i \in 1 .. Len(s) : 0 <= s[i] /\ s[i] <= b
  BY <1>1, SquaresType DEF One
<1>3. \A i \in 0 .. Len(s) : Totals(s)[i] \in Nat
  BY <1>2, SumBounded
<1>4. PICK t \in Seq(Int) : t = Squares(s)
  BY SquaresType
<1>5. Len(t) = Len(s) /\ \A i \in 1 .. Len(t) : 0 <= t[i] /\ t[i] <= c
  BY <1>1, <1>4, SquaresType DEF One
<1>6. \A i \in 0 .. Len(t) : Totals(t)[i] \in Nat /\ Totals(t)[i] <= c * i
  BY <1>5, SumBounded
<1> QED
  BY <1>1, <1>3, <1>4, <1>5, <1>6

(* The squared distances of the first i scores from x add up to this. *)
LEMMA DistancesNatural ==
    ASSUME NEW s \in Seq(0 .. One), NEW x \in Int
    PROVE  \A i \in 0 .. Len(s) :
             Totals(Squares(s))[i] - 2 * x * Totals(s)[i] + i * x * x >= 0
<1> DEFINE f == Totals(s)
           q == Totals(Squares(s))
           D(i) == q[i] - 2 * x * f[i] + i * x * x
           T == {i \in Nat : i <= Len(s) /\ ~(D(i) >= 0)}
<1>0. /\ f[0] = 0 /\ q[0] = 0 /\ Len(s) \in Nat
      /\ \A i \in 1 .. Len(s) : /\ f[i] = f[i - 1] + s[i]
                                /\ q[i] = q[i - 1] + s[i] * s[i]
                                /\ s[i] \in Int
  BY SquaresType, TotalsSteps
<1>1. \A i \in 0 .. Len(s) : f[i] \in Int /\ q[i] \in Int
  BY ScoreTotals
<1> HIDE DEF f, q
<1>2. ASSUME T # {}
      PROVE  FALSE
  <2>0. T \subseteq Nat
    OBVIOUS
  <2>1. PICK m \in T : \A k \in T : m <= k
    <3> HIDE DEF T
    <3> QED
      BY <1>2, <2>0, LeastNumber
  <2>2. m # 0
    <3>1. D(0) = 0
      BY <1>0
    <3> QED
      BY <3>1
  <2>3. m - 1 \in Nat /\ m - 1 \notin T /\ m \in 1 .. Len(s)
    <3>1. m \in Nat /\ m <= Len(s)
      OBVIOUS
    <3> HIDE DEF T
    <3> QED
      BY <1>0, <2>1, <2>2, <3>1
  <2>4. D(m - 1) >= 0
    BY <1>0, <2>3
  <2>5. PICK a \in Int, b \in Int, v \in Int : a = q[m - 1] /\ b = f[m - 1] /\ v = s[m]
    <3>1. m - 1 \in 0 .. Len(s)
      BY <1>0, <2>3
    <3>2. q[m - 1] \in Int /\ f[m - 1] \in Int /\ s[m] \in Int
      BY <1>0, <1>1, <2>3, <3>1
    <3> QED
      BY <3>2
  <2>6. q[m] = a + v * v /\ f[m] = b + v
    BY <1>0, <2>3, <2>5
  <2>7. (a + v * v) - 2 * x * (b + v) + m * x * x
          = (a - 2 * x * b + (m - 1) * x * x) + (v - x) * (v - x)
    BY <2>3
  <2>8. (v - x) * (v - x) >= 0
    OBVIOUS
  <2>9. a - 2 * x * b + (m - 1) * x * x >= 0
    BY <2>4, <2>5
  <2>10. (a + v * v) - 2 * x * (b + v) + m * x * x >= 0
    <3> DEFINE y == a - 2 * x * b + (m - 1) * x * x
               z == (v - x) * (v - x)
    <3>1. y \in Int /\ z \in Int /\ y >= 0 /\ z >= 0
      BY <2>3, <2>8, <2>9
    <3> HIDE DEF y, z
    <3>2. y + z >= 0
      BY <3>1
    <3> QED
      BY <2>7, <3>2 DEF y, z
  <2>11. D(m) >= 0
    BY <2>6, <2>10
  <2> QED
    BY <2>11
<1>3. ASSUME NEW i \in 0 .. Len(s)
      PROVE  D(i) >= 0
  <2>1. i \in Nat /\ i <= Len(s)
    BY <1>0
  <2> QED
    BY <1>2, <2>1
<1> QED
  BY <1>3 DEF f, q


LEMMA VarianceBounded ==
    ASSUME NEW s \in Seq(0 .. One), Len(s) > 0
    PROVE  Variance(s) \in 0 .. One * One
<1> DEFINE f == Totals(s)
           q == Totals(Squares(s))
           V(i) == i * q[i] - f[i] * f[i]
           T == {i \in Nat : i <= Len(s) /\ ~(V(i) >= 0)}
<1>0. /\ f[0] = 0 /\ q[0] = 0 /\ Len(s) \in Nat
      /\ \A i \in 1 .. Len(s) : /\ f[i] = f[i - 1] + s[i]
                                /\ q[i] = q[i - 1] + s[i] * s[i]
                                /\ s[i] \in Int
  BY SquaresType, TotalsSteps
<1>1. \A i \in 0 .. Len(s) : f[i] \in Nat /\ q[i] \in Nat /\ q[i] <= 40000 * i
  BY ScoreTotals
<1>2. \A x \in Int : \A i \in 0 .. Len(s) : q[i] - 2 * x * f[i] + i * x * x >= 0
  BY DistancesNatural
<1>3. SumOf(s) = f[Len(s)] /\ SumOf(Squares(s)) = q[Len(s)]
  BY SquaresType, TotalsSteps
<1> HIDE DEF f, q
<1>4. ASSUME T # {}
      PROVE  FALSE
  <2>0. T \subseteq Nat
    OBVIOUS
  <2>1. PICK m \in T : \A k \in T : m <= k
    <3> HIDE DEF T
    <3> QED
      BY <1>4, <2>0, LeastNumber
  <2>2. m # 0
    <3>1. V(0) = 0
      BY <1>0
    <3> QED
      BY <3>1
  <2>3. m - 1 \in Nat /\ m - 1 \notin T /\ m \in 1 .. Len(s)
    <3>1. m \in Nat /\ m <= Len(s)
      OBVIOUS
    <3> HIDE DEF T
    <3> QED
      BY <1>0, <2>1, <2>2, <3>1
  <2>4. V(m - 1) >= 0
    BY <1>0, <2>3
  <2>5. PICK a \in Int, b \in Int, v \in Int : a = q[m - 1] /\ b = f[m - 1] /\ v = s[m]
    <3>1. m - 1 \in 0 .. Len(s)
      BY <1>0, <2>3
    <3>2. q[m - 1] \in Int /\ f[m - 1] \in Int /\ s[m] \in Int
      BY <1>0, <1>1, <2>3, <3>1
    <3> QED
      BY <3>2
  <2>6. q[m] = a + v * v /\ f[m] = b + v
    BY <1>0, <2>3, <2>5
  <2>7. m * (a + v * v) - (b + v) * (b + v)
          = ((m - 1) * a - b * b) + (a - 2 * v * b + (m - 1) * v * v)
    BY <2>3
  <2>8. a - 2 * v * b + (m - 1) * v * v >= 0
    <3>1. m - 1 \in 0 .. Len(s)
      BY <1>0, <2>3
    <3>2. q[m - 1] - 2 * v * f[m - 1] + (m - 1) * v * v >= 0
      BY <1>2, <3>1
    <3> QED
      BY <2>5, <3>2
  <2>9. (m - 1) * a - b * b >= 0
    BY <2>4, <2>5
  <2>10. m * (a + v * v) - (b + v) * (b + v) >= 0
    <3> DEFINE y == (m - 1) * a - b * b
               z == a - 2 * v * b + (m - 1) * v * v
    <3>1. y \in Int /\ z \in Int /\ y >= 0 /\ z >= 0
      BY <2>3, <2>8, <2>9
    <3> HIDE DEF y, z
    <3>2. y + z >= 0
      BY <3>1
    <3> QED
      BY <2>7, <3>2 DEF y, z
  <2>11. V(m) >= 0
    BY <2>6, <2>10
  <2> QED
    BY <2>11
<1>5. PICK n \in Nat, a \in Nat, b \in Nat : n = Len(s) /\ a = q[n] /\ b = f[n]
  <2>1. Len(s) \in 0 .. Len(s)
    BY <1>0
  <2>2. f[Len(s)] \in Nat /\ q[Len(s)] \in Nat
    BY <1>1, <2>1
  <2> QED
    BY <1>0, <2>2
<1>6. n > 0 /\ n * a - b * b >= 0 /\ a <= 40000 * n
  <2>1. V(Len(s)) >= 0
    BY <1>0, <1>4
  <2>2. n \in 0 .. Len(s)
    BY <1>0, <1>5
  <2>3. q[n] <= 40000 * n
    BY <1>1, <2>2
  <2> QED
    BY <1>5, <2>1, <2>3
<1>7. Variance(s) = (n * a - b * b) \div (n * n)
  BY <1>3, <1>5 DEF Variance
<1>8. n * a - b * b <= 40000 * (n * n)
  <2>1. n * a <= n * (40000 * n)
    BY <1>6
  <2>2. n * (40000 * n) = 40000 * (n * n)
    OBVIOUS
  <2>3. b * b >= 0
    OBVIOUS
  <2> DEFINE w == n * a
             x == b * b
             y == n * (40000 * n)
             z == 40000 * (n * n)
  <2>4. w \in Int /\ x \in Int /\ y \in Int /\ z \in Int /\ w <= y /\ y = z /\ x >= 0
    BY <2>1, <2>2, <2>3
  <2> HIDE DEF w, x, y, z
  <2>5. w - x <= z
    BY <2>4
  <2> QED
    BY <2>5 DEF w, x, z
<1>9. PICK d \in Int, e \in Int : d = n * a - b * b /\ e = n * n
  OBVIOUS
<1>10. e > 0 /\ d >= 0 /\ d <= 40000 * e
  BY <1>6, <1>8, <1>9
<1>11. PICK w \in Int : w = d \div e /\ w >= 0 /\ w <= 40000
  BY <1>10
<1>12. w \in 0 .. One * One
  <2>1. PICK k \in Int : k = One * One /\ k = 40000
    BY DEF One
  <2>2. w \in 0 .. k
    BY <1>11, <2>1
  <2> QED
    BY <2>1, <2>2
<1> QED
  BY <1>7, <1>9, <1>11, <1>12

(* Every variance has a root. *)
LEMMA RootExists ==
    ASSUME NEW v \in 0 .. One * One
    PROVE  Root[v] \in 0 .. One
<1> DEFINE T == {d \in Nat : v < (d + 1) * (d + 1)}
<1>0. v \in Nat /\ v <= 40000
  BY DEF One
<1>1. 200 \in T
  BY <1>0
<1>2. PICK m \in T : \A k \in T : m <= k
  <2>0. T \subseteq Nat
    OBVIOUS
  <2> HIDE DEF T
  <2> QED
    BY <1>1, <2>0, LeastNumber
<1>3. m \in Nat /\ m <= 200 /\ v < (m + 1) * (m + 1)
  BY <1>1, <1>2
<1>4. m * m <= v
  <2>1. CASE m = 0
    BY <1>0, <2>1
  <2>2. CASE m # 0
    <3>1. m - 1 \in Nat
      BY <1>3, <2>2
    <3>2. m - 1 \notin T
      <4> HIDE DEF T
      <4> QED
        BY <1>2, <1>3, <3>1
    <3>3. ~(v < ((m - 1) + 1) * ((m - 1) + 1))
      BY <3>1, <3>2
    <3>4. (m - 1) + 1 = m
      BY <1>3
    <3>5. ~(v < m * m)
      BY <3>3, <3>4
    <3> QED
      BY <1>0, <1>3, <3>5
  <2> QED
    BY <2>1, <2>2
<1>5. \E d \in 0 .. One : d * d <= v /\ v < (d + 1) * (d + 1)
  <2>1. m \in 0 .. One
    BY <1>3 DEF One
  <2> QED
    BY <1>3, <1>4, <2>1
<1>6. Root[v] = CHOOSE d \in 0 .. One : d * d <= v /\ v < (d + 1) * (d + 1)
  BY DEF Root
<1> QED
  BY <1>5, <1>6

(* The threshold stays between where equal scores take it and its upper limit;
   the lower limit of the code is never the one that holds. *)
LEMMA UpdatedInRange ==
    ASSUME NEW s \in Seq(Scores), NEW t \in Settled .. Base + Reach
    PROVE  Updated(s, t) \in Settled .. Base + Reach
<1>1. /\ Base \in Int /\ Reach \in Int /\ 0 <= Reach /\ Settled = Base - 15
      /\ MinSamples \in Int /\ MinSamples >= 1
  BY ThresholdAssumption DEF Settled, One
<1>2. CASE Len(s) < MinSamples
  BY <1>2 DEF Updated
<1>3. CASE ~(Len(s) < MinSamples)
  <2>1. s \in Seq(0 .. One) /\ Len(s) \in Nat
    BY ThresholdAssumption, SeqMonotonic, LenProperties
  <2>2. Len(s) > 0
    BY <1>1, <1>3, <2>1
  <2>3. Root[Variance(s)] \in 0 .. One
    BY <2>1, <2>2, VarianceBounded, RootExists
  <2>4. PICK r \in Int : r = Root[Variance(s)] /\ 0 <= r
    <3>1. 0 .. One \subseteq Nat
      BY DEF One
    <3>2. PICK r \in Nat : r = Root[Variance(s)]
      BY <2>3, <3>1
    <3> QED
      BY <3>2
  <2>5. Adjustment(s) = (r - 30) \div 2
    BY <2>4 DEF Adjustment, One
  <2>6. PICK d \in Int : d = (r - 30) \div 2 /\ d >= 0 - 15
    BY <2>4
  <2>7. Updated(s, t) = Bounded(Base + d)
    BY <1>3, <2>5, <2>6 DEF Updated
  <2> QED
    BY <1>1, <2>6, <2>7 DEF Bounded
<1> QED
  BY <1>2, <1>3

LEMMA RememberType ==
    ASSUME NEW s \in Seq(Scores), Len(s) <= Window, NEW score \in Scores
    PROVE  Remember(s, score) \in Seq(Scores) /\ Len(Remember(s, score)) <= Window
<1>1. Len(s) \in Nat /\ Window \in Nat
  BY LenProperties, ThresholdAssumption
<1>2. Append(s, score) \in Seq(Scores) /\ Len(Append(s, score)) = Len(s) + 1
  BY AppendProperties
<1>3. Append(s, score) # <<>>
  BY <1>1, <1>2, EmptySeq
<1>4. Tail(Append(s, score)) \in Seq(Scores) /\ Len(Tail(Append(s, score))) = Len(s)
  BY <1>1, <1>2, <1>3, HeadTailProperties
<1> QED
  BY <1>1, <1>2, <1>4 DEF Remember

(* AdaptiveThreshold.update, whatever the scores of the last ticks were: the
   history stays within its length, and the threshold between 0.075 below its
   base and its upper limit. *)
THEOREM ThresholdInRange == SSpec => []STypeOK
<1>1. SInit => STypeOK
  BY ThresholdAssumption DEF SInit, STypeOK, Settled, One
<1>2. STypeOK /\ [SNext]_svars => STypeOK'
  <2> SUFFICES ASSUME STypeOK, [SNext]_svars
               PROVE  STypeOK'
    OBVIOUS
  <2>1. ASSUME NEW score \in Scores, ScoredTick(score)
        PROVE  STypeOK'
    <3>1. scores' \in Seq(Scores) /\ Len(scores') <= Window
      BY <2>1, RememberType DEF ScoredTick, STypeOK
    <3>2. threshold' \in Settled .. Base + Reach
      BY <2>1, <3>1, UpdatedInRange DEF ScoredTick, STypeOK
    <3>3. beat' \in {0, 1}
      BY <2>1 DEF ScoredTick, STypeOK
    <3>4. Settled' = Settled
      BY DEF Settled, One
    <3> QED
      BY <3>1, <3>2, <3>3 DEF STypeOK, Settled, One
  <2>2. ASSUME NEW req \in OverrideRequests, ScoredOverride(req)
        PROVE  STypeOK'
    BY <2>2 DEF ScoredOverride, STypeOK, Settled, One
  <2>3. CASE UNCHANGED svars
    BY <2>3 DEF svars, STypeOK, Settled, One
  <2> QED
    BY <2>1, <2>2, <2>3 DEF SNext
<1> QED
  BY <1>1, <1>2, PTL DEF SSpec

(* A history of equal scores, long enough to count. *)
Unvarying(s) == Len(s) >= MinSamples /\ \A i, j \in 1 .. Len(s) : s[i] = s[j]

(* Where such a history takes the threshold, whatever it was before and however
   high or low the scores are. *)
SteadyIsSettled == Unvarying(scores) => threshold = Bounded(Settled)

LEMMA NoVariance ==
    ASSUME NEW s \in Seq(0 .. One), Len(s) > 0,
           \A i, j \in 1 .. Len(s) : s[i] = s[j]
    PROVE  Variance(s) = 0
<1>1. /\ s \in Seq(Int) /\ Squares(s) \in Seq(Int) /\ Len(s) \in Nat
      /\ Len(Squares(s)) = Len(s)
      /\ \A i \in 1 .. Len(s) : s[i] \in Int /\ Squares(s)[i] = s[i] * s[i]
  BY SquaresType
<1>2. PICK c \in Int : \A i \in 1 .. Len(s) : s[i] = c
  BY <1>1
<1>3. PICK n \in Nat, e \in Int : n = Len(s) /\ e = c * c
  BY <1>1
<1>4. SumOf(s) = n * c
  BY <1>1, <1>2, <1>3, EqualTotals
<1>5. \A i \in 1 .. Len(Squares(s)) : Squares(s)[i] = e
  BY <1>1, <1>2, <1>3
<1>6. SumOf(Squares(s)) = n * e
  BY <1>1, <1>3, <1>5, EqualTotals
<1>7. n * (n * e) - (n * c) * (n * c) = 0
  BY <1>3
<1>8. n * n > 0
  BY <1>3
<1>9. 0 \div (n * n) = 0
  <2>1. PICK k \in Nat : k = n * n /\ k > 0
    BY <1>8
  <2> QED
    BY <2>1
<1> QED
  BY <1>3, <1>4, <1>6, <1>7, <1>9 DEF Variance

LEMMA RootOfZero == Root[0] = 0
<1>1. 0 \in 0 .. One * One
  BY DEF One
<1>2. Root[0] = CHOOSE d \in 0 .. One : d * d <= 0 /\ 0 < (d + 1) * (d + 1)
  BY <1>1 DEF Root
<1>3. 0 \in 0 .. One
  BY DEF One
<1>4. \A d \in 0 .. One : d * d <= 0 => d = 0
  <2>1. \A d \in Nat : d * d <= 0 => d = 0
    OBVIOUS
  <2>2. 0 .. One \subseteq Nat
    BY DEF One
  <2> QED
    BY <2>1, <2>2
<1> QED
  BY <1>2, <1>3, <1>4

LEMMA UnvaryingSettles ==
    ASSUME NEW s \in Seq(Scores), Unvarying(s), NEW t
    PROVE  Updated(s, t) = Bounded(Settled)
<1>1. MinSamples \in Nat /\ MinSamples >= 1 /\ Len(s) \in Nat
  BY ThresholdAssumption, LenProperties
<1>2. s \in Seq(0 .. One)
  BY ThresholdAssumption, SeqMonotonic
<1>3. Variance(s) = 0
  BY <1>1, <1>2, NoVariance DEF Unvarying
<1>4. Adjustment(s) = 0 - 15
  BY <1>3, RootOfZero DEF Adjustment, One
<1>5. Settled = Base - 15 /\ Base \in Int
  BY ThresholdAssumption DEF Settled, One
<1>6. Base + Adjustment(s) = Settled
  BY <1>4, <1>5
<1> QED
  BY <1>1, <1>6 DEF Updated, Unvarying

(* AdaptiveThreshold.update, where the configured threshold stops meaning what
   it says: whenever the scores of the history are all equal, and whatever came
   before, the threshold is 0.075 below its base (or at its lower limit, were
   that higher). *)
THEOREM SteadyScoresSettle == SSpec => []SteadyIsSettled
<1>1. SInit => STypeOK /\ SteadyIsSettled
  <2> SUFFICES ASSUME SInit
               PROVE  STypeOK /\ SteadyIsSettled
    OBVIOUS
  <2>1. STypeOK
    BY ThresholdAssumption DEF SInit, STypeOK, Settled, One
  <2>2. Len(scores) = 0 /\ MinSamples \in Nat /\ MinSamples >= 1
    BY ThresholdAssumption, EmptySeq DEF SInit
  <2> QED
    BY <2>1, <2>2 DEF SteadyIsSettled, Unvarying
<1>2. STypeOK /\ SteadyIsSettled /\ [SNext]_svars => SteadyIsSettled'
  <2> SUFFICES ASSUME STypeOK, SteadyIsSettled, [SNext]_svars
               PROVE  SteadyIsSettled'
    OBVIOUS
  <2>1. ASSUME NEW score \in Scores, ScoredTick(score)
        PROVE  SteadyIsSettled'
    <3>1. PICK s \in Seq(Scores) : s = scores'
      BY <2>1, RememberType DEF ScoredTick, STypeOK
    <3>2. threshold' = Updated(s, threshold)
      BY <2>1, <3>1 DEF ScoredTick
    <3>3. Unvarying(s) => threshold' = Bounded(Settled)
      BY <3>2, UnvaryingSettles
    <3> QED
      BY <3>1, <3>3 DEF SteadyIsSettled, Unvarying, Bounded, Settled, One
  <2>2. ASSUME NEW req \in OverrideRequests, ScoredOverride(req)
        PROVE  SteadyIsSettled'
    BY <2>2 DEF ScoredOverride, SteadyIsSettled, Unvarying, Bounded, Settled, One
  <2>3. CASE UNCHANGED svars
    BY <2>3 DEF svars, SteadyIsSettled, Unvarying, Bounded, Settled, One
  <2> QED
    BY <2>1, <2>2, <2>3 DEF SNext
<1> QED
  BY <1>1, <1>2, ThresholdInRange, PTL DEF SSpec


=============================================================================
