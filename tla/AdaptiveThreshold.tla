-------------------------- MODULE AdaptiveThreshold --------------------------
(***************************************************************************)
(* AdaptiveThreshold: the score from which the engine counts a reading as  *)
(* congested.  It moves with the standard deviation of the last scores.    *)
(*                                                                         *)
(* Scores and thresholds are whole numbers of 1/One; roots and quotients   *)
(* round down.                                                             *)
(***************************************************************************)
EXTENDS Samples

CONSTANTS
    Base,           \* congestion_threshold
    Reach,          \* how far the threshold may move away from Base
    Window,         \* maxlen of _history
    MinSamples,     \* scores needed before the threshold moves
    Scores          \* bound: the scores inference may come up with

One == 200

ASSUME ThresholdAssumption ==
    /\ Base \in 0 .. One
    /\ Reach \in 0 .. Base
    /\ Window \in Nat \ {0}
    /\ MinSamples \in 1 .. Window
    /\ Scores \subseteq 0 .. One

Squares(s) == [i \in DOMAIN s |-> s[i] * s[i]]

(* Of all of a history; whole, as the root of a whole part is the whole part of
   the root. *)
Variance(s) ==
    (Len(s) * SumOf(Squares(s)) - SumOf(s) * SumOf(s)) \div (Len(s) * Len(s))

Root[v \in 0 .. One * One] ==
    CHOOSE d \in 0 .. One : d * d <= v /\ v < (d + 1) * (d + 1)

(* _history: a deque with a maxlen. *)
Remember(s, score) ==
    LET all == Append(s, score)
    IN  IF Len(all) > Window THEN Tail(all) ELSE all

(* Neutral where the deviation is 0.15. *)
Adjustment(s) == (Root[Variance(s)] - (15 * One) \div 100) \div 2

(* Faulty variant: the threshold has no upper limit. *)
BoundedBelow(t) == IF t < Base - Reach THEN Base - Reach ELSE t

Bounded(t) ==
    IF t < Base - Reach THEN Base - Reach
    ELSE IF t > Base + Reach THEN Base + Reach ELSE t

(* Faulty variant: a calm system raises the threshold. *)
UpdatedInverted(s, t) ==
    IF Len(s) < MinSamples THEN t ELSE Bounded(Base - Adjustment(s))

Updated(s, t) ==
    IF Len(s) < MinSamples THEN t ELSE Bounded(Base + Adjustment(s))

(* How the engine reads a score. *)
ReadingOf(score, t) ==
    CASE score >= t -> "high"
      [] score < t /\ 10 * score <= 7 * t -> "low"
      [] OTHER -> "dead"

=============================================================================
