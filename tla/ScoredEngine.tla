---------------------------- MODULE ScoredEngine ----------------------------
(***************************************************************************)
(* The decision engine with the scores it reads.  DecisionEngine lets a    *)
(* tick be given any reading; here the reading is what the adaptive        *)
(* threshold makes of the score, and the threshold moves with the scores.  *)
(***************************************************************************)
EXTENDS DecisionEngine, AdaptiveThreshold

VARIABLES
    scores,     \* _history of the adaptive threshold
    threshold,  \* its current value
    beat        \* the parity of the ticks: a tick may leave all else alone

svars == <<vars, scores, threshold, beat>>

SInit ==
    /\ Init
    /\ scores = <<>>
    /\ threshold = Base
    /\ beat = 0

(* One loop body: the threshold takes the score in before it is compared. *)
ScoredTick(score) ==
    /\ scores' = Remember(scores, score)
    /\ threshold' = Updated(scores', threshold)
    /\ Tick(ReadingOf(score, threshold'))
    /\ beat' = 1 - beat

ScoredOverride(req) == Override(req) /\ UNCHANGED <<scores, threshold, beat>>

SNext ==
    \/ \E score \in Scores : ScoredTick(score)
    \/ \E req \in OverrideRequests : ScoredOverride(req)

SSpec == SInit /\ [][SNext]_svars /\ WF_svars(\E score \in Scores : ScoredTick(score))

-----------------------------------------------------------------------------
(* Where the threshold settles when the scores do not vary: 0.075 below its
   base.  The lower limit, 0.15 below, is never reached. *)
Settled == Base - (15 * One) \div 200

STypeOK ==
    /\ scores \in Seq(Scores) /\ Len(scores) <= Window
    /\ threshold \in Settled .. Base + Reach
    /\ beat \in {0, 1}

Spiking == age = 0 /\ log # <<>> /\ log[1].trigger = "congestion_spike"

Calm(score) == 10 * score <= 7 * Settled

(* From some time on the score does not change, and operators stay away. *)
Steady(score) == <>[][ScoredTick(score)]_svars

(* What a score that no longer changes leads to, whatever came before.  From
   0.625 on it is congestion and acted upon again and again, though it may be
   below the configured 0.70; up to 70% of that it is calm, and the allocation
   comes home; in between the engine decides nothing any more. *)
SteadyScoreDecides ==
    \A score \in Scores :
        /\ score >= Settled => (Steady(score) => []<>Spiking)
        /\ Calm(score) => (Steady(score) => <>[]Restored)
        /\ score < Settled /\ ~Calm(score) => (Steady(score) => <>[](age = Cooldown))

=============================================================================
