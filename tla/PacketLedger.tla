---------------------------- MODULE PacketLedger -----------------------------
(***************************************************************************)
(* What the slicer promises for every packet the server hands to it.  A    *)
(* packet is either turned away at once or waits in the line of its slice; *)
(* the lines are served in order; serving decides, once, whether the       *)
(* packet was delivered or dropped; and telemetry is told every outcome    *)
(* once.  There are no queues to fill here and nobody ever blocks.         *)
(***************************************************************************)
EXTENDS Sequences

CONSTANTS
    Slices,
    Packets,
    SliceFor        \* the slice each packet belongs to

VARIABLES
    outcome,        \* of every packet: "unseen", "waiting", "delivered", "dropped"
    line,           \* of every slice: the packets that wait, in order
    told            \* the packets whose outcome telemetry has recorded

lvars == <<outcome, line, told>>

LInit ==
    /\ outcome = [p \in Packets |-> "unseen"]
    /\ line = [s \in Slices |-> <<>>]
    /\ told = {}

Join(p) ==
    /\ outcome[p] = "unseen"
    /\ outcome' = [outcome EXCEPT ![p] = "waiting"]
    /\ line' = [line EXCEPT ![SliceFor[p]] = Append(@, p)]
    /\ UNCHANGED told

TurnAway(p) ==
    /\ outcome[p] = "unseen"
    /\ outcome' = [outcome EXCEPT ![p] = "dropped"]
    /\ UNCHANGED <<line, told>>

Decide(s) ==
    /\ line[s] # <<>>
    /\ \E verdict \in {"delivered", "dropped"} :
          outcome' = [outcome EXCEPT ![Head(line[s])] = verdict]
    /\ line' = [line EXCEPT ![s] = Tail(@)]
    /\ UNCHANGED told

Tell(p) ==
    /\ outcome[p] \in {"delivered", "dropped"}
    /\ p \notin told
    /\ told' = told \union {p}
    /\ UNCHANGED <<outcome, line>>

LNext ==
    \/ \E p \in Packets : Join(p) \/ TurnAway(p) \/ Tell(p)
    \/ \E s \in Slices : Decide(s)

LSpec == LInit /\ [][LNext]_lvars

=============================================================================
