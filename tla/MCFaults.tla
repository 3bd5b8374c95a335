------------------------------ MODULE MCFaults ------------------------------
(* A TLC instance of the fault scenario. *)
EXTENDS FaultScenario

(* The durations operators ask for: none, two real ones, and one that is over
   before it begins. *)
MCDurations == {0, 2, 5, 0 - 1}
=============================================================================
