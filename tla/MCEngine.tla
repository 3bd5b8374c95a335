------------------------------ MODULE MCEngine ------------------------------
(* TLC instances of the decision engine with the slices of config.py. *)
EXTENDS DecisionEngine, StartupConfig

(* No operator touches the allocation. *)
MCNoOverrides == {}

(* The operator asks for more than CRITICAL may have and less than BACKGROUND
   must have: clamped to 126 Mbit/s, from where a congestion decision leaves
   the link over its budget, as BACKGROUND cannot give its share. *)
MCGreedy == {PerSlice(200, 41, 0)}
=============================================================================
