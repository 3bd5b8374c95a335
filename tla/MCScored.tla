------------------------------ MODULE MCScored ------------------------------
(* TLC instance of the engine with its scores and the slices of config.py. *)
EXTENDS ScoredEngine, StartupConfig, TLC

(* The operator asks for far too much of one slice. *)
MCOverrides == {"BACKGROUND" :> 200 * Mbps}
=============================================================================
