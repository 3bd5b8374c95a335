------------------------------- MODULE Samples -------------------------------
(***************************************************************************)
(* Sums over the windows of samples that the telemetry and the adaptive    *)
(* threshold keep.  A recursive function, so that it can be reasoned about.*)
(***************************************************************************)
EXTENDS Integers, Sequences

(* What sum() and the means of statistics and numpy add up. *)
SumOf(s) ==
    LET total[i \in 0 .. Len(s)] == IF i = 0 THEN 0 ELSE total[i - 1] + s[i]
    IN  total[Len(s)]

=============================================================================
