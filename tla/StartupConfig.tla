--------------------------- MODULE StartupConfig ---------------------------
(* The values of config.py: what DEFAULT_CONFIG gives the three slices and
   the link, in the units of Bandwidth. *)
EXTENDS Bandwidth

PerSlice(critical, standard, background) ==
    [s \in Slices |-> CASE s = "CRITICAL" -> critical * Mbps
                        [] s = "STANDARD" -> standard * Mbps
                        [] s = "BACKGROUND" -> background * Mbps]

StartupTotal == 100 * Mbps
StartupBandwidth == PerSlice(60, 30, 10)
StartupMin == PerSlice(30, 10, 5)
StartupMax == PerSlice(80, 50, 20)
=============================================================================
