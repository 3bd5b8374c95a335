------------------------------- MODULE MCFlows -------------------------------
(* A steady and a bursty flow of either protocol. *)
EXTENDS TrafficGenerator

SmallProfiles ==
    [protocol : {"tcp", "udp"}, pattern : {"constant", "burst"}]

=============================================================================
