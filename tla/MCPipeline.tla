----------------------------- MODULE MCPipeline ------------------------------
(* Two slices; the critical one carries a TCP and a UDP flow, the background
   one a UDP flow. *)
EXTENDS SlicePipeline

CONSTANTS Critical, Background, Tcp1, Udp1, Udp2

MCSlices == {Critical, Background}
MCSliceOf == [f \in Flows |-> IF f = Udp2 THEN Background ELSE Critical]
MCSends == [f \in Flows |-> IF f = Tcp1 THEN 3 ELSE 1]
MCTcpFlows == {Tcp1}
MCUdpFlows == {Udp1, Udp2}

=============================================================================
